-------------------------------- MODULE Ngram --------------------------------
(* The n-gram table (sabah/runtime/ngram_prefetch.py): rows of a tensor in *)
(* a read-only mapping, hinted into the working set before the tokens that *)
(* read them and advised away at the next step.  Hints are whole pages;    *)
(* rows and tensors are not.  The table is closed between two steps.       *)
EXTENDS Integers, Sequences, FiniteSets, FiniteSetsExt

CONSTANTS Rows,      \* n_rows
          RowBytes,  \* bytes of a row
          TableAt,   \* _t0: the offset of the tensor in the mapping
          MapBytes,  \* size of the mapping; its base is address 0
          Page,      \* page size
          Wanted,    \* the row sets the tokens of a step may map to
          MaxSteps   \* bound: steps taken

(* A mapping holds its tensor: the constructor raises otherwise.           *)
ASSUME NgramAssumption ==
  /\ {Rows, RowBytes, Page, MapBytes} \subseteq Nat \ {0} /\ TableAt \in Nat
  /\ TableAt + Rows * RowBytes <= MapBytes
  /\ Wanted \subseteq SUBSET (0..Rows - 1)

VARIABLES ngPc,      \* what the stepping thread does next
          prev,      \* self._prev
          rows,      \* the rows of the step in progress
          warmPages, \* pages the table's hints brought in and did not release
          enabled,
          mapped,    \* self._map is not None
          steps,     \* stats: steps
          gathered   \* rows copied out under the lock, of those asked for

ngramVars == <<ngPc, prev, rows, warmPages, enabled, mapped, steps, gathered>>

RowLo(i) == TableAt + i * RowBytes
DownToPage(a) == a - (a % Page)
UpToPage(a) == ((a + Page - 1) \div Page) * Page

(* The runs of consecutive rows of a set, as <<first, count>>.             *)
RowRuns(S) ==
  {<<r[1], r[2] - r[1] + 1>> : r \in {q \in S \X S :
     /\ q[1] <= q[2] /\ q[1]..q[2] \subseteq S
     /\ q[1] - 1 \notin S /\ q[2] + 1 \notin S}}

(* Not this: aligned outward, past the last byte of the mapping.           *)
RunsPastTheEnd(S) ==
  {<<DownToPage(RowLo(r[1])), UpToPage(RowLo(r[1] + r[2])) - DownToPage(RowLo(r[1]))>> :
     r \in RowRuns(S)}

(* _runs: aligned outward to pages, and clamped to the mapping's end.      *)
Runs(S) ==
  {run \in {LET lo == DownToPage(RowLo(r[1]))
                hi == UpToPage(RowLo(r[1] + r[2]))
            IN <<lo, (IF hi < MapBytes THEN hi ELSE MapBytes) - lo>> : r \in RowRuns(S)} :
     run[1] < MapBytes}

PagesOf(S) == UNION {{p \in 0..(MapBytes \div Page) : /\ (p + 1) * Page > run[1]
                                                     /\ p * Page < run[1] + run[2]} : run \in Runs(S)}

NgramInit ==
  /\ ngPc = "idle" /\ prev = {} /\ rows = {} /\ warmPages = {}
  /\ enabled = TRUE /\ mapped = TRUE /\ steps = 0 /\ gathered = {}

(* step: the indices of the tokens; with the prefetcher off they are only  *)
(* returned, and the rows before stay as they are.                         *)
StepBegins ==
  /\ ngPc = "idle" /\ steps < MaxSteps
  /\ rows' \in Wanted
  /\ ngPc' = IF enabled THEN "release" ELSE "gather"
  /\ gathered' = {}
  /\ steps' = IF enabled THEN steps + 1 ELSE steps
  /\ UNCHANGED <<prev, warmPages, enabled, mapped>>

(* release and prefetch do nothing on a table that is closed; a hint may   *)
(* be refused, which is not an error.                                      *)
ReleasePrevious ==
  /\ ngPc = "release"
  /\ \/ mapped /\ warmPages' = warmPages \ PagesOf(prev)
     \/ UNCHANGED warmPages
  /\ ngPc' = "prefetch"
  /\ UNCHANGED <<prev, rows, enabled, mapped, steps, gathered>>

(* A hint that is granted; granting is what the working set is about.      *)
PrefetchRows ==
  /\ ngPc = "prefetch"
  /\ \/ mapped /\ warmPages' = warmPages \union PagesOf(rows)
     \/ ~mapped /\ UNCHANGED warmPages
  /\ prev' = rows
  /\ ngPc' = "gather"
  /\ UNCHANGED <<rows, enabled, mapped, steps, gathered>>

(* gather holds the table's lock over all its rows, so a close comes       *)
(* before or after it; on a closed table it raises.                        *)
GatherRows ==
  /\ ngPc = "gather"
  /\ \/ mapped /\ gathered' = rows /\ ngPc' = "idle"
     \/ ~mapped /\ ngPc' = "raised" /\ UNCHANGED gathered
  /\ UNCHANGED <<prev, rows, warmPages, enabled, mapped, steps>>

Switch ==
  /\ enabled' = ~enabled
  /\ UNCHANGED <<ngPc, prev, rows, warmPages, mapped, steps, gathered>>

(* NgramPrefetcher.close: the last rows are released, then the mapping is  *)
(* dropped under the lock.                                                 *)
CloseTable ==
  /\ ngPc = "idle" /\ mapped
  /\ warmPages' = warmPages \ PagesOf(prev)
  /\ prev' = {} /\ mapped' = FALSE
  /\ UNCHANGED <<ngPc, rows, enabled, steps, gathered>>

NgramNext == StepBegins \/ ReleasePrevious \/ PrefetchRows \/ GatherRows
               \/ Switch \/ CloseTable
NgramSpec == NgramInit /\ [][NgramNext]_ngramVars

-----------------------------------------------------------------------------
NgramTypeOK ==
  /\ ngPc \in {"idle", "release", "prefetch", "gather", "raised"}
  /\ prev \subseteq 0..Rows - 1 /\ rows \subseteq 0..Rows - 1
  /\ warmPages \subseteq 0..((MapBytes - 1) \div Page)
  /\ gathered \in {{}, rows}

(* Each byte of each row that is about to be read lies in a page that is   *)
(* warm: also one it shares with a row of the step before, which was just  *)
(* advised away (ngram_prefetch.py:332-342).                               *)
RowsAreWarm ==
  ngPc = "gather" /\ mapped /\ prev = rows =>
    \A i \in rows : \A b \in {RowLo(i), RowLo(i + 1) - 1} : b \div Page \in warmPages

(* Hints stay inside the mapping, and their runs do not touch: many rows   *)
(* are few calls (ngram_prefetch.py:124-165).                              *)
RunsAreInTheMap ==
  \A run \in Runs(rows) :
    /\ run[1] >= 0 /\ run[2] > 0 /\ run[1] + run[2] <= MapBytes
    /\ run[1] % Page = 0
(* Page advice covers the rows of a step, drops none of them, and never     *)
(* leaves the mapping (ngram_prefetch.py:124-158, 332-342).                 *)
AdviceIsSound ==
  /\ NgramTypeOK
  /\ RowsAreWarm
  /\ RunsAreInTheMap
=============================================================================
