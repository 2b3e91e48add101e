----------------------------- MODULE DiskProbe ------------------------------
(* tools/disk_probe.py: cases of unbuffered reads of a file at one queue    *)
(* depth each.  The workers of a case pop requests off one list under a     *)
(* lock, read without it, and add their bytes when they end; the case's row *)
(* is computed when all have.  A worker may fail to open the file or to     *)
(* read (recorded; it stops), or raise something else: in a pool that stays *)
(* in a future nobody reads, alone it ends the probe without a result.      *)
EXTENDS Integers, Sequences, FiniteSets, FiniteSetsExt, SequencesExt

CONSTANTS
  QueueDepths,     \* the queue depth of each case, in order
  Requests,        \* requests of a case
  KeptErrors,      \* errors a row has room for (4)
  MaxBreaks        \* bound: failures of a run

ASSUME DiskProbeAssumption ==
  /\ QueueDepths \in Seq(Nat \ {0}) /\ Requests \in Nat
  /\ KeptErrors \in Nat \ {0} /\ MaxBreaks \in Nat

VARIABLES
  workers,         \* of the case: what each does, its request and its bytes
  work,            \* requests left, popped from the end
  latencies,       \* requests that were timed, in the order they were kept
  totals,          \* bytes of the workers that have ended, in requests
  errors,          \* failures recorded
  unread,          \* exceptions left in futures
  dropped,         \* requests popped and not read
  results,         \* rows of the cases that are over
  probe            \* running, raised, written

probeVars == <<workers, work, latencies, totals, errors, unread, dropped, results, probe>>

Depth  == QueueDepths[Len(results) + 1]
Fresh  == [does |-> "open", req |-> 0, local |-> 0]
Begun  == /\ work' = [i \in 1..Requests |-> i] /\ latencies' = <<>> /\ totals' = 0
          /\ errors' = 0 /\ unread' = 0 /\ dropped' = {}
Broken == errors + unread + MapThenSumSet(LAMBDA i : Len(results[i].errors), DOMAIN results)
            + (IF probe = "raised" THEN 1 ELSE 0)
          < MaxBreaks

Open(w) ==
  /\ workers[w].does = "open" /\ workers' = [workers EXCEPT ![w].does = "pop"]
  /\ UNCHANGED <<work, latencies, totals, errors, unread, dropped, results, probe>>

OpenFails(w) ==
  /\ workers[w].does = "open" /\ Broken
  /\ errors' = errors + 1 /\ workers' = [workers EXCEPT ![w].does = "ended"]
  /\ UNCHANGED <<work, latencies, totals, unread, dropped, results, probe>>

(* No memory for the buffer: not an OSError.                                *)
BufferFails(w) ==
  /\ workers[w].does = "open" /\ Broken
  /\ IF Depth <= 1 THEN probe' = "raised" /\ UNCHANGED <<workers, unread>>
     ELSE unread' = unread + 1 /\ workers' = [workers EXCEPT ![w].does = "ended"]
          /\ UNCHANGED probe
  /\ UNCHANGED <<work, latencies, totals, errors, dropped, results>>

Pop(w) ==
  /\ workers[w].does = "pop"
  /\ IF work = <<>>
     THEN workers' = [workers EXCEPT ![w].does = "close"] /\ UNCHANGED work
     ELSE workers' = [workers EXCEPT ![w].does = "read", ![w].req = Last(work)]
          /\ work' = Front(work)
  /\ UNCHANGED <<latencies, totals, errors, unread, dropped, results, probe>>

Pread(w) ==
  /\ workers[w].does = "read"
  /\ workers' = [workers EXCEPT ![w].does = "time", ![w].local = @ + 1]
  /\ UNCHANGED <<work, latencies, totals, errors, unread, dropped, results, probe>>

PreadFails(w) ==
  /\ workers[w].does = "read" /\ Broken
  /\ errors' = errors + 1 /\ dropped' = dropped \cup {workers[w].req}
  /\ workers' = [workers EXCEPT ![w].does = "close"]
  /\ UNCHANGED <<work, latencies, totals, unread, results, probe>>

KeepLatency(w) ==
  /\ workers[w].does = "time"
  /\ latencies' = Append(latencies, workers[w].req)
  /\ workers' = [workers EXCEPT ![w].does = "pop"]
  /\ UNCHANGED <<work, totals, errors, unread, dropped, results, probe>>

AddTotals(w) ==
  /\ workers[w].does = "close"
  /\ totals' = totals + workers[w].local /\ workers' = [workers EXCEPT ![w].does = "ended"]
  /\ UNCHANGED <<work, latencies, errors, unread, dropped, results, probe>>

(* The row: throughput is of the bytes read, IOPS of every request of the   *)
(* case; the first errors are kept (what was timed, left, lost or left in a      *)
(* future the row does not tell).  Then the next case, or the file.         *)
RowOfCase ==
  [requests |-> Requests, bytes |-> totals, timed |-> Len(latencies),
   errors |-> [i \in 1..(IF errors < KeptErrors THEN errors ELSE KeptErrors) |-> "error"],
   unread |-> unread, left |-> Len(work), lost |-> Cardinality(dropped)]

CaseEnds ==
  /\ probe = "running" /\ Len(results) < Len(QueueDepths)
  /\ \A w \in DOMAIN workers : workers[w].does = "ended"
  /\ results' = Append(results, RowOfCase) /\ Begun
  /\ IF Len(results) + 1 = Len(QueueDepths)
     THEN probe' = "written" /\ workers' = <<>>
     ELSE workers' = [w \in 1..QueueDepths[Len(results) + 2] |-> Fresh] /\ UNCHANGED probe

ProbeInit ==
  /\ workers = [w \in 1..QueueDepths[1] |-> Fresh] /\ work = [i \in 1..Requests |-> i]
  /\ latencies = <<>> /\ totals = 0 /\ errors = 0 /\ unread = 0 /\ dropped = {}
  /\ results = <<>> /\ probe = "running"

WorkerStep(w) ==
  \/ Open(w) \/ OpenFails(w) \/ BufferFails(w) \/ Pop(w) \/ Pread(w) \/ PreadFails(w)
  \/ KeepLatency(w) \/ AddTotals(w)

ProbeNext ==
  \/ probe = "running" /\ \E w \in DOMAIN workers : WorkerStep(w)
  \/ CaseEnds

ProbeSpec == ProbeInit /\ [][ProbeNext]_probeVars
-----------------------------------------------------------------------------
InHand == {w \in DOMAIN workers : workers[w].does \in {"read", "time"}}

(* No two workers get one request, and none disappears: it is on the list,  *)
(* with one worker, timed, or dropped by a read that failed.                *)
OneWorkerPerRequest ==
  /\ \A v, w \in InHand : workers[v].req = workers[w].req => v = w
  /\ probe # "written" =>
       LET held == {workers[w].req : w \in InHand}
       IN  /\ Range(work) \cup held \cup Range(latencies) \cup dropped = 1..Requests
           /\ Len(work) + Cardinality(held) + Len(latencies) + Cardinality(dropped) = Requests

(* A row's bytes are those of the reads it timed.  With no error and no     *)
(* exception left in a future the IOPS and the throughput are of the same   *)
(* reads: one worker that stops leaves its part to the others.  Requests    *)
(* that were left or lost are explained by the row's errors, one for each   *)
(* worker or read that failed, unless it has as many as it has room for.    *)
RowsAreOfTheirReads ==
  \A i \in DOMAIN results :
    LET r == results[i]
    IN  /\ r.bytes = r.timed /\ r.timed + r.left + r.lost = r.requests
        /\ (r.errors = <<>> /\ r.unread = 0) => r.timed = r.requests
        /\ Len(r.errors) < KeptErrors =>
             /\ r.left > 0 => Len(r.errors) + r.unread = QueueDepths[i]
             /\ r.lost <= Len(r.errors)

(* A probe that raised has written nothing, one that wrote has every case.  *)
ProbeIsMeasured ==
  /\ OneWorkerPerRequest /\ RowsAreOfTheirReads
  /\ totals \in Nat /\ Len(results) <= Len(QueueDepths)
  /\ (probe = "written") <=> (Len(results) = Len(QueueDepths))
=============================================================================
