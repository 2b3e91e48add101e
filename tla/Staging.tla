------------------------------ MODULE Staging ------------------------------
(***************************************************************************)
(* How the misses of a call get their bytes: sb_mmid_fill's disk path.     *)
(* sb_fetch_direct reads the misses in waves of Depth into one of two sets *)
(* of pinned staging buffers and issues a host-to-device copy from each    *)
(* buffer; a set is read into again once its event says that the copies    *)
(* out of it are done.  A wave that fails sends the whole list to the      *)
(* mapped bytes.                                                           *)
(*                                                                         *)
(* A copy reads its source when the device gets to it, in stream order.    *)
(***************************************************************************)
EXTENDS Integers, Sequences

CONSTANTS
  Dst,         \* device slots
  StagedExpert,      \* experts, with what the file and the mapping hold of them
  WaveDepth,       \* SABAH_LLAMA_IO_DEPTH: requests of a wave
  Lists,       \* the miss lists of calls, a slot for each miss: [dst, expert]
  MaxFills,    \* bound: calls
  Mapped, StagedNil

ASSUME StagingAssumption ==
  /\ WaveDepth \in Nat \ {0} /\ MaxFills \in Nat /\ StagedNil \notin StagedExpert
  /\ Lists \subseteq Seq([dst : Dst, expert : StagedExpert]) \ {<<>>}
  /\ \A m \in Lists : \A a, b \in DOMAIN m : m[a].dst = m[b].dst => a = b

(* The buffers of both sets: sb_io_slot_at(parity * depth + i).            *)
StagingBuffer == 0..2 * WaveDepth - 1

VARIABLES
  fillPc,          \* idle, resolve, reuse, read, copy, record, fallback
  miss,        \* the list being filled: [dst, expert]
  waveBase, waveNo, i,
  got,         \* the reads of the wave: delivered whole or not
  stagingBytes,     \* what each buffer holds
  ev,          \* g_io_wave_ev: copies issued when it was last recorded
  stream,      \* copies issued and not done: [dst, expert, from]
  copiesDone,        \* copies done
  slot,        \* what each device slot holds
  due,         \* the expert the last successful fill put in each slot
  fills

call == <<miss, waveBase, waveNo, i, got>>
stagingVars == <<fillPc, call, stagingBytes, ev, stream, copiesDone, slot, due, fills>>

Issued == copiesDone + Len(stream)

Parity == waveNo % 2

WaveSize == IF Len(miss) - waveBase < WaveDepth THEN Len(miss) - waveBase ELSE WaveDepth

Wave == 1..WaveSize

(* Mutant of BufferOf: both parities use the first set.                    *)
BufferOfOneSet(j) == j - 1

(* Request j of the wave reads into this buffer, which its copy reads.     *)
BufferOf(j) == Parity * WaveDepth + j - 1

-----------------------------------------------------------------------------
Fill(m) ==
  /\ fillPc = "idle" /\ fills < MaxFills
  /\ fills' = fills + 1
  /\ miss' = m /\ waveBase' = 0 /\ waveNo' = 0 /\ i' = 1 /\ got' = <<>>
  /\ due' = [d \in Dst |-> IF \E j \in DOMAIN m : m[j].dst = d THEN StagedNil ELSE due[d]]
  /\ fillPc' = "resolve"
  /\ UNCHANGED <<stagingBytes, ev, stream, copiesDone, slot>>

(* Every source is resolved before any is read; direct I/O may be off.     *)
Resolve ==
  /\ fillPc = "resolve"
  /\ fillPc' \in {"reuse", "fallback"}
  /\ UNCHANGED <<call, stagingBytes, ev, stream, copiesDone, slot, due, fills>>

(* Mutant of Reusable: the set is waited for until a copy past its own is  *)
(* done.                                                                   *)
ReusableStrict == ev[Parity] = 0 \/ ev[Parity] < copiesDone

(* What cudaEventSynchronize on the set's event waits for.                 *)
Reusable == ev[Parity] <= copiesDone

(* The staging reuse wait.                                                 *)
Reuse ==
  /\ fillPc = "reuse" /\ Reusable
  /\ fillPc' = "read" /\ i' = 1
  /\ UNCHANGED <<miss, waveBase, waveNo, got, stagingBytes, ev, stream, copiesDone, slot, due, fills>>

(* The wait ends with a CUDA error: the wave is given up.                  *)
ReuseFails ==
  /\ fillPc = "reuse" /\ ev[Parity] # 0
  /\ fillPc' = "fallback" /\ i' = 1
  /\ UNCHANGED <<miss, waveBase, waveNo, got, stagingBytes, ev, stream, copiesDone, slot, due, fills>>

(* The wave is read: whatever each read delivers is in its buffer.         *)
Read ==
  /\ fillPc = "read"
  /\ got' \in [Wave -> BOOLEAN]
  /\ stagingBytes' = [b \in StagingBuffer |->
       IF \E j \in Wave : b = BufferOf(j)
       THEN LET j == CHOOSE j \in Wave : b = BufferOf(j)
            IN  IF got'[j] THEN miss[waveBase + j].expert ELSE StagedNil
       ELSE stagingBytes[b]]
  /\ fillPc' = "copy"
  /\ UNCHANGED <<miss, waveBase, waveNo, i, ev, stream, copiesDone, slot, due, fills>>

(* No buffer for the wave (cudaHostAlloc fails).                           *)
NoBuffer ==
  /\ fillPc = "read" /\ fillPc' = "fallback"
  /\ UNCHANGED <<call, stagingBytes, ev, stream, copiesDone, slot, due, fills>>

Delivered(j) == got[j]

Copy ==
  /\ fillPc = "copy" /\ i \in Wave
  /\ \/ /\ Delivered(i)
        /\ stream' = Append(stream, [dst |-> miss[waveBase + i].dst,
                                     expert |-> miss[waveBase + i].expert,
                                     from |-> BufferOf(i)])
        /\ i' = i + 1 /\ UNCHANGED fillPc
     \/ fillPc' = "fallback" /\ UNCHANGED <<stream, i>>
  /\ UNCHANGED <<miss, waveBase, waveNo, got, stagingBytes, ev, copiesDone, slot, due, fills>>

(* Mutant of LastWave: a wave of nothing follows a full one.               *)
LastWaveLate == waveBase + WaveDepth > Len(miss)

LastWave == waveBase + WaveDepth >= Len(miss)

(* Every miss of the list has a copy on the stream.                        *)
Return ==
  /\ fillPc' = "idle" /\ got' = <<>>
  /\ due' = [d \in Dst |->
       IF \E j \in DOMAIN miss : miss[j].dst = d
       THEN miss[CHOOSE j \in DOMAIN miss : miss[j].dst = d].expert
       ELSE due[d]]

(* The set's event is recorded behind the wave's copies.                   *)
RecordWave ==
  /\ fillPc = "copy" /\ i \notin Wave
  /\ ev' = [ev EXCEPT ![Parity] = Issued]
  /\ IF LastWave THEN Return /\ UNCHANGED <<waveBase, waveNo>>
     ELSE /\ fillPc' = "reuse" /\ waveBase' = waveBase + WaveDepth /\ waveNo' = waveNo + 1
          /\ UNCHANGED <<got, due>>
  /\ UNCHANGED <<miss, i, stagingBytes, stream, copiesDone, slot, fills>>

RecordFails ==
  /\ fillPc = "copy" /\ i \notin Wave
  /\ fillPc' = "fallback"
  /\ UNCHANGED <<call, stagingBytes, ev, stream, copiesDone, slot, due, fills>>

(* What is copied from the mapping when the direct path gives up.          *)
Fallback == miss

(* All the copies are issued, or some and then the fill fails.             *)
CopyMapped ==
  /\ fillPc = "fallback"
  /\ \E n \in 0..Len(Fallback) :
       /\ stream' = stream \o [j \in 1..n |-> [dst |-> Fallback[j].dst,
                                              expert |-> Fallback[j].expert,
                                              from |-> Mapped]]
       /\ IF n = Len(Fallback) THEN Return
          ELSE fillPc' = "idle" /\ got' = <<>> /\ UNCHANGED due
  /\ UNCHANGED <<miss, waveBase, waveNo, i, stagingBytes, ev, copiesDone, slot, fills>>

(* What a copy finds when the device gets to it.                           *)
Source(c) == IF c.from = Mapped THEN c.expert ELSE stagingBytes[c.from]

(* The copy engine.                                                        *)
StagingCopied ==
  /\ stream # <<>>
  /\ slot' = [slot EXCEPT ![Head(stream).dst] = Source(Head(stream))]
  /\ stream' = Tail(stream) /\ copiesDone' = copiesDone + 1
  /\ UNCHANGED <<fillPc, call, stagingBytes, ev, due, fills>>

StagingInit ==
  /\ fillPc = "idle" /\ miss = <<>> /\ waveBase = 0 /\ waveNo = 0 /\ i = 1 /\ got = <<>>
  /\ stagingBytes = [b \in StagingBuffer |-> StagedNil] /\ ev = [p \in {0, 1} |-> 0]
  /\ stream = <<>> /\ copiesDone = 0
  /\ slot = [d \in Dst |-> StagedNil] /\ due = [d \in Dst |-> StagedNil] /\ fills = 0

Work ==
  \/ Resolve \/ Reuse \/ Read \/ NoBuffer \/ Copy \/ RecordWave \/ RecordFails
  \/ CopyMapped

StagingNext == (\E m \in Lists : Fill(m)) \/ Work \/ ReuseFails \/ StagingCopied

(* The host goes on inside a fill and the copy engine works off its        *)
(* stream; no error is counted on to end a wait.                           *)
StagingSpec == StagingInit /\ [][StagingNext]_stagingVars /\ WF_stagingVars(Work) /\ WF_stagingVars(StagingCopied)

-----------------------------------------------------------------------------
(* Every variable has its type.                                            *)
StagingTypeOK ==
  /\ fillPc \in {"idle", "resolve", "reuse", "read", "copy", "fallback"}
  /\ miss \in Seq([dst : Dst, expert : StagedExpert])
  /\ miss # <<>> => waveBase < Len(miss) /\ waveNo * WaveDepth = waveBase
  /\ waveBase \in Nat /\ waveNo \in Nat /\ i \in 1..WaveDepth + 1
  /\ \E n \in 0..WaveDepth : got \in [1..n -> BOOLEAN]
  /\ stagingBytes \in [StagingBuffer -> StagedExpert \cup {StagedNil}]
  /\ ev \in [{0, 1} -> 0..Issued]
  /\ stream \in Seq([dst : Dst, expert : StagedExpert, from : StagingBuffer \cup {Mapped}])
  /\ copiesDone \in Nat /\ fills \in 0..MaxFills
  /\ slot \in [Dst -> StagedExpert \cup {StagedNil}] /\ due \in [Dst -> StagedExpert \cup {StagedNil}]

(* A slot a successful fill has filled holds its expert once the copies    *)
(* issued so far are done: the last copy to it finds the expert's bytes    *)
(* whenever it runs, also behind a wave that was given up half way and     *)
(* whose event was never recorded.                                         *)
FilledWithItsExpert ==
  \A d \in Dst : due[d] # StagedNil =>
    LET last == {j \in DOMAIN stream :
                   /\ stream[j].dst = d
                   /\ \A l \in (j + 1)..Len(stream) : stream[l].dst # d}
    IN  IF last = {} THEN slot[d] = due[d]
        ELSE \A j \in last : stream[j].expert = due[d] /\ Source(stream[j]) = due[d]

(* A fill holds the host: its reuse wait must end, however many waves are  *)
(* behind.                                                                 *)
FillHolds == fillPc # "idle"
=============================================================================
