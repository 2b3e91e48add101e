----------------------------- MODULE Readahead -----------------------------
(***************************************************************************)
(* The cross-call readahead (SABAH_LLAMA_PREFETCH): the host thread offers *)
(* experts the following calls will ask for, a worker thread reads them    *)
(* into a few pinned buffers, and a later call of the host takes a buffer  *)
(* by copying it out on the copy stream, waiting for a read in flight.     *)
(*                                                                         *)
(* A buffer changes state under g_pf_mutex; its bytes are written by the   *)
(* worker and read by the copy engine with no lock at all.                 *)
(***************************************************************************)
EXTENDS Integers, Sequences, FiniteSets

CONSTANTS
  RaDepth,       \* SB_PF_DEPTH buffers
  RaExpert,      \* experts of the follower tensors: (source_key, expert, bytes)
  MaxOffers,   \* bound: buffers handed to the worker
  RaNil

ASSUME ReadaheadAssumption ==
  RaDepth \in Nat \ {0} /\ MaxOffers \in Nat /\ RaNil \notin RaExpert

RaBuffer == 1..RaDepth

VARIABLES
  state, key, seq, nseq,      \* sb_pf_slot.state, identity, seq; g_pf_seq
  freePending,                \* sb_pf_slot.free_pending
  bytes,                      \* what a buffer's staging holds
  queue,                      \* g_pf_queue: the slots of its jobs
  raStop,                       \* g_pf_stop
  raWpc, batch, jobAt, issued, ok, \* the worker, inside sb_pf_run_batch
  hpc, raWant, mine,            \* the host, inside sb_pf_take
  out                         \* copy-outs on the copy stream, in order

buffers == <<state, key, seq, nseq, freePending>>
worker  == <<raWpc, batch, jobAt, issued, ok>>
host    == <<hpc, raWant, mine>>
raVars    == <<buffers, bytes, queue, raStop, worker, host, out>>

SetOf(s) == {s[i] : i \in DOMAIN s}

IsFirst(b, S) == b \in S /\ \A c \in S : b <= c

(* Mutant of Roused: the worker sleeps through a notify.                   *)
RousedNever == raWpc

(* Whom a notify on g_pf_cv wakes.                                         *)
Roused == IF raWpc = "asleep" THEN "check" ELSE raWpc

-----------------------------------------------------------------------------
(* The host: sb_pf_start, the offers of a call, and sb_pf_take.            *)

(* call_once: a pool that quit is never started again.                     *)
Start ==
  /\ hpc = "off"
  /\ hpc' = "idle" /\ raWpc' = "check"
  /\ UNCHANGED <<buffers, bytes, queue, raStop, batch, jobAt, issued, ok, raWant, mine, out>>

(* Mutant of Staged: a read in flight is not seen.                         *)
StagedWhenReady(e) == \E b \in RaBuffer : state[b] = "ready" /\ key[b] = e

(* Already staged, or on its way.                                          *)
Staged(e) == \E b \in RaBuffer : state[b] \in {"ready", "filling"} /\ key[b] = e

Idle == {b \in RaBuffer : state[b] \in {"free", "fail"}}

(* Mutant of Unclaimed: a buffer whose read is in flight is reclaimed.     *)
UnclaimedOrFilling == {b \in RaBuffer : state[b] \in {"ready", "filling"}}

Unclaimed == {b \in RaBuffer : state[b] = "ready"}

(* The buffer an offer gets: an idle one, else the oldest unclaimed.       *)
IsOffered(b) ==
  IF Idle # {} THEN IsFirst(b, Idle)
  ELSE b \in Unclaimed /\ \A c \in Unclaimed : seq[b] <= seq[c]

(* sb_pf_offer, for an expert it does not drop.                            *)
Offer(e) ==
  /\ hpc = "idle" /\ nseq < MaxOffers /\ ~Staged(e)
  /\ \E b \in RaBuffer :
       /\ IsOffered(b)
       /\ state' = [state EXCEPT ![b] = "filling"] /\ key' = [key EXCEPT ![b] = e]
       /\ nseq' = nseq + 1 /\ seq' = [seq EXCEPT ![b] = nseq + 1]
       /\ queue' = Append(queue, b)
  /\ raWpc' = Roused
  /\ UNCHANGED <<freePending, bytes, raStop, batch, jobAt, issued, ok, host, out>>

(* A miss of the call: is it staged, or coming?                            *)
Take(e) ==
  /\ hpc = "idle"
  /\ hpc' = "take" /\ raWant' = e
  /\ UNCHANGED <<buffers, bytes, queue, raStop, worker, mine, out>>

(* The first buffer, in scan order, that says anything about want.         *)
Telling == {b \in RaBuffer : key[b] = raWant /\ state[b] \in {"fail", "ready", "filling"}}

(* One turn of sb_pf_take's loop, under the lock.                          *)
Look ==
  /\ hpc = "take"
  /\ \/ /\ Telling = {}
        /\ hpc' = "idle" /\ raWant' = RaNil /\ UNCHANGED <<state, freePending, mine>>
     \/ \E b \in RaBuffer :
        /\ IsFirst(b, Telling)
        /\ \/ /\ state[b] = "fail"
              /\ state' = [state EXCEPT ![b] = "free"]
              /\ hpc' = "idle" /\ raWant' = RaNil /\ UNCHANGED <<freePending, mine>>
           \/ /\ state[b] = "ready"
              /\ state' = [state EXCEPT ![b] = "taken"]
              /\ freePending' = [freePending EXCEPT ![b] = TRUE]
              /\ hpc' = "copy" /\ mine' = b /\ UNCHANGED raWant
           \/ /\ state[b] = "filling"
              /\ hpc' = "asleep" /\ UNCHANGED <<state, freePending, raWant, mine>>
  /\ UNCHANGED <<key, seq, nseq, bytes, queue, raStop, worker, out>>

(* wait_for gives up after SB_PF_WAIT_LIMIT_MS.                            *)
Timeout ==
  /\ hpc = "asleep"
  /\ hpc' = "idle" /\ raWant' = RaNil
  /\ UNCHANGED <<buffers, bytes, queue, raStop, worker, mine, out>>

(* Or returns for no reason.                                               *)
RaSpurious ==
  /\ \/ hpc = "asleep" /\ hpc' = "take" /\ UNCHANGED raWpc
     \/ raWpc = "asleep" /\ raWpc' = "check" /\ UNCHANGED hpc
  /\ UNCHANGED <<buffers, bytes, queue, raStop, batch, jobAt, issued, ok, raWant, mine, out>>

TakeDone == hpc' = "idle" /\ raWant' = RaNil /\ mine' = RaNil

(* The copy-out is issued, or refused: then the buffer is given up.        *)
CopyOut ==
  /\ hpc = "copy"
  /\ \/ /\ out' = Append(out, [buf |-> mine, expert |-> raWant, fenced |-> FALSE])
        /\ hpc' = "record" /\ UNCHANGED <<state, freePending, raWant, mine>>
     \/ /\ state' = [state EXCEPT ![mine] = "free"]
        /\ freePending' = [freePending EXCEPT ![mine] = FALSE]
        /\ TakeDone /\ UNCHANGED out
  /\ UNCHANGED <<key, seq, nseq, bytes, queue, raStop, worker>>

(* free_ev is recorded behind the copy-out.  An error here leaves the      *)
(* buffer taken.                                                           *)
Record ==
  /\ hpc = "record"
  /\ \/ /\ out' = [i \in DOMAIN out |->
                    IF out[i].buf = mine THEN [out[i] EXCEPT !.fenced = TRUE] ELSE out[i]]
        /\ hpc' = "release" /\ UNCHANGED <<raWant, mine>>
     \/ TakeDone /\ UNCHANGED out
  /\ UNCHANGED <<buffers, bytes, queue, raStop, worker>>

Release ==
  /\ hpc = "release"
  /\ state' = [state EXCEPT ![mine] = "free"]
  /\ TakeDone
  /\ UNCHANGED <<key, seq, nseq, freePending, bytes, queue, raStop, worker, out>>

(* sb_pf_quit, up to the join.                                             *)
Quit ==
  /\ hpc = "idle"
  /\ raStop' = TRUE /\ hpc' = "join"
  /\ raWpc' = Roused
  /\ UNCHANGED <<buffers, bytes, queue, batch, jobAt, issued, ok, raWant, mine, out>>

(* cudaFreeHost synchronises with the device before the buffers go.        *)
RaJoin ==
  /\ hpc = "join" /\ raWpc = "gone" /\ out = <<>>
  /\ state' = [b \in RaBuffer |-> "free"] /\ key' = [b \in RaBuffer |-> RaNil]
  /\ freePending' = [b \in RaBuffer |-> FALSE]
  /\ bytes' = [b \in RaBuffer |-> RaNil]
  /\ hpc' = "quit"
  /\ UNCHANGED <<seq, nseq, queue, raStop, worker, raWant, mine, out>>

-----------------------------------------------------------------------------
(* The worker.                                                             *)

(* The predicate of the wait, and the batch taken under the same lock; a   *)
(* stop is obeyed when the queue is empty.                                 *)
TakeBatch ==
  /\ raWpc = "check"
  /\ LET n == IF Len(queue) < RaDepth THEN Len(queue) ELSE RaDepth
     IN  \/ /\ n > 0
            /\ batch' = SubSeq(queue, 1, n) /\ queue' = SubSeq(queue, n + 1, Len(queue))
            /\ raWpc' = "issue" /\ jobAt' = 1 /\ issued' = {} /\ ok' = {}
         \/ /\ n = 0
            /\ raWpc' = IF raStop THEN "gone" ELSE "asleep"
            /\ UNCHANGED <<batch, queue, jobAt, issued, ok>>
  /\ UNCHANGED <<buffers, bytes, raStop, host, out>>

Job == batch[jobAt]

(* Mutant of CopiedOut: the buffer is reused while it is copied out.       *)
CopiedOutOrNot(b) == TRUE

(* What cudaEventSynchronize on the buffer's free_ev waits for.            *)
CopiedOut(b) == \A i \in DOMAIN out : ~(out[i].buf = b /\ out[i].fenced)

(* Prepare the buffer and issue the read, which starts to overwrite it.    *)
IssueRead ==
  /\ raWpc = "issue" /\ jobAt <= Len(batch)
  /\ freePending[Job] => CopiedOut(Job)
  /\ freePending' = [freePending EXCEPT ![Job] = FALSE]
  /\ bytes' = [bytes EXCEPT ![Job] = RaNil]
  /\ issued' = issued \cup {Job} /\ jobAt' = jobAt + 1
  /\ UNCHANGED <<state, key, seq, nseq, queue, raStop, raWpc, batch, ok, host, out>>

(* The source has no file.                                                 *)
ResolveFails ==
  /\ raWpc = "issue" /\ jobAt <= Len(batch)
  /\ jobAt' = jobAt + 1
  /\ UNCHANGED <<buffers, bytes, queue, raStop, raWpc, batch, issued, ok, host, out>>

(* The buffer cannot be made large enough, or the read is refused.         *)
IssueFails ==
  /\ raWpc = "issue" /\ jobAt <= Len(batch)
  /\ freePending[Job] => CopiedOut(Job)
  /\ freePending' = [freePending EXCEPT ![Job] = FALSE]
  /\ bytes' = [bytes EXCEPT ![Job] = RaNil]
  /\ jobAt' = jobAt + 1
  /\ UNCHANGED <<state, key, seq, nseq, queue, raStop, raWpc, batch, issued, ok, host, out>>

AllIssued ==
  /\ raWpc = "issue" /\ jobAt > Len(batch)
  /\ raWpc' = "await" /\ jobAt' = 1
  /\ UNCHANGED <<buffers, bytes, queue, raStop, batch, issued, ok, host, out>>

(* Mutant of Accepted: a short read passes for a whole one.                *)
AcceptedAlways(whole) == TRUE

(* got >= delta + bytes                                                    *)
Accepted(whole) == whole

AwaitRead ==
  /\ raWpc = "await" /\ jobAt <= Len(batch)
  /\ \/ /\ Job \in issued
        /\ \E whole \in BOOLEAN :
             /\ bytes' = IF whole THEN [bytes EXCEPT ![Job] = key[Job]] ELSE bytes
             /\ ok' = IF Accepted(whole) THEN ok \cup {Job} ELSE ok
     \/ Job \notin issued /\ UNCHANGED <<bytes, ok>>
  /\ jobAt' = jobAt + 1
  /\ UNCHANGED <<buffers, queue, raStop, raWpc, batch, issued, host, out>>

(* Mutant of Awoken: the demand path is left asleep.                       *)
AwokenNever == hpc

(* Whom notify_all on g_pf_done_cv wakes.                                  *)
Awoken == IF hpc = "asleep" THEN "take" ELSE hpc

(* Publish the whole batch under the lock.                                 *)
RaPublish ==
  /\ raWpc = "await" /\ jobAt > Len(batch)
  /\ state' = [b \in RaBuffer |-> IF b \notin SetOf(batch) THEN state[b]
                                ELSE IF b \in ok THEN "ready" ELSE "fail"]
  /\ raWpc' = "check" /\ batch' = <<>> /\ issued' = {} /\ ok' = {}
  /\ hpc' = Awoken
  /\ UNCHANGED <<key, seq, nseq, freePending, bytes, queue, raStop, jobAt, raWant, mine, out>>

(* The copy engine runs the copy stream in order.                          *)
RaCopied ==
  /\ out # <<>> /\ out' = Tail(out)
  /\ UNCHANGED <<buffers, bytes, queue, raStop, worker, host>>

RaInit ==
  /\ state = [b \in RaBuffer |-> "free"] /\ key = [b \in RaBuffer |-> RaNil]
  /\ seq = [b \in RaBuffer |-> 0] /\ nseq = 0
  /\ freePending = [b \in RaBuffer |-> FALSE] /\ bytes = [b \in RaBuffer |-> RaNil]
  /\ queue = <<>> /\ raStop = FALSE
  /\ raWpc = "none" /\ batch = <<>> /\ jobAt = 1 /\ issued = {} /\ ok = {}
  /\ hpc = "off" /\ raWant = RaNil /\ mine = RaNil /\ out = <<>>

HostStep == Look \/ CopyOut \/ Record \/ Release \/ RaJoin

WorkerStep ==
  \/ TakeBatch \/ IssueRead \/ IssueFails \/ AllIssued
  \/ AwaitRead \/ RaPublish

RaNext ==
  \/ Start \/ Quit \/ (\E e \in RaExpert : Offer(e) \/ Take(e))
  \/ HostStep \/ Timeout \/ RaSpurious \/ WorkerStep \/ ResolveFails \/ RaCopied

(* The threads and the device run.  The properties below rest on no        *)
(* timeout, and on no source without a file that would spare a wait.       *)
RaSpec ==
  /\ RaInit /\ [][RaNext]_raVars
  /\ WF_raVars(HostStep) /\ WF_raVars(WorkerStep) /\ WF_raVars(RaCopied)

-----------------------------------------------------------------------------
(* Every variable has its type.                                            *)
RaTypeOK ==
  /\ state \in [RaBuffer -> {"free", "filling", "ready", "taken", "fail"}]
  /\ key \in [RaBuffer -> RaExpert \cup {RaNil}] /\ bytes \in [RaBuffer -> RaExpert \cup {RaNil}]
  /\ seq \in [RaBuffer -> 0..MaxOffers] /\ nseq \in 0..MaxOffers
  /\ freePending \in [RaBuffer -> BOOLEAN] /\ raStop \in BOOLEAN
  /\ queue \in Seq(RaBuffer) /\ Len(queue) <= RaDepth
  /\ raWpc \in {"none", "check", "asleep", "issue", "await", "gone"}
  /\ batch \in Seq(RaBuffer) /\ jobAt \in 1..RaDepth + 1
  /\ issued \subseteq RaBuffer /\ ok \subseteq issued
  /\ hpc \in {"off", "idle", "take", "asleep", "copy", "record", "release", "join", "quit"}
  /\ raWant \in RaExpert \cup {RaNil} /\ mine \in RaBuffer \cup {RaNil}
  /\ out \in Seq([buf : RaBuffer, expert : RaExpert, fenced : BOOLEAN])

(* A copy-out finds in its buffer, whenever the device gets to it, the     *)
(* bytes of the expert it was issued for: the worker has not begun to read *)
(* another expert into the buffer.                                         *)
CopiesReadTheirExpert ==
  \A i \in DOMAIN out : bytes[out[i].buf] = out[i].expert

(* A buffer offered to the demand path holds the expert it names.          *)
ReadyIsRead == \A b \in RaBuffer : state[b] \in {"ready", "taken"} => bytes[b] = key[b]

(* A buffer is filling exactly while one job stands for it, in the queue   *)
(* or in the worker's batch: none is filled by two reads, and none is left *)
(* filling for good.                                                       *)
OneJobPerFilling ==
  LET jobs == batch \o queue
  IN  /\ \A i, j \in DOMAIN jobs : jobs[i] = jobs[j] => i = j
      /\ SetOf(jobs) = {b \in RaBuffer : state[b] = "filling"}

(* No expert is read into two buffers at a time.                           *)
OneBufferPerExpert ==
  \A b, c \in RaBuffer :
    /\ state[b] \in {"ready", "filling"} /\ state[c] \in {"ready", "filling"}
    /\ key[b] = key[c]
    => b = c

(* A demand call or a quit holds the host: the call is woken by the worker *)
(* that fills its buffer, without the help of the time limit, and the quit *)
(* joins the worker however much is queued.                                *)
TakeOrQuitHolds == hpc \notin {"off", "idle", "quit"}

(* A buffer holds one expert from the offer to the copy out, and is taken   *)
(* only when the read of it succeeded.                                      *)
BuffersAreOwned ==
  /\ CopiesReadTheirExpert
  /\ ReadyIsRead
  /\ OneJobPerFilling
  /\ OneBufferPerExpert
=============================================================================
