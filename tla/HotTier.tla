------------------------------ MODULE HotTier ------------------------------
(***************************************************************************)
(* The VRAM tier of the Python harness: one block's BlockPool, filled by   *)
(* HotTier.ensure for the experts a router chose and by HotTier.prefetch   *)
(* for those a predictor guessed.  The host only enqueues: copies run on   *)
(* the copy stream and kernels on the compute stream, each in order, and   *)
(* events carry the one order the two need.                                *)
(*                                                                         *)
(* ensure and prefetch hold the tier's lock; between an ensure and the     *)
(* mark_submitted that follows its kernel the lock is free.                *)
(***************************************************************************)
EXTENDS Integers, Sequences, FiniteSets, SequencesExt

CONSTANTS
  Expert,      \* experts of the block
  NSlots,      \* p.n_slots
  Reserve,     \* prefetch_slots
  Stages,      \* STAGING_SLOTS
  TopK,        \* most experts a step asks for (bank.n_experts_used)
  MaxKernels,  \* bound: kernels submitted
  MaxCopies,   \* bound: copies issued
  Nil

(* HotTier.__init__ clamps the reserve so that a step always fits.         *)
ASSUME HotTierAssumption ==
  /\ NSlots \in Nat /\ Reserve \in Nat /\ Stages \in Nat \ {0} /\ TopK \in Nat
  /\ IsFiniteSet(Expert) /\ Nil \notin Expert /\ Nil \notin Nat
  /\ TopK + Reserve <= NSlots

Slot  == 0..NSlots - 1
Stage == 0..Stages - 1

VARIABLES
  \* BlockPool: free_slots, slot_of, lru (its keys are slot_of's), state
  free, slotOf, lru, copying,
  \* p.inflight: the copy its event was recorded behind
  inflight,
  \* the block is readable from pinned RAM: copies read it in place
  direct,
  \* the staging ring: next buffer, whether its copy may be pending and the
  \* copy its event was recorded behind, and what it holds
  stageI, stageBusy, stageEv, stageHolds,
  \* self._read_ev: kernels submitted when it was recorded
  readEv,
  \* the call in progress: its steps, the misses left (their places in
  \* want), the copies to await
  pc, want, misses, awaits,
  \* the copy stream: copies [slot, expert, stage, after], and copies done
  copies, copied,
  \* the compute stream: kernels [reads, after], kernels done; the copies it
  \* has been told to wait for, and whether its first kernel has begun
  kernels, ran, waits, begun,
  \* what each slot holds
  holds

pool    == <<free, slotOf, lru, copying, inflight>>
ring    == <<stageI, stageBusy, stageEv, stageHolds>>
staging == <<direct, ring>>
step    == <<pc, want, misses, awaits>>
copyq   == <<copies, copied>>
compute == <<kernels, ran, waits, begun>>
vars    == <<pool, staging, readEv, step, copyq, compute, holds>>

IssuedCopies == copied + Len(copies)
Submitted == ran + Len(kernels)

(* The bound on copies never stops a call half way.                        *)
RoomForAStep == IssuedCopies + TopK <= MaxCopies

(* The compute stream is told to wait for the copies S as well.            *)
WaitFor(S) ==
  \E n \in S \cup {waits} : (\A m \in S \cup {waits} : m <= n) /\ waits' = n

Resident == {e \in Expert : slotOf[e] # Nil}

(* The n-th of the places I, and what is left of q, in its order, when the *)
(* elements in S are taken out.                                            *)
Place(I, n) == CHOOSE i \in I : Cardinality({j \in I : j <= i}) = n

Without(q, S) ==
  LET I == {i \in DOMAIN q : q[i] \notin S}
  IN  [n \in 1..Cardinality(I) |-> q[Place(I, n)]]

-----------------------------------------------------------------------------
(* sabah_memcpy_h2d is a synchronous copy: it returns when both streams    *)
(* have run dry and its own bytes have landed.                             *)
Preload(e) ==
  /\ pc = "idle" /\ free # <<>> /\ slotOf[e] = Nil
  /\ copies = <<>> /\ kernels = <<>>
  /\ free' = Tail(free) /\ slotOf' = [slotOf EXCEPT ![e] = Head(free)]
  /\ lru' = Append(lru, e)
  /\ holds' = [holds EXCEPT ![Head(free)] = e]
  /\ UNCHANGED <<copying, inflight, staging, readEv, step, copyq, compute>>

(* Mutant of AwaitedHit: a hit does not wait for its prefetch.             *)
AwaitedHitNever(W) == {}

(* The prefetched experts among W whose copy the compute stream is told    *)
(* to wait for.                                                            *)
AwaitedHit(W) == {e \in W : inflight[e] # Nil}

(* The lookups of _ensure_locked.                                          *)
Ensure(w) ==
  LET W    == ToSet(w)
      hits == Without(w, Expert \ Resident)
      hot  == AwaitedHit(W)
  IN  /\ pc = "idle" /\ Submitted < MaxKernels /\ RoomForAStep
      /\ WaitFor({inflight[e] : e \in hot})
      /\ inflight' = [e \in Expert |-> IF e \in W THEN Nil ELSE inflight[e]]
      /\ copying' = copying \ hot
      /\ lru' = Without(lru, W) \o hits
      /\ want' = w /\ misses' = {i \in DOMAIN w : slotOf[w[i]] = Nil}
      /\ awaits' = {} /\ pc' = "miss"
      /\ UNCHANGED <<free, slotOf, staging, readEv, copyq, kernels, ran, begun, holds>>

(* What a step needs is not evicted for it.                                *)
Protected == ToSet(want)

(* _evict's choice: the least recently used expert that may go.            *)
IsVictim(v) ==
  \E i \in DOMAIN lru : /\ lru[i] = v /\ v \notin Protected
                        /\ \A j \in 1..(i - 1) : lru[j] \in Protected

(* Mutant of ReadBy: a copy waits for the kernel yet to be submitted.      *)
ReadByNext == Submitted + 1

(* The kernels a copy into the block waits for (sabah_copy_wait_event).    *)
ReadBy == readEv

(* Mutant of StageFree: a staging buffer is overwritten at once.           *)
StageFreeAtOnce == TRUE

(* _acquire_stage: this buffer's own copy has landed.                      *)
StageFree == stageBusy[stageI] => stageEv[stageI] <= copied

(* _start_copy of expert e to slot s.                                      *)
StartCopy(e, s) ==
  /\ UNCHANGED direct
  /\ IF direct THEN UNCHANGED ring
     ELSE /\ StageFree
          /\ stageI' = (stageI + 1) % Stages
          /\ stageHolds' = [stageHolds EXCEPT ![stageI] = e]
          /\ stageBusy' = [stageBusy EXCEPT ![stageI] = TRUE]
          /\ stageEv' = [stageEv EXCEPT ![stageI] = IssuedCopies + 1]
  /\ copies' = Append(copies, [slot |-> s, expert |-> e, after |-> ReadBy,
                               stage |-> IF direct THEN Nil ELSE stageI])
  /\ UNCHANGED copied

(* The bank's read raises: no copy is issued.  (In a direct copy it may    *)
(* raise between two of the expert's three tensors; what was issued for    *)
(* the slot nobody reads any more.)                                        *)
CopyRaises ==
  /\ UNCHANGED direct
  /\ IF direct THEN UNCHANGED ring
     ELSE /\ StageFree
          /\ stageI' = (stageI + 1) % Stages
          /\ stageHolds' = [stageHolds EXCEPT ![stageI] = Nil]
          /\ stageBusy' = [stageBusy EXCEPT ![stageI] = FALSE]
          /\ UNCHANGED stageEv
  /\ UNCHANGED copyq

(* Mutant of Enter: the victim keeps its place in the table.               *)
EnterOnly(e, s, v) ==
  /\ slotOf' = [slotOf EXCEPT ![e] = s]
  /\ lru' = Append(Without(lru, {v}), e)
  /\ copying' = copying \cup {e}

(* e is entered at slot s, in the place of v if v is not Nil: all this is  *)
(* done before the copy starts.                                            *)
Enter(e, s, v) ==
  /\ slotOf' = [x \in Expert |-> IF x = e THEN s ELSE IF x = v THEN Nil ELSE slotOf[x]]
  /\ lru' = Append(Without(lru, {v}), e)
  /\ copying' = (copying \ {v}) \cup {e}

(* A missing expert gets a free slot, or a victim's.                       *)
Admit(e, s) ==
  \/ /\ free # <<>> /\ s = Head(free) /\ free' = Tail(free)
     /\ Enter(e, s, Nil) /\ UNCHANGED inflight
  \/ /\ free = <<>> /\ UNCHANGED free
     /\ \E v \in Resident :
          /\ IsVictim(v) /\ s = slotOf[v]
          /\ Enter(e, s, v) /\ inflight' = [inflight EXCEPT ![v] = Nil]

(* The misses are served in the order the router gave.                     *)
IsNext(i) == i \in misses /\ \A j \in misses : i <= j

Serve(i) ==
  /\ \E s \in Slot : Admit(want[i], s) /\ StartCopy(want[i], s)
  /\ awaits' = awaits \cup {[expert |-> want[i], no |-> IssuedCopies + 1]}
  /\ misses' = misses \ {i}

Miss ==
  /\ pc = "miss"
  /\ \E i \in DOMAIN want : IsNext(i) /\ Serve(i)
  /\ UNCHANGED <<readEv, pc, want, compute, holds>>

(* No caller catches the exception: the host is gone.                      *)
MissRaises ==
  /\ pc = "miss"
  /\ \E i \in DOMAIN want, s \in Slot : IsNext(i) /\ Admit(want[i], s)
  /\ CopyRaises
  /\ pc' = "raised" /\ UNCHANGED <<want, misses, awaits>>
  /\ UNCHANGED <<readEv, compute, holds>>

SoftCap ==
  LET spare == NSlots - Cardinality(Protected)
  IN  NSlots - (IF Reserve < spare THEN Reserve ELSE spare)

(* One turn of the loop that keeps the reserve free.  _evict's slot is not *)
(* put back on free_slots.                                                 *)
Shed(v) ==
  /\ slotOf' = [slotOf EXCEPT ![v] = Nil]
  /\ lru' = Without(lru, {v})
  /\ inflight' = [inflight EXCEPT ![v] = Nil] /\ copying' = copying \ {v}
  /\ UNCHANGED free

ShedOne ==
  /\ pc = "miss" /\ misses = {} /\ Cardinality(Resident) > SoftCap
  /\ \E v \in Resident : IsVictim(v) /\ Shed(v)
  /\ UNCHANGED <<staging, readEv, step, copyq, compute, holds>>

AwaitedMisses == {a.no : a \in awaits}

(* The compute stream waits for the step's own copies, and ensure returns. *)
EnsureReturns ==
  /\ pc = "miss" /\ misses = {}
  /\ Cardinality(Resident) > SoftCap => \A v \in Resident : ~IsVictim(v)
  /\ WaitFor(AwaitedMisses)
  /\ copying' = copying \ {a.expert : a \in awaits}
  /\ pc' = "submit" /\ awaits' = {}
  /\ UNCHANGED <<free, slotOf, lru, inflight, staging, readEv, want, misses,
                 copyq, kernels, ran, begun, holds>>

(* MoEExecutor.run_block submits the kernel over the slots ensure returned *)
Submit ==
  /\ pc = "submit"
  /\ kernels' = Append(kernels, [reads |-> {<<slotOf[e], e>> : e \in ToSet(want)},
                                 after |-> waits])
  /\ pc' = "mark"
  /\ UNCHANGED <<pool, staging, readEv, want, misses, awaits, copyq, ran, waits,
                 begun, holds>>

(* and then records the block's read event (mark_submitted).               *)
MarkSubmitted ==
  /\ pc = "mark"
  /\ readEv' = Submitted
  /\ pc' = "idle" /\ want' = <<>>
  /\ UNCHANGED <<pool, staging, misses, awaits, copyq, compute, holds>>

(* One expert of a prefetch; it uses free slots only.                      *)
Prefetch(e) ==
  /\ pc \in {"idle", "submit", "mark"} /\ Reserve > 0
  /\ \/ /\ slotOf[e] # Nil /\ inflight[e] = Nil
        /\ lru' = Append(Without(lru, {e}), e)
        /\ UNCHANGED <<free, slotOf, copying, inflight, staging, copyq, pc>>
     \/ /\ slotOf[e] = Nil /\ free # <<>>
        /\ free' = Tail(free) /\ Enter(e, Head(free), Nil)
        /\ \/ /\ RoomForAStep /\ StartCopy(e, Head(free))
              /\ inflight' = [inflight EXCEPT ![e] = IssuedCopies + 1]
              /\ UNCHANGED pc
           \/ CopyRaises /\ pc' = "raised" /\ UNCHANGED inflight
  /\ UNCHANGED <<readEv, want, misses, awaits, compute, holds>>

(* The bank's warm tier takes the block in.                                *)
LoadWarm ==
  /\ pc = "idle" /\ ~direct /\ direct' = TRUE
  /\ UNCHANGED <<pool, ring, readEv, step, copyq, compute, holds>>

-----------------------------------------------------------------------------
(* The device.                                                             *)

Copied ==
  /\ copies # <<>>
  /\ LET c == Head(copies) IN
       /\ c.after <= ran
       /\ holds' = [holds EXCEPT ![c.slot] =
                      IF c.stage = Nil THEN c.expert ELSE stageHolds[c.stage]]
  /\ copies' = Tail(copies) /\ copied' = copied + 1
  /\ UNCHANGED <<pool, staging, readEv, step, compute>>

KernelBegins ==
  /\ kernels # <<>> /\ ~begun /\ Head(kernels).after <= copied
  /\ begun' = TRUE
  /\ UNCHANGED <<pool, staging, readEv, step, copyq, kernels, ran, waits, holds>>

KernelEnds ==
  /\ begun /\ begun' = FALSE
  /\ kernels' = Tail(kernels) /\ ran' = ran + 1
  /\ UNCHANGED <<pool, staging, readEv, step, copyq, waits, holds>>

-----------------------------------------------------------------------------
Init ==
  /\ free = [i \in 1..NSlots |-> i - 1] /\ slotOf = [e \in Expert |-> Nil]
  /\ lru = <<>> /\ copying = {} /\ inflight = [e \in Expert |-> Nil]
  /\ direct \in BOOLEAN /\ stageI = 0 /\ stageBusy = [i \in Stage |-> FALSE]
  /\ stageEv = [i \in Stage |-> 0] /\ stageHolds = [i \in Stage |-> Nil]
  /\ readEv = 0 /\ pc = "idle" /\ want = <<>> /\ misses = {} /\ awaits = {}
  /\ copies = <<>> /\ copied = 0
  /\ kernels = <<>> /\ ran = 0 /\ waits = 0 /\ begun = FALSE
  /\ holds = [s \in Slot |-> Nil]

(* What a router asks for: distinct experts, in any order.                 *)
Wants ==
  {w \in UNION {[1..n -> Expert] : n \in 1..TopK} : IsInjective(w)}

Host == Miss \/ MissRaises \/ ShedOne \/ EnsureReturns \/ Submit \/ MarkSubmitted

Device == Copied \/ KernelBegins \/ KernelEnds

Next ==
  \/ (\E w \in Wants : Ensure(w)) \/ Host
  \/ (\E e \in Expert : Preload(e) \/ Prefetch(e)) \/ LoadWarm
  \/ Device

(* The host goes on inside a call; the device works off its streams.       *)
Spec == Init /\ [][Next]_vars /\ WF_vars(Host) /\ WF_vars(Device)

-----------------------------------------------------------------------------
(* Every variable has its type.                                            *)
TypeOK ==
  /\ free \in Seq(Slot) /\ slotOf \in [Expert -> Slot \cup {Nil}]
  /\ lru \in Seq(Expert) /\ ToSet(lru) = Resident /\ Len(lru) = Cardinality(Resident)
  /\ copying \subseteq Resident
  /\ \A e \in Expert : inflight[e] # Nil => inflight[e] \in 1..IssuedCopies
  /\ direct \in BOOLEAN /\ stageI \in Stage /\ stageBusy \in [Stage -> BOOLEAN]
  /\ stageEv \in [Stage -> 0..IssuedCopies] /\ stageHolds \in [Stage -> Expert \cup {Nil}]
  /\ readEv \in 0..Submitted /\ waits \in 0..IssuedCopies
  /\ pc \in {"idle", "miss", "submit", "mark", "raised"}
  /\ want \in Seq(Expert) /\ misses \subseteq DOMAIN want
  /\ awaits \subseteq [expert : Expert, no : 1..IssuedCopies]
  /\ copies \in Seq([slot : Slot, expert : Expert, after : 0..Submitted,
                     stage : Stage \cup {Nil}])
  /\ kernels \in Seq([reads : SUBSET (Slot \X Expert), after : 0..IssuedCopies])
  /\ copied \in Nat /\ ran \in Nat /\ begun \in BOOLEAN
  /\ holds \in [Slot -> Expert \cup {Nil}]

(* From its first to its last instruction a kernel finds in its slots the  *)
(* experts the router chose: each copy has landed, and no copy of a later  *)
(* step or of a prefetch has begun to overwrite a slot.                    *)
KernelReadsItsExperts ==
  begun => \A r \in Head(kernels).reads : holds[r[1]] = r[2]

(* The bytes slot s will hold when the copies issued so far are done.      *)
Coming(s) ==
  LET to == {i \in DOMAIN copies : copies[i].slot = s}
      c  == copies[CHOOSE i \in to : \A j \in to : j <= i]
  IN  IF to = {} THEN holds[s]
      ELSE IF c.stage = Nil THEN c.expert ELSE stageHolds[c.stage]

(* An expert the table has in a slot is in it or on its way: a pending     *)
(* copy still finds its expert in the staging buffer.                      *)
ResidentIsComing ==
  pc # "raised" => \A e \in Resident : Coming(slotOf[e]) = e

(* A slot has one expert, and a free slot none.                            *)
OneExpertPerSlot ==
  /\ \A e, f \in Resident : slotOf[e] = slotOf[f] => e = f
  /\ \A e \in Resident : slotOf[e] \notin ToSet(free)

(* A call comes back: neither _evict's "every slot is protected" nor a     *)
(* wait for a staging buffer stops it.                                     *)
CallReturns == pc # "idle" ~> pc \in {"idle", "raised"}

(* When ensure returns, the reserve is free ("Keep the prefetch reserve    *)
(* free: shed the oldest non-protected entries so the next prefetch has    *)
(* somewhere to land").                                                    *)
ReserveIsFree == [][EnsureReturns => Len(free) >= NSlots - SoftCap]_vars
=============================================================================
