--------------------------- MODULE HotTierProofs ---------------------------
(***************************************************************************)
(* Proofs about HotTier, for every number of experts, slots and staging    *)
(* buffers.                                                                *)
(***************************************************************************)
EXTENDS HotTier, FiniteSetTheorems, WellFoundedInduction, TLAPS

(* The free list holds slots, each of them once, and no resident expert's. *)
FreeInv ==
  /\ free \in Seq(Slot)
  /\ \A i, j \in DOMAIN free : free[i] = free[j] => i = j

SlotsInv ==
  /\ slotOf \in [Expert -> Slot \cup {Nil}]
  /\ FreeInv /\ OneExpertPerSlot

(* Taking the first free slot removes it, and it alone, from the list.     *)
LEMMA TakeFree ==
  ASSUME FreeInv, free # <<>>
  PROVE  /\ Tail(free) \in Seq(Slot) /\ Head(free) \in Slot
         /\ Head(free) \in ToSet(free) /\ Head(free) \notin ToSet(Tail(free))
         /\ ToSet(Tail(free)) \subseteq ToSet(free)
         /\ \A i, j \in DOMAIN Tail(free) : Tail(free)[i] = Tail(free)[j] => i = j
<1>1. Len(free) \in Nat \ {0} /\ DOMAIN free = 1..Len(free)
  BY DEF FreeInv
<1>2. /\ Tail(free) \in Seq(Slot) /\ Head(free) = free[1] /\ free[1] \in Slot
      /\ DOMAIN Tail(free) = 1..Len(free) - 1
      /\ \A i \in 1..Len(free) - 1 : Tail(free)[i] = free[i + 1]
  BY <1>1 DEF FreeInv
<1>3. \A i \in 1..Len(free) - 1 : i + 1 \in DOMAIN free /\ i + 1 # 1
  BY <1>1
<1>4. Head(free) \in ToSet(free)
  BY <1>1, <1>2 DEF ToSet
<1>5. Head(free) \notin ToSet(Tail(free))
  BY <1>1, <1>2, <1>3 DEF ToSet, FreeInv
<1>6. ToSet(Tail(free)) \subseteq ToSet(free)
  BY <1>2, <1>3 DEF ToSet
<1>7. \A i, j \in DOMAIN Tail(free) : Tail(free)[i] = Tail(free)[j] => i = j
  BY <1>1, <1>2, <1>3 DEF FreeInv
<1>8. QED
  BY <1>2, <1>4, <1>5, <1>6, <1>7

(* An expert entered at a free slot takes it off the list.                 *)
LEMMA EnterFree ==
  ASSUME SlotsInv, free # <<>>, NEW e,
         free' = Tail(free), Enter(e, Head(free), Nil)
  PROVE  SlotsInv'
<1>1. Nil \notin Expert
  BY HotTierAssumption
<1>2. slotOf' = [x \in Expert |-> IF x = e THEN Head(free) ELSE slotOf[x]]
  BY <1>1 DEF Enter
<1>3. /\ Head(free) \in Slot /\ Head(free) \in ToSet(free)
      /\ Head(free) \notin ToSet(free') /\ ToSet(free') \subseteq ToSet(free)
      /\ FreeInv'
  BY TakeFree DEF SlotsInv, FreeInv
<1>4. slotOf' \in [Expert -> Slot \cup {Nil}]
  BY <1>2, <1>3 DEF SlotsInv
<1>5. \A x \in Resident' : x # e => x \in Resident /\ slotOf'[x] = slotOf[x]
  BY <1>2 DEF Resident
<1>6. \A x \in Resident : slotOf[x] # Head(free)
  BY <1>3 DEF SlotsInv, OneExpertPerSlot
<1>7. \A x \in Resident' : x = e => slotOf'[x] = Head(free)
  BY <1>2 DEF Resident
<1>8. OneExpertPerSlot'
  BY <1>3, <1>5, <1>6, <1>7 DEF SlotsInv, OneExpertPerSlot
<1>9. QED
  BY <1>3, <1>4, <1>8 DEF SlotsInv

(* An expert entered at a victim's slot is alone there.                    *)
LEMMA EnterVictim ==
  ASSUME SlotsInv, NEW e, NEW v \in Resident,
         free' = free, Enter(e, slotOf[v], v)
  PROVE  SlotsInv'
<1>1. slotOf' = [x \in Expert |-> IF x = e THEN slotOf[v]
                                  ELSE IF x = v THEN Nil ELSE slotOf[x]]
  BY DEF Enter
<1>2. slotOf' \in [Expert -> Slot \cup {Nil}] /\ FreeInv'
  BY <1>1 DEF SlotsInv, FreeInv, Resident
<1>3. \A x \in Resident' : x # e => x \in Resident /\ x # v /\ slotOf'[x] = slotOf[x]
  BY <1>1 DEF Resident
<1>4. \A x \in Resident' : x = e => slotOf'[x] = slotOf[v]
  BY <1>1 DEF Resident
<1>5. OneExpertPerSlot'
  BY <1>3, <1>4 DEF SlotsInv, OneExpertPerSlot
<1>6. QED
  BY <1>2, <1>5 DEF SlotsInv

(* Whatever Admit chooses.                                                 *)
LEMMA AdmitSlots ==
  ASSUME SlotsInv, NEW e, NEW s \in Slot, Admit(e, s)
  PROVE  SlotsInv'
<1>1. CASE /\ free # <<>> /\ s = Head(free) /\ free' = Tail(free)
           /\ Enter(e, s, Nil)
  BY <1>1, EnterFree
<1>2. CASE /\ free = <<>> /\ UNCHANGED free
           /\ \E v \in Resident : s = slotOf[v] /\ Enter(e, s, v)
  BY <1>2, EnterVictim
<1>3. QED
  BY <1>1, <1>2 DEF Admit

(* A step that leaves the table and the free list alone.                   *)
LEMMA SlotsSame ==
  ASSUME SlotsInv, UNCHANGED <<free, slotOf>>
  PROVE  SlotsInv'
BY DEF SlotsInv, FreeInv, OneExpertPerSlot, Resident

(* At first every slot is free.                                            *)
LEMMA SlotsInit == Init => SlotsInv
<1> SUFFICES ASSUME Init PROVE SlotsInv
  OBVIOUS
<1>1. NSlots \in Nat
  BY HotTierAssumption
<1>2. free = [i \in 1..NSlots |-> i - 1] /\ slotOf = [e \in Expert |-> Nil]
  BY DEF Init
<1>3. FreeInv
  BY <1>1, <1>2 DEF FreeInv, Slot
<1>4. Resident = {}
  BY <1>2 DEF Resident
<1>5. QED
  BY <1>2, <1>3, <1>4 DEF SlotsInv, OneExpertPerSlot

(* Every step keeps the slots apart.                                       *)
LEMMA SlotsStep == SlotsInv /\ [Next]_vars => SlotsInv'
<1> SUFFICES ASSUME SlotsInv, [Next]_vars PROVE SlotsInv'
  OBVIOUS
<1>1. ASSUME NEW w \in Wants, Ensure(w)
      PROVE  SlotsInv'
  BY <1>1, SlotsSame DEF Ensure
<1>2. CASE Miss
  BY <1>2, AdmitSlots DEF Miss, Serve
<1>3. CASE MissRaises
  BY <1>3, AdmitSlots DEF MissRaises
<1>4. CASE ShedOne
  <2>1. PICK v \in Resident : Shed(v)
    BY <1>4 DEF ShedOne
  <2>2. slotOf' = [slotOf EXCEPT ![v] = Nil] /\ free' = free
    BY <2>1 DEF Shed
  <2>3. slotOf' \in [Expert -> Slot \cup {Nil}] /\ FreeInv'
    BY <2>2 DEF SlotsInv, FreeInv
  <2>4. \A x \in Resident' : x \in Resident /\ slotOf'[x] = slotOf[x]
    BY <2>2 DEF Resident, SlotsInv
  <2>5. OneExpertPerSlot'
    BY <2>2, <2>4 DEF SlotsInv, OneExpertPerSlot
  <2>6. QED
    BY <2>3, <2>5 DEF SlotsInv
<1>5. CASE EnsureReturns
  BY <1>5, SlotsSame DEF EnsureReturns
<1>6. CASE Submit
  BY <1>6, SlotsSame DEF Submit, pool
<1>7. CASE MarkSubmitted
  BY <1>7, SlotsSame DEF MarkSubmitted, pool
<1>8. ASSUME NEW e \in Expert, Preload(e)
      PROVE  SlotsInv'
  <2>1. free # <<>> /\ free' = Tail(free)
    BY <1>8 DEF Preload
  <2>2. slotOf' = [slotOf EXCEPT ![e] = Head(free)]
    BY <1>8 DEF Preload
  <2>3. /\ Head(free) \in Slot /\ Head(free) \in ToSet(free)
        /\ Head(free) \notin ToSet(free') /\ ToSet(free') \subseteq ToSet(free)
        /\ FreeInv'
    BY <2>1, TakeFree DEF SlotsInv, FreeInv
  <2>4. slotOf' \in [Expert -> Slot \cup {Nil}] /\ slotOf'[e] = Head(free)
    BY <2>2, <2>3 DEF SlotsInv
  <2>5. \A x \in Resident' : x # e => x \in Resident /\ slotOf'[x] = slotOf[x]
    BY <2>2 DEF Resident, SlotsInv
  <2>6. \A x \in Resident : slotOf[x] # Head(free)
    BY <2>3 DEF SlotsInv, OneExpertPerSlot
  <2>7. OneExpertPerSlot'
    BY <2>3, <2>4, <2>5, <2>6 DEF SlotsInv, OneExpertPerSlot
  <2>8. QED
    BY <2>3, <2>4, <2>7 DEF SlotsInv
<1>9. ASSUME NEW e \in Expert, Prefetch(e)
      PROVE  SlotsInv'
  <2>1. CASE UNCHANGED <<free, slotOf>>
    BY <2>1, SlotsSame
  <2>2. CASE free # <<>> /\ free' = Tail(free) /\ Enter(e, Head(free), Nil)
    BY <2>2, EnterFree
  <2>3. QED
    BY <1>9, <2>1, <2>2 DEF Prefetch
<1>10. CASE LoadWarm
  BY <1>10, SlotsSame DEF LoadWarm, pool
<1>11. CASE Device
  BY <1>11, SlotsSame DEF Device, Copied, KernelBegins, KernelEnds, pool
<1>12. CASE UNCHANGED vars
  BY <1>12, SlotsSame DEF vars, pool
<1>13. QED
  BY <1>1, <1>2, <1>3, <1>4, <1>5, <1>6, <1>7, <1>8, <1>9, <1>10, <1>11, <1>12
  DEF Next, Host

(* No slot of a block's pool is given to two experts, and none is free     *)
(* while an expert is in it, whatever mixture of preloads, steps,          *)
(* prefetches and failures came before.                                    *)
THEOREM SlotsAreNotShared == Spec => []OneExpertPerSlot
<1>1. SlotsInv => OneExpertPerSlot
  BY DEF SlotsInv
<1>2. QED
  BY <1>1, SlotsInit, SlotsStep, PTL DEF Spec
-----------------------------------------------------------------------------
(* What a kernel reads: an argument about the order of the two streams.    *)

Copy   == [slot : Slot, expert : Expert, after : Nat, stage : Stage \cup {Nil}]
Kernel == [reads : SUBSET (Slot \X Expert), after : Nat]

(* The types of what the argument is about: lru and copying are not.       *)
HotType ==
  /\ pc \in {"idle", "miss", "submit", "mark", "raised"}
  /\ copies \in Seq(Copy) /\ copied \in Nat
  /\ kernels \in Seq(Kernel) /\ ran \in Nat /\ waits \in Nat
  /\ begun \in BOOLEAN /\ readEv \in Nat
  /\ inflight \in [Expert -> Nat \cup {Nil}]
  /\ stageI \in Stage /\ stageBusy \in [Stage -> BOOLEAN]
  /\ stageEv \in [Stage -> Nat] /\ stageHolds \in [Stage -> Expert \cup {Nil}]
  /\ want \in Seq(Expert) /\ misses \subseteq DOMAIN want
  /\ awaits \subseteq [expert : Expert, no : Nat]
  /\ holds \in [Slot -> Expert \cup {Nil}]

(* The pending copies, by their place in the queue: those into slot s, and *)
(* those that come before the k-th pending kernel.                         *)
To(i, s)       == i \in 1..Len(copies) /\ copies[i].slot = s
Early(i, s, k) == To(i, s) /\ copies[i].after < ran + k

IsLastTo(i, s) == To(i, s) /\ \A j \in 1..Len(copies) : To(j, s) => j <= i
IsLastEarly(i, s, k) ==
  Early(i, s, k) /\ \A j \in 1..Len(copies) : Early(j, s, k) => j <= i

(* Between a kernel's mark and the next kernel a copy is ordered after     *)
(* everything submitted; a kernel begins behind the copies it waits for.   *)
OrderInv ==
  /\ readEv <= Submitted
  /\ pc \in {"idle", "miss", "submit"} => readEv = Submitted
  /\ \A i \in 1..Len(copies) : copies[i].after <= readEv
  /\ begun => kernels # <<>> /\ kernels[1].after <= copied

(* A staging buffer holds its expert for as long as a copy is to read it.  *)
StageInv ==
  \A i \in 1..Len(copies) :
    LET c == copies[i]
    IN  c.stage # Nil => /\ stageHolds[c.stage] = c.expert
                         /\ stageBusy[c.stage] /\ copied + i <= stageEv[c.stage]

(* No pending kernel reads a free slot: a prefetch does not disturb it.    *)
FreeUnread ==
  \A k \in 1..Len(kernels) : \A r \in kernels[k].reads : r[1] \notin ToSet(free)

(* A slot with a pending copy has a last one.                              *)
LastInv ==
  \A i \in 1..Len(copies) : \E l \in 1..Len(copies) : IsLastTo(l, copies[i].slot)

(* A resident expert is in its slot, or the last copy to it brings it.     *)
BroughtInv ==
  pc # "raised" =>
    \A e \in Resident :
      /\ \A i \in 1..Len(copies) : IsLastTo(i, slotOf[e]) => copies[i].expert = e
      /\ (\A i \in 1..Len(copies) : ~To(i, slotOf[e])) => holds[slotOf[e]] = e

(* The n-th copy is one the compute stream waits for, or will before it    *)
(* reads e.                                                                *)
Awaited(e, n) ==
  \/ inflight[e] # Nil /\ n <= inflight[e]
  \/ n <= waits
  \/ \E a \in awaits : a.expert = e /\ n <= a.no

AwaitInv ==
  pc # "raised" =>
    \A e \in Resident : \A i \in 1..Len(copies) :
      To(i, slotOf[e]) => Awaited(e, copied + i)

(* The experts of the step in progress.                                    *)
WantInv ==
  /\ pc \in {"miss", "submit"} => \A i \in DOMAIN want : inflight[want[i]] = Nil
  /\ pc = "miss" => \A i \in DOMAIN want : i \in misses \/ want[i] \in Resident
  /\ pc = "submit" => \A i \in DOMAIN want : want[i] \in Resident
  /\ pc \in {"idle", "submit", "mark"} => awaits = {} /\ misses = {}

(* A pending kernel waits for every copy that comes before it into a slot  *)
(* it reads, and the last of them brings the expert it reads there.        *)
KernelInv ==
  \A k \in 1..Len(kernels) : \A r \in kernels[k].reads :
    /\ \A i \in 1..Len(copies) :
         Early(i, r[1], k) => copied + i <= kernels[k].after
    /\ \A i \in 1..Len(copies) :
         IsLastEarly(i, r[1], k) => copies[i].expert = r[2]
    /\ (\A i \in 1..Len(copies) : ~Early(i, r[1], k)) => holds[r[1]] = r[2]

HotInv ==
  /\ HotType /\ SlotsInv /\ OrderInv /\ StageInv /\ FreeUnread /\ LastInv
  /\ BroughtInv /\ AwaitInv /\ WantInv /\ KernelInv

(* A copy issued is the last of the queue.                                 *)
LEMMA CopyIssued ==
  ASSUME HotType, NEW c \in Copy, copies' = Append(copies, c),
         NEW n, n = Len(copies)
  PROVE  /\ copies' \in Seq(Copy) /\ n \in Nat /\ Len(copies') = n + 1
         /\ \A i \in 1..n : copies'[i] = copies[i] /\ copies[i] \in Copy
         /\ copies'[n + 1] = c
         /\ \A i \in 1..n, s \in Slot : To(i, s)' <=> To(i, s)
         /\ \A s \in Slot : To(n + 1, s)' <=> s = c.slot
         /\ \A i \in 1..Len(copies') : i \in 1..n \/ i = n + 1
<1>1. copies \in Seq(Copy) /\ Len(copies) \in Nat
  BY DEF HotType
<1>2. /\ copies' \in Seq(Copy) /\ Len(copies') = Len(copies) + 1
      /\ \A i \in 1..Len(copies) : copies'[i] = copies[i]
      /\ copies'[Len(copies) + 1] = c
  BY <1>1
<1>3. QED
  BY <1>1, <1>2 DEF To

(* The first copy leaves the queue when it is done.                        *)
LEMMA CopyDone ==
  ASSUME HotType, copies # <<>>, copies' = Tail(copies),
         NEW n, n = Len(copies)
  PROVE  /\ copies' \in Seq(Copy) /\ n \in Nat \ {0} /\ Len(copies') = n - 1
         /\ \A i \in 1..n : copies[i] \in Copy
         /\ \A i \in 1..n - 1 : i + 1 \in 1..n /\ copies'[i] = copies[i + 1]
         /\ Head(copies) = copies[1] /\ 1 \in 1..n
         /\ \A i \in 1..n : i = 1 \/ (i - 1 \in 1..n - 1 /\ (i - 1) + 1 = i)
         /\ \A i \in 1..n - 1, s \in Slot : To(i, s)' <=> To(i + 1, s)
<1>1. copies \in Seq(Copy) /\ Len(copies) \in Nat
  BY DEF HotType
<1>2. /\ copies' \in Seq(Copy) /\ Len(copies) # 0 /\ Len(copies') = Len(copies) - 1
      /\ \A i \in 1..Len(copies) - 1 : copies'[i] = copies[i + 1]
      /\ Head(copies) = copies[1]
  BY <1>1
<1>3. QED
  BY <1>1, <1>2 DEF To

(* Each kind of step keeps the queue's last copies.                        *)
LEMMA LastIssued ==
  ASSUME HotType, LastInv, NEW c \in Copy, copies' = Append(copies, c),
         NEW n, n = Len(copies), NEW t \in Slot, t = c.slot
  PROVE  /\ LastInv' /\ IsLastTo(n + 1, t)'
         /\ \A s \in Slot, i \in 1..n : s # t => (IsLastTo(i, s)' <=> IsLastTo(i, s))
         /\ \A i \in 1..n : ~IsLastTo(i, t)'
<1>1. /\ n \in Nat /\ Len(copies') = n + 1
      /\ \A i \in 1..n : copies'[i] = copies[i] /\ copies[i].slot \in Slot
      /\ copies'[n + 1] = c
      /\ \A i \in 1..n, s \in Slot : To(i, s)' <=> To(i, s)
      /\ \A s \in Slot : To(n + 1, s)' <=> s = t
      /\ \A i \in 1..Len(copies') : i \in 1..n \/ i = n + 1
  BY CopyIssued DEF Copy
<1>2. IsLastTo(n + 1, t)'
  BY <1>1 DEF IsLastTo
<1>3. \A s \in Slot, i \in 1..n : s # t => (IsLastTo(i, s)' <=> IsLastTo(i, s))
  BY <1>1 DEF IsLastTo
<1>4. ASSUME NEW i \in 1..n, NEW s, s = copies[i].slot
      PROVE  \E l \in 1..Len(copies') : IsLastTo(l, s)'
  <2>1. CASE s = t
    BY <1>1, <1>2, <2>1
  <2>2. CASE s # t
    <3>1. PICK l \in 1..n : IsLastTo(l, s)
      BY <1>4 DEF LastInv
    <3>2. s \in Slot
      BY <1>1, <1>4
    <3>3. IsLastTo(l, s)'
      BY <1>3, <2>2, <3>1, <3>2
    <3>4. QED
      BY <1>1, <3>3
  <2>3. QED
    BY <2>1, <2>2
<1>5. ASSUME NEW i \in 1..Len(copies'), NEW s, s = copies'[i].slot
      PROVE  \E l \in 1..Len(copies') : IsLastTo(l, s)'
  BY <1>1, <1>2, <1>4, <1>5
<1>6. LastInv'
  BY <1>5 DEF LastInv
<1>7. \A i \in 1..n : ~IsLastTo(i, t)'
  BY <1>1 DEF IsLastTo
<1>8. QED
  BY <1>2, <1>3, <1>6, <1>7

LEMMA LastDone ==
  ASSUME HotType, LastInv, copies # <<>>, copies' = Tail(copies),
         NEW n, n = Len(copies)
  PROVE  /\ LastInv'
         /\ \A i \in 1..n - 1, s \in Slot : IsLastTo(i, s)' => IsLastTo(i + 1, s)
<1>1. /\ n \in Nat \ {0} /\ Len(copies') = n - 1
      /\ \A i \in 1..n : copies[i].slot \in Slot
      /\ \A i \in 1..n - 1 : i + 1 \in 1..n /\ copies'[i] = copies[i + 1]
      /\ \A i \in 1..n : i = 1 \/ (i - 1 \in 1..n - 1 /\ (i - 1) + 1 = i)
      /\ \A i \in 1..n - 1, s \in Slot : To(i, s)' <=> To(i + 1, s)
  BY CopyDone DEF Copy
<1>2. ASSUME NEW i \in 1..n - 1, NEW s \in Slot, IsLastTo(i, s)'
      PROVE  IsLastTo(i + 1, s)
  <2>1. To(i + 1, s)
    BY <1>1, <1>2 DEF IsLastTo
  <2>2. ASSUME NEW j \in 1..n, To(j, s)
        PROVE  j <= i + 1
    <3>1. CASE j = 1
      BY <3>1, <1>1
    <3>2. CASE j - 1 \in 1..n - 1 /\ (j - 1) + 1 = j
      <4>1. To(j - 1, s)'
        BY <1>1, <2>2, <3>2
      <4>2. j - 1 <= i
        BY <1>1, <1>2, <3>2, <4>1 DEF IsLastTo
      <4>3. QED
        BY <4>2, <1>1
    <3>3. QED
      BY <3>1, <3>2, <1>1
  <2>3. QED
    BY <2>1, <2>2 DEF IsLastTo
<1>3. ASSUME NEW i \in 1..n - 1, NEW s, s = copies[i + 1].slot
      PROVE  \E l \in 1..n - 1 : IsLastTo(l, s)'
  <2>1. s \in Slot /\ To(i + 1, s) /\ i + 1 \in 1..n
    BY <1>1, <1>3 DEF To
  <2>2. PICK l \in 1..n : IsLastTo(l, s)
    BY <1>3, <2>1 DEF LastInv
  <2>3. i + 1 <= l
    BY <2>1, <2>2 DEF IsLastTo
  <2>4. l - 1 \in 1..n - 1 /\ (l - 1) + 1 = l
    BY <1>1, <2>3
  <2>5. To(l - 1, s)'
    BY <1>1, <2>1, <2>2, <2>4 DEF IsLastTo
  <2>6. ASSUME NEW j \in 1..n - 1, To(j, s)'
        PROVE  j <= l - 1
    <3>1. To(j + 1, s) /\ j + 1 \in 1..n
      BY <1>1, <2>1, <2>6
    <3>2. j + 1 <= l
      BY <2>2, <3>1 DEF IsLastTo
    <3>3. QED
      BY <1>1, <3>2, <2>4
  <2>7. IsLastTo(l - 1, s)'
    BY <1>1, <2>5, <2>6 DEF IsLastTo
  <2>8. QED
    BY <2>4, <2>7
<1>4. ASSUME NEW i \in 1..Len(copies'), NEW s, s = copies'[i].slot
      PROVE  \E l \in 1..Len(copies') : IsLastTo(l, s)'
  BY <1>1, <1>3, <1>4
<1>5. LastInv'
  BY <1>4 DEF LastInv
<1>6. QED
  BY <1>2, <1>5

(* What a step that enters e at slot s leaves of the other experts.        *)
Entered(e, s) ==
  /\ e \in Resident' /\ slotOf'[e] = s
  /\ \A x \in Resident' :
       x # e => /\ x \in Resident /\ slotOf'[x] = slotOf[x] /\ slotOf[x] # s
                /\ inflight'[x] = inflight[x]
  /\ ToSet(free') \subseteq ToSet(free)

LEMMA TableEntered ==
  ASSUME SlotsInv', NEW e \in Expert, NEW s \in Slot, NEW v, Enter(e, s, v),
         \A x \in Expert : x # e /\ x # v => inflight'[x] = inflight[x],
         ToSet(free') \subseteq ToSet(free)
  PROVE  /\ Entered(e, s)
         /\ \A x \in Resident : x # v => x \in Resident'
<1>1. s # Nil
  BY HotTierAssumption DEF Slot
<1>2. slotOf' = [x \in Expert |-> IF x = e THEN s ELSE IF x = v THEN Nil ELSE slotOf[x]]
  BY DEF Enter
<1>3. e \in Resident' /\ slotOf'[e] = s
  BY <1>1, <1>2 DEF Resident
<1>4. \A x \in Resident' : x # e => x \in Resident /\ slotOf'[x] = slotOf[x] /\ x # v
  BY <1>2 DEF Resident
<1>5. \A x \in Resident' : x # e => slotOf'[x] # s
  BY <1>3 DEF SlotsInv, OneExpertPerSlot
<1>6. \A x \in Resident : x # v => x \in Resident'
  BY <1>1, <1>2 DEF Resident
<1>7. \A x \in Resident' : x # e => inflight'[x] = inflight[x]
  BY <1>4 DEF Resident
<1>8. QED
  BY <1>3, <1>4, <1>5, <1>6, <1>7 DEF Entered

LEMMA Admitted ==
  ASSUME HotType, SlotsInv, SlotsInv', NEW e \in Expert, NEW s \in Slot, Admit(e, s)
  PROVE  /\ Entered(e, s)
         /\ inflight' \in [Expert -> Nat \cup {Nil}]
         /\ \A x \in Protected : inflight'[x] = inflight[x]
         /\ \A x \in Protected : x \in Resident => x \in Resident'
<1>1. Protected \subseteq Expert
  BY DEF Protected, ToSet, HotType
<1>2. CASE /\ free # <<>> /\ free' = Tail(free)
           /\ Enter(e, s, Nil) /\ inflight' = inflight
  <2>1. ToSet(free') \subseteq ToSet(free)
    BY <1>2, TakeFree DEF SlotsInv
  <2>2. Entered(e, s) /\ \A x \in Resident : x # Nil => x \in Resident'
    BY <1>2, <2>1, TableEntered
  <2>3. QED
    BY <1>1, <1>2, <2>2, HotTierAssumption DEF HotType
<1>3. CASE /\ free' = free
           /\ \E v \in Resident : /\ IsVictim(v) /\ Enter(e, s, v)
                                  /\ inflight' = [inflight EXCEPT ![v] = Nil]
  <2>1. PICK v \in Resident : /\ IsVictim(v) /\ Enter(e, s, v)
                              /\ inflight' = [inflight EXCEPT ![v] = Nil]
    BY <1>3
  <2>2. v \notin Protected
    BY <2>1 DEF IsVictim
  <2>3. inflight' \in [Expert -> Nat \cup {Nil}]
    BY <2>1 DEF HotType
  <2>4. \A x \in Expert : x # v => inflight'[x] = inflight[x]
    BY <2>1 DEF HotType
  <2>5. Entered(e, s) /\ \A x \in Resident : x # v => x \in Resident'
    BY <1>3, <2>1, <2>4, TableEntered
  <2>6. QED
    BY <1>1, <2>2, <2>3, <2>4, <2>5
<1>4. QED
  BY <1>2, <1>3 DEF Admit

(* A copy started is ordered behind everything marked so far, and the ring *)
(* does not take a buffer back that a copy has yet to read.                *)
LEMMA CopyStarts ==
  ASSUME HotType, StageInv, NEW e \in Expert, NEW s \in Slot, StartCopy(e, s)
  PROVE  /\ StageInv' /\ copied' = copied
         /\ stageI' \in Stage /\ stageBusy' \in [Stage -> BOOLEAN]
         /\ stageEv' \in [Stage -> Nat] /\ stageHolds' \in [Stage -> Expert \cup {Nil}]
         /\ \E c \in Copy : /\ copies' = Append(copies, c)
                            /\ c.slot = s /\ c.expert = e /\ c.after = readEv
<1> DEFINE c == [slot |-> s, expert |-> e, after |-> readEv,
                 stage |-> IF direct THEN Nil ELSE stageI]
<1>1. c \in Copy /\ copies' = Append(copies, c) /\ copied' = copied
  BY DEF StartCopy, Copy, HotType, ReadBy
<1> HIDE DEF c
<1>2. PICK n : n = Len(copies)
  OBVIOUS
<1>3. /\ n \in Nat /\ Len(copies') = n + 1
      /\ \A i \in 1..n : copies'[i] = copies[i] /\ copies[i] \in Copy
      /\ copies'[n + 1] = c
      /\ \A i \in 1..Len(copies') : i \in 1..n \/ i = n + 1
  BY <1>1, <1>2, CopyIssued
<1>4. CASE direct
  <2>1. c.stage = Nil
    BY <1>4 DEF c
  <2>2. UNCHANGED <<stageI, stageBusy, stageEv, stageHolds>>
    BY <1>4 DEF StartCopy, ring
  <2>3. StageInv'
    BY <1>1, <1>2, <1>3, <2>1, <2>2 DEF StageInv
  <2>4. QED
    BY <1>1, <2>2, <2>3 DEF HotType, c
<1>5. CASE ~direct
  <2>1. c.stage = stageI /\ c.expert = e
    BY <1>5 DEF c
  <2>2. /\ stageBusy[stageI] => stageEv[stageI] <= copied
        /\ stageI' = (stageI + 1) % Stages
        /\ stageHolds' = [stageHolds EXCEPT ![stageI] = e]
        /\ stageBusy' = [stageBusy EXCEPT ![stageI] = TRUE]
        /\ stageEv' = [stageEv EXCEPT ![stageI] = copied + n + 1]
    BY <1>2, <1>5 DEF StartCopy, StageFree, IssuedCopies
  <2>3. stageI' \in Stage /\ stageI \in Stage
    BY <2>2, HotTierAssumption DEF HotType, Stage
  <2>4. copied \in Nat
    BY DEF HotType
  <2>5. /\ stageBusy' \in [Stage -> BOOLEAN]
        /\ stageEv' \in [Stage -> Nat] /\ stageHolds' \in [Stage -> Expert \cup {Nil}]
    BY <1>3, <2>2, <2>3, <2>4 DEF HotType
  <2>6. ASSUME NEW i \in 1..n, copies[i].stage # Nil
        PROVE  /\ copies[i].stage \in Stage /\ copies[i].stage # stageI
               /\ stageHolds[copies[i].stage] = copies[i].expert
               /\ stageBusy[copies[i].stage] /\ copied + i <= stageEv[copies[i].stage]
    <3>1. copies[i].stage \in Stage
      BY <1>3, <2>6 DEF Copy
    <3>2. /\ stageHolds[copies[i].stage] = copies[i].expert
          /\ stageBusy[copies[i].stage] /\ copied + i <= stageEv[copies[i].stage]
      BY <1>2, <2>6 DEF StageInv
    <3>3. stageEv[copies[i].stage] \in Nat
      BY <3>1 DEF HotType
    <3>4. copies[i].stage # stageI
      BY <1>3, <2>2, <2>4, <3>2, <3>3
    <3>5. QED
      BY <3>1, <3>2, <3>4
  <2>7. \A i \in 1..n : copies[i].stage # Nil =>
          /\ stageHolds'[copies[i].stage] = copies[i].expert
          /\ stageBusy'[copies[i].stage] /\ copied + i <= stageEv'[copies[i].stage]
    BY <2>2, <2>6 DEF HotType
  <2>8. stageHolds'[stageI] = e /\ stageBusy'[stageI] /\ stageEv'[stageI] = copied + n + 1
    BY <2>2, <2>3 DEF HotType
  <2>9. StageInv'
    <3> SUFFICES ASSUME NEW i \in 1..Len(copies'), copies'[i].stage # Nil
                 PROVE  /\ stageHolds'[copies'[i].stage] = copies'[i].expert
                        /\ stageBusy'[copies'[i].stage]
                        /\ copied' + i <= stageEv'[copies'[i].stage]
      BY DEF StageInv
    <3>1. CASE i \in 1..n
      BY <1>1, <1>3, <2>7, <3>1
    <3>2. CASE i = n + 1
      BY <1>1, <1>3, <2>1, <2>4, <2>8, <3>2
    <3>3. QED
      BY <1>3, <3>1, <3>2
  <2>10. QED
    BY <1>1, <2>3, <2>5, <2>9 DEF c
<1>6. QED
  BY <1>4, <1>5

(* A copy issued leaves the pending kernels what they read: it is ordered  *)
(* behind the kernels that read its slot.                                  *)
LEMMA KernelIssued ==
  ASSUME HotType, KernelInv, NEW c \in Copy, copies' = Append(copies, c),
         UNCHANGED <<copied, kernels, ran, holds>>,
         \A k \in 1..Len(kernels) : \A r \in kernels[k].reads :
           r[1] = c.slot => ran + k <= c.after
  PROVE  KernelInv'
<1>1. PICK n : n = Len(copies)
  OBVIOUS
<1>2. /\ n \in Nat /\ Len(copies') = n + 1
      /\ \A i \in 1..n : copies'[i] = copies[i] /\ copies[i] \in Copy
      /\ copies'[n + 1] = c /\ c.after \in Nat
      /\ \A i \in 1..n, s \in Slot : To(i, s)' <=> To(i, s)
      /\ \A s \in Slot : To(n + 1, s)' <=> s = c.slot
      /\ \A i \in 1..Len(copies') : i \in 1..n \/ i = n + 1
  BY <1>1, CopyIssued DEF Copy
<1>3. ran \in Nat /\ kernels \in Seq(Kernel)
  BY DEF HotType
<1>4. ASSUME NEW k \in 1..Len(kernels'), NEW r \in kernels'[k].reads,
             NEW s, s = r[1]
      PROVE  /\ \A i \in 1..n : Early(i, s, k)' <=> Early(i, s, k)
             /\ ~Early(n + 1, s, k)'
             /\ s \in Slot /\ kernels' = kernels /\ ran' = ran
  <2>1. kernels' = kernels /\ ran' = ran /\ k \in 1..Len(kernels)
    BY <1>4
  <2>2. s \in Slot
    <3>1. kernels[k] \in Kernel
      BY <1>3, <2>1
    <3>2. r \in Slot \X Expert
      BY <1>4, <2>1, <3>1 DEF Kernel
    <3>3. QED
      BY <1>4, <3>2
  <2>3. \A i \in 1..n : Early(i, s, k)' <=> Early(i, s, k)
    BY <1>2, <2>1, <2>2 DEF Early
  <2>4. s = c.slot => ~(c.after < ran + k)
    <3>1. s = c.slot => ran + k <= c.after
      BY <1>4, <2>1
    <3>2. ran + k \in Nat /\ c.after \in Nat
      BY <1>2, <1>3, <2>1
    <3>3. QED
      BY <3>1, <3>2
  <2>5. ~Early(n + 1, s, k)'
    BY <1>2, <2>1, <2>2, <2>4 DEF Early
  <2>6. QED
    BY <2>1, <2>2, <2>3, <2>5
<1>5. ASSUME NEW k \in 1..Len(kernels'), NEW r \in kernels'[k].reads,
             NEW s, s = r[1]
      PROVE  /\ \A i \in 1..Len(copies') : Early(i, s, k)' => copied' + i <= kernels'[k].after
             /\ \A i \in 1..Len(copies') : IsLastEarly(i, s, k)' => copies'[i].expert = r[2]
             /\ (\A i \in 1..Len(copies') : ~Early(i, s, k)') => holds'[s] = r[2]
  <2>1. k \in 1..Len(kernels) /\ r \in kernels[k].reads /\ kernels' = kernels
    BY <1>5
  <2>2. /\ \A i \in 1..n : Early(i, s, k)' <=> Early(i, s, k)
        /\ ~Early(n + 1, s, k)'
    BY <1>4, <1>5
  <2>3. /\ \A i \in 1..n : Early(i, s, k) => copied + i <= kernels[k].after
        /\ \A i \in 1..n : IsLastEarly(i, s, k) => copies[i].expert = r[2]
        /\ (\A i \in 1..n : ~Early(i, s, k)) => holds[s] = r[2]
    BY <1>1, <1>5, <2>1 DEF KernelInv
  <2>4. \A i \in 1..n : IsLastEarly(i, s, k)' => IsLastEarly(i, s, k)
    BY <1>1, <1>2, <2>2 DEF IsLastEarly
  <2>5. ~IsLastEarly(n + 1, s, k)'
    BY <2>2 DEF IsLastEarly
  <2>6. QED
    BY <1>2, <2>1, <2>2, <2>3, <2>4, <2>5
<1>6. QED
  BY <1>5 DEF KernelInv

(* When the first copy is done its slot holds the expert it carries.       *)
LEMMA CopyLands ==
  ASSUME HotType, StageInv, Copied
  PROVE  /\ copies # <<>> /\ copies' = Tail(copies) /\ copied' = copied + 1
         /\ copies[1].after <= ran
         /\ holds' = [holds EXCEPT ![copies[1].slot] = copies[1].expert]
<1>1. PICK n : n = Len(copies)
  OBVIOUS
<1>2. copies # <<>> /\ copies' = Tail(copies) /\ copied' = copied + 1
  BY DEF Copied
<1>3. Head(copies) = copies[1] /\ 1 \in 1..Len(copies)
  BY <1>1, <1>2, CopyDone
<1>4. copies[1].stage # Nil => stageHolds[copies[1].stage] = copies[1].expert
  BY <1>3 DEF StageInv
<1>5. QED
  BY <1>2, <1>3, <1>4 DEF Copied

LEMMA KernelCopied ==
  ASSUME HotType, StageInv, KernelInv, Copied
  PROVE  KernelInv'
<1>1. PICK n : n = Len(copies)
  OBVIOUS
<1>2. /\ copies # <<>> /\ copies' = Tail(copies) /\ copied' = copied + 1
      /\ copies[1].after <= ran /\ kernels' = kernels /\ ran' = ran
      /\ holds' = [holds EXCEPT ![copies[1].slot] = copies[1].expert]
  BY CopyLands DEF Copied, compute
<1>3. /\ n \in Nat \ {0} /\ Len(copies') = n - 1
      /\ \A i \in 1..n : copies[i] \in Copy
      /\ \A i \in 1..n - 1 : i + 1 \in 1..n /\ copies'[i] = copies[i + 1]
      /\ 1 \in 1..n
      /\ \A i \in 1..n : i = 1 \/ (i - 1 \in 1..n - 1 /\ (i - 1) + 1 = i)
      /\ \A i \in 1..n - 1, s \in Slot : To(i, s)' <=> To(i + 1, s)
  BY <1>1, <1>2, CopyDone
<1>4. /\ ran \in Nat /\ kernels \in Seq(Kernel) /\ copied \in Nat
      /\ holds \in [Slot -> Expert \cup {Nil}]
      /\ copies[1].after \in Nat /\ copies[1].slot \in Slot
  BY <1>3 DEF HotType, Copy
<1>5. ASSUME NEW k \in 1..Len(kernels'), NEW r \in kernels'[k].reads,
             NEW s, s = r[1]
      PROVE  /\ \A i \in 1..Len(copies') : Early(i, s, k)' => copied' + i <= kernels'[k].after
             /\ \A i \in 1..Len(copies') : IsLastEarly(i, s, k)' => copies'[i].expert = r[2]
             /\ (\A i \in 1..Len(copies') : ~Early(i, s, k)') => holds'[s] = r[2]
  <2>1. k \in 1..Len(kernels) /\ r \in kernels[k].reads /\ kernels' = kernels /\ k \in Nat
    BY <1>2, <1>4, <1>5
  <2>2. s \in Slot /\ kernels[k].after \in Nat
    <3>1. kernels[k] \in Kernel
      BY <1>4, <2>1
    <3>2. r \in Slot \X Expert
      BY <1>5, <2>1, <3>1 DEF Kernel
    <3>3. QED
      BY <1>5, <3>1, <3>2 DEF Kernel
  <2>3. /\ \A i \in 1..n : Early(i, s, k) => copied + i <= kernels[k].after
        /\ \A i \in 1..n : IsLastEarly(i, s, k) => copies[i].expert = r[2]
        /\ (\A i \in 1..n : ~Early(i, s, k)) => holds[s] = r[2]
    BY <1>1, <1>5, <2>1 DEF KernelInv
  <2>4. \A i \in 1..n - 1 : Early(i, s, k)' <=> Early(i + 1, s, k)
    BY <1>2, <1>3, <2>2 DEF Early
  <2>5. ASSUME NEW i \in 1..n - 1, IsLastEarly(i, s, k)'
        PROVE  copies[i + 1].expert = r[2]
    <3>1. Early(i + 1, s, k) /\ i + 1 \in 1..n
      BY <1>3, <2>4, <2>5 DEF IsLastEarly
    <3>2. ASSUME NEW j \in 1..n, Early(j, s, k)
          PROVE  j <= i + 1
      <4>1. CASE j = 1
        BY <4>1, <1>3
      <4>2. CASE j - 1 \in 1..n - 1 /\ (j - 1) + 1 = j
        <5>1. Early(j - 1, s, k)'
          BY <2>4, <3>2, <4>2
        <5>2. j - 1 <= i
          BY <1>3, <2>5, <4>2, <5>1 DEF IsLastEarly
        <5>3. QED
          BY <1>3, <5>2
      <4>3. QED
        BY <4>1, <4>2, <1>3
    <3>3. IsLastEarly(i + 1, s, k)
      BY <1>1, <3>1, <3>2 DEF IsLastEarly
    <3>4. QED
      BY <2>3, <3>1, <3>3
  <2>6. ASSUME \A i \in 1..n - 1 : ~Early(i, s, k)'
        PROVE  holds'[s] = r[2]
    <3>1. \A i \in 1..n : i # 1 => ~Early(i, s, k)
      BY <1>3, <2>4, <2>6
    <3>2. CASE copies[1].slot = s
      <4>1. Early(1, s, k)
        BY <1>1, <1>2, <1>3, <1>4, <2>1, <3>2 DEF Early, To
      <4>2. IsLastEarly(1, s, k)
        BY <1>1, <1>3, <3>1, <4>1 DEF IsLastEarly
      <4>3. copies[1].expert = r[2]
        BY <1>3, <2>3, <4>2
      <4>4. QED
        BY <1>2, <1>4, <3>2, <4>3
    <3>3. CASE copies[1].slot # s
      <4>1. ~Early(1, s, k)
        BY <3>3 DEF Early, To
      <4>2. holds[s] = r[2]
        BY <2>3, <3>1, <4>1
      <4>3. QED
        BY <1>2, <1>4, <2>2, <3>3, <4>2
    <3>4. QED
      BY <3>2, <3>3
  <2>7. \A i \in 1..n - 1 : Early(i, s, k)' => copied' + i <= kernels'[k].after
    <3> SUFFICES ASSUME NEW i \in 1..n - 1, Early(i, s, k)'
                 PROVE  copied' + i <= kernels'[k].after
      OBVIOUS
    <3>1. Early(i + 1, s, k) /\ i + 1 \in 1..n
      BY <1>3, <2>4
    <3>2. copied + (i + 1) <= kernels[k].after
      BY <2>3, <3>1
    <3>3. QED
      BY <1>2, <1>3, <1>4, <2>2, <3>2
  <2>8. QED
    BY <1>3, <2>5, <2>6, <2>7
<1>6. QED
  BY <1>5 DEF KernelInv

(* The copy that fetches an expert to the slot it is entered at.           *)
LEMMA BroughtIssued ==
  ASSUME HotType, SlotsInv, SlotsInv', LastInv, BroughtInv, pc # "raised",
         NEW e \in Expert, NEW s \in Slot, Entered(e, s),
         NEW c \in Copy, c.slot = s, c.expert = e,
         copies' = Append(copies, c), holds' = holds
  PROVE  LastInv' /\ BroughtInv'
<1>1. PICK n : n = Len(copies)
  OBVIOUS
<1>2. /\ n \in Nat /\ Len(copies') = n + 1
      /\ \A i \in 1..n : copies'[i] = copies[i]
      /\ copies'[n + 1] = c
      /\ \A i \in 1..n, t \in Slot : To(i, t)' <=> To(i, t)
      /\ \A i \in 1..Len(copies') : i \in 1..n \/ i = n + 1
  BY <1>1, CopyIssued
<1>3. /\ LastInv' /\ IsLastTo(n + 1, s)'
      /\ \A t \in Slot, i \in 1..n : t # s => (IsLastTo(i, t)' <=> IsLastTo(i, t))
      /\ \A i \in 1..n : ~IsLastTo(i, s)'
  BY <1>1, LastIssued
<1>4. /\ To(n + 1, s)'
      /\ \A t \in Slot : IsLastTo(n + 1, t)' => t = s
  BY <1>2, <1>3 DEF IsLastTo, To
<1>5. ASSUME NEW x \in Resident', NEW t, t = slotOf'[x]
      PROVE  /\ \A i \in 1..Len(copies') : IsLastTo(i, t)' => copies'[i].expert = x
             /\ (\A i \in 1..Len(copies') : ~To(i, t)') => holds'[t] = x
  <2>1. CASE x = e
    <3>1. t = s
      BY <1>5, <2>1 DEF Entered
    <3>2. n + 1 \in 1..Len(copies')
      BY <1>2
    <3>3. QED
      BY <1>2, <1>3, <1>4, <2>1, <3>1, <3>2
  <2>2. CASE x # e
    <3>1. x \in Resident /\ slotOf[x] = t /\ t # s
      BY <1>5, <2>2 DEF Entered
    <3>2. t \in Slot
      BY <3>1 DEF Resident, SlotsInv
    <3>3. /\ \A i \in 1..n : IsLastTo(i, t) => copies[i].expert = x
          /\ (\A i \in 1..n : ~To(i, t)) => holds[t] = x
      BY <1>1, <3>1 DEF BroughtInv
    <3>4. \A i \in 1..n : i \in 1..Len(copies')
      BY <1>2
    <3>5. QED
      BY <1>2, <1>3, <1>4, <3>1, <3>2, <3>3, <3>4
  <2>3. QED
    BY <2>1, <2>2
<1>6. QED
  BY <1>3, <1>5 DEF BroughtInv

LEMMA AwaitIssued ==
  ASSUME HotType, SlotsInv, AwaitInv, pc # "raised",
         NEW e \in Expert, NEW s \in Slot, Entered(e, s),
         NEW c \in Copy, c.slot = s, copies' = Append(copies, c), copied' = copied,
         \A m \in Nat : m <= IssuedCopies + 1 => Awaited(e, m)',
         \A x \in Resident', m \in Nat : x # e /\ Awaited(x, m) => Awaited(x, m)'
  PROVE  AwaitInv'
<1>1. PICK n : n = Len(copies)
  OBVIOUS
<1>2. /\ n \in Nat /\ Len(copies') = n + 1
      /\ \A i \in 1..n, t \in Slot : To(i, t)' <=> To(i, t)
      /\ \A t \in Slot : To(n + 1, t)' <=> t = c.slot
      /\ \A i \in 1..Len(copies') : i \in 1..n \/ i = n + 1
      /\ copied \in Nat
  BY <1>1, CopyIssued DEF HotType
<1>3. ASSUME NEW x \in Resident', NEW t, t = slotOf'[x],
             NEW i \in 1..Len(copies'), To(i, t)', NEW m, m = copied + i
      PROVE  Awaited(x, m)'
  <2>1. m \in Nat /\ m <= IssuedCopies + 1
    BY <1>1, <1>2, <1>3 DEF IssuedCopies
  <2>2. CASE x = e
    BY <2>1, <2>2
  <2>3. CASE x # e
    <3>1. x \in Resident /\ slotOf[x] = t /\ t # s
      BY <1>3, <2>3 DEF Entered
    <3>2. t \in Slot
      BY <3>1 DEF Resident, SlotsInv
    <3>3. i \in 1..n /\ To(i, t)
      BY <1>2, <1>3, <3>1, <3>2
    <3>4. Awaited(x, m)
      BY <1>1, <1>3, <3>1, <3>3 DEF AwaitInv
    <3>5. QED
      BY <2>1, <2>3, <3>4
  <2>4. QED
    BY <2>2, <2>3
<1>4. QED
  BY <1>3 DEF AwaitInv

(* A step that issues no copy and enters no expert.                        *)
LEMMA TableKept ==
  ASSUME HotType, BroughtInv, AwaitInv, UNCHANGED <<copies, copied, holds>>,
         pc' # "raised" => pc # "raised",
         \A x \in Resident' : /\ x \in Resident /\ slotOf'[x] = slotOf[x]
                              /\ \A m \in Nat : Awaited(x, m) => Awaited(x, m)'
  PROVE  BroughtInv' /\ AwaitInv'
<1>1. ASSUME NEW x \in Resident', NEW t, t = slotOf'[x], pc # "raised"
      PROVE  /\ \A i \in 1..Len(copies') : IsLastTo(i, t)' => copies'[i].expert = x
             /\ (\A i \in 1..Len(copies') : ~To(i, t)') => holds'[t] = x
  BY <1>1 DEF BroughtInv, IsLastTo, To
<1>2. ASSUME NEW x \in Resident', NEW t, t = slotOf'[x], pc # "raised",
             NEW i \in 1..Len(copies'), To(i, t)', NEW m, m = copied + i
      PROVE  Awaited(x, m)'
  <2>1. m \in Nat /\ i \in 1..Len(copies) /\ To(i, t)
    BY <1>2 DEF HotType, To
  <2>2. Awaited(x, m)
    BY <1>2, <2>1 DEF AwaitInv
  <2>3. QED
    BY <1>2, <2>1, <2>2
<1>3. QED
  BY <1>1, <1>2 DEF BroughtInv, AwaitInv

(* What a step keeps that neither issues nor completes anything.           *)
LEMMA QueuesKept ==
  ASSUME HotInv, UNCHANGED <<copies, copied, kernels, ran, holds>>,
         ToSet(free') \subseteq ToSet(free)
  PROVE  LastInv' /\ KernelInv' /\ FreeUnread'
<1>1. LastInv'
  BY DEF HotInv, LastInv, IsLastTo, To
<1>2. KernelInv'
  <2>1. \A i, s, k : Early(i, s, k)' <=> Early(i, s, k)
    BY DEF Early, To
  <2>2. \A i, s, k : IsLastEarly(i, s, k)' <=> IsLastEarly(i, s, k)
    BY <2>1 DEF IsLastEarly
  <2>3. QED
    BY <2>1, <2>2 DEF HotInv, KernelInv
<1>3. FreeUnread'
  BY DEF HotInv, FreeUnread
<1>4. QED
  BY <1>1, <1>2, <1>3

(* A copy that lands is the last to its slot, or another one will be.      *)
LEMMA TableCopied ==
  ASSUME HotInv, Copied
  PROVE  LastInv' /\ BroughtInv' /\ AwaitInv' /\ StageInv'
<1>1. PICK n : n = Len(copies)
  OBVIOUS
<1> USE DEF HotInv
<1>2. /\ copies # <<>> /\ copies' = Tail(copies) /\ copied' = copied + 1
      /\ holds' = [holds EXCEPT ![copies[1].slot] = copies[1].expert]
      /\ UNCHANGED <<pc, slotOf, inflight, waits, awaits, stageHolds, stageBusy, stageEv>>
  BY CopyLands DEF Copied, pool, staging, ring, step, compute
<1>3. /\ n \in Nat \ {0} /\ Len(copies') = n - 1
      /\ \A i \in 1..n : copies[i] \in Copy
      /\ \A i \in 1..n - 1 : i + 1 \in 1..n /\ copies'[i] = copies[i + 1]
      /\ 1 \in 1..n
      /\ \A i \in 1..n : i = 1 \/ (i - 1 \in 1..n - 1 /\ (i - 1) + 1 = i)
      /\ \A i \in 1..n - 1, s \in Slot : To(i, s)' <=> To(i + 1, s)
  BY <1>1, <1>2, CopyDone
<1>4. /\ LastInv'
      /\ \A i \in 1..n - 1, s \in Slot : IsLastTo(i, s)' => IsLastTo(i + 1, s)
  BY <1>1, <1>2, LastDone
<1>5. copied \in Nat /\ copies[1].slot \in Slot
  BY <1>3 DEF HotType, Copy
<1>6. \A i \in 1..n - 1 : copied' + i = copied + (i + 1)
  BY <1>2, <1>3, <1>5
<1>7. StageInv'
  BY <1>1, <1>2, <1>3, <1>6 DEF StageInv
<1>8. ASSUME NEW x \in Resident', NEW t, t = slotOf'[x], pc # "raised"
      PROVE  /\ \A i \in 1..Len(copies') : IsLastTo(i, t)' => copies'[i].expert = x
             /\ (\A i \in 1..Len(copies') : ~To(i, t)') => holds'[t] = x
             /\ \A i \in 1..n - 1 : To(i, t)' => Awaited(x, copied + (i + 1))
  <2>1. x \in Resident /\ slotOf[x] = t
    BY <1>2, <1>8 DEF Resident
  <2>2. t \in Slot
    BY <2>1 DEF Resident, SlotsInv
  <2>3. /\ \A i \in 1..n : IsLastTo(i, t) => copies[i].expert = x
        /\ (\A i \in 1..n : ~To(i, t)) => holds[t] = x
    BY <1>1, <1>8, <2>1 DEF BroughtInv
  <2>4. \A i \in 1..n - 1 : IsLastTo(i, t)' => copies'[i].expert = x
    BY <1>3, <1>4, <2>2, <2>3
  <2>5. ASSUME \A i \in 1..n - 1 : ~To(i, t)'
        PROVE  holds'[t] = x
    <3>1. \A i \in 1..n : i # 1 => ~To(i, t)
      BY <1>3, <2>2, <2>5
    <3>2. CASE copies[1].slot = t
      <4>1. IsLastTo(1, t)
        BY <1>1, <1>3, <3>1, <3>2 DEF IsLastTo, To
      <4>2. copies[1].expert = x
        BY <1>3, <2>3, <4>1
      <4>3. QED
        BY <1>2, <1>5, <3>2, <4>2 DEF HotType
    <3>3. CASE copies[1].slot # t
      <4>1. holds[t] = x
        BY <2>3, <3>1, <3>3 DEF To
      <4>2. QED
        BY <1>2, <1>5, <2>2, <3>3, <4>1 DEF HotType
    <3>4. QED
      BY <3>2, <3>3
  <2>6. \A i \in 1..n - 1 : To(i, t)' => Awaited(x, copied + (i + 1))
    BY <1>1, <1>3, <1>8, <2>1, <2>2 DEF AwaitInv
  <2>7. QED
    BY <1>3, <2>4, <2>5, <2>6
<1>9. BroughtInv'
  BY <1>2, <1>8 DEF BroughtInv
<1>10. ASSUME NEW x \in Resident', NEW t, t = slotOf'[x], pc # "raised",
              NEW i \in 1..Len(copies'), To(i, t)', NEW m, m = copied' + i
       PROVE  Awaited(x, m)'
  <2>1. Awaited(x, m)
    BY <1>3, <1>6, <1>8, <1>10
  <2>2. QED
    BY <1>2, <2>1 DEF Awaited
<1>11. AwaitInv'
  BY <1>2, <1>10 DEF AwaitInv
<1>12. QED
  BY <1>4, <1>7, <1>9, <1>11

(* The copy of an expert entered at a slot, in a step or in a prefetch.    *)
LEMMA CopyKeeps ==
  ASSUME HotInv, SlotsInv', pc # "raised",
         NEW e \in Expert, NEW s \in Slot, Entered(e, s), StartCopy(e, s),
         UNCHANGED <<kernels, ran, begun, readEv, holds>>,
         \A k \in 1..Len(kernels) : \A r \in kernels[k].reads :
           r[1] = s => ran + k <= readEv,
         \A m \in Nat : m <= IssuedCopies + 1 => Awaited(e, m)',
         \A x \in Resident', m \in Nat : x # e /\ Awaited(x, m) => Awaited(x, m)',
         pc' \in {"idle", "miss", "submit"} => pc \in {"idle", "miss", "submit"}
  PROVE  /\ StageInv' /\ LastInv' /\ BroughtInv' /\ AwaitInv' /\ KernelInv'
         /\ FreeUnread' /\ OrderInv'
         /\ copies' \in Seq(Copy) /\ copied' = copied
         /\ stageI' \in Stage /\ stageBusy' \in [Stage -> BOOLEAN]
         /\ stageEv' \in [Stage -> Nat] /\ stageHolds' \in [Stage -> Expert \cup {Nil}]
<1> USE DEF HotInv
<1>1. /\ StageInv' /\ copied' = copied
      /\ stageI' \in Stage /\ stageBusy' \in [Stage -> BOOLEAN]
      /\ stageEv' \in [Stage -> Nat] /\ stageHolds' \in [Stage -> Expert \cup {Nil}]
  BY CopyStarts
<1>2. PICK c \in Copy : /\ copies' = Append(copies, c)
                        /\ c.slot = s /\ c.expert = e /\ c.after = readEv
  BY CopyStarts
<1>3. PICK n : n = Len(copies)
  OBVIOUS
<1>4. /\ copies' \in Seq(Copy) /\ n \in Nat /\ Len(copies') = n + 1
      /\ \A i \in 1..n : copies'[i] = copies[i]
      /\ copies'[n + 1] = c
      /\ \A i \in 1..Len(copies') : i \in 1..n \/ i = n + 1
  BY <1>2, <1>3, CopyIssued
<1>5. LastInv' /\ BroughtInv'
  BY <1>2, BroughtIssued
<1>6. AwaitInv'
  BY <1>1, <1>2, AwaitIssued
<1>7. KernelInv'
  BY <1>1, <1>2, KernelIssued
<1>8. FreeUnread'
  BY DEF FreeUnread, Entered
<1>9. \A i \in 1..Len(copies') : copies'[i].after <= readEv
  BY <1>2, <1>3, <1>4 DEF OrderInv, HotType
<1>10. OrderInv'
  BY <1>1, <1>9 DEF OrderInv, Submitted
<1>11. QED
  BY <1>1, <1>4, <1>5, <1>6, <1>7, <1>8, <1>10

(* The read that raises leaves the queues and the copies' buffers alone.   *)
LEMMA RaiseKeeps ==
  ASSUME HotInv, SlotsInv', CopyRaises, pc' = "raised",
         ToSet(free') \subseteq ToSet(free),
         inflight' \in [Expert -> Nat \cup {Nil}],
         UNCHANGED <<want, misses, awaits, readEv, compute, holds>>
  PROVE  HotInv'
<1> USE DEF HotInv
<1>1. UNCHANGED <<copies, copied, kernels, ran, waits, begun>>
  BY DEF CopyRaises, copyq, compute
<1>2. LastInv' /\ KernelInv' /\ FreeUnread'
  BY <1>1, QueuesKept
<1>3. ASSUME UNCHANGED ring
      PROVE  HotType' /\ StageInv'
  BY <1>1, <1>3 DEF HotType, StageInv, ring
<1>4. ASSUME /\ StageFree /\ stageI' = (stageI + 1) % Stages
             /\ stageHolds' = [stageHolds EXCEPT ![stageI] = Nil]
             /\ stageBusy' = [stageBusy EXCEPT ![stageI] = FALSE]
             /\ UNCHANGED stageEv
      PROVE  HotType' /\ StageInv'
  <2>1. stageI' \in Stage
    BY <1>4, HotTierAssumption DEF HotType, Stage
  <2>2. HotType'
    BY <1>1, <1>4, <2>1 DEF HotType
  <2>3. StageInv'
    <3> SUFFICES ASSUME NEW i \in 1..Len(copies'), copies'[i].stage # Nil
                 PROVE  /\ stageHolds'[copies'[i].stage] = copies'[i].expert
                        /\ stageBusy'[copies'[i].stage]
                        /\ copied' + i <= stageEv'[copies'[i].stage]
      BY DEF StageInv
    <3>1. copies' = copies /\ copied' = copied /\ i \in 1..Len(copies) /\ i >= 1 /\ i \in Nat
      BY <1>1
    <3>2. copies[i] \in Copy
      BY <3>1 DEF HotType
    <3>3. copies[i].stage \in Stage
      BY <3>1, <3>2 DEF Copy
    <3>4. /\ stageHolds[copies[i].stage] = copies[i].expert
          /\ stageBusy[copies[i].stage] /\ copied + i <= stageEv[copies[i].stage]
      BY <3>1 DEF StageInv
    <3>5. copied \in Nat /\ stageEv[copies[i].stage] \in Nat
      BY <3>3 DEF HotType
    <3>6. copies[i].stage # stageI
      BY <1>4, <3>1, <3>4, <3>5 DEF StageFree
    <3>7. QED
      BY <1>4, <3>1, <3>3, <3>4, <3>6 DEF HotType
  <2>4. QED
    BY <2>2, <2>3
<1>5. HotType' /\ StageInv'
  BY <1>3, <1>4 DEF CopyRaises
<1>6. QED
  BY <1>1, <1>2, <1>5 DEF OrderInv, BroughtInv, AwaitInv, WantInv, Submitted

(* The steps, one by one.                                                  *)

LEMMA EnsureKeeps ==
  ASSUME HotInv, SlotsInv', NEW w \in Wants, Ensure(w)
  PROVE  HotInv'
<1> USE DEF HotInv
<1>1. w \in Seq(Expert)
  BY HotTierAssumption DEF Wants
<1>2. /\ pc = "idle" /\ pc' = "miss" /\ want' = w /\ awaits' = {} /\ awaits = {}
      /\ misses' = {i \in DOMAIN w : slotOf[w[i]] = Nil}
      /\ inflight' = [e \in Expert |-> IF e \in ToSet(w) THEN Nil ELSE inflight[e]]
      /\ WaitFor({inflight[e] : e \in AwaitedHit(ToSet(w))})
      /\ UNCHANGED <<free, slotOf, stageI, stageBusy, stageEv, stageHolds, readEv,
                     copies, copied, kernels, ran, begun, holds>>
  BY DEF Ensure, WantInv, staging, ring, copyq
<1>3. PICK most \in {inflight[e] : e \in AwaitedHit(ToSet(w))} \cup {waits} :
        /\ \A q \in {inflight[e] : e \in AwaitedHit(ToSet(w))} \cup {waits} : q <= most
        /\ waits' = most
  BY <1>2 DEF WaitFor
<1>4. \A e \in Expert : inflight[e] # Nil => inflight[e] \in Nat
  BY DEF HotType
<1>5. ToSet(w) \subseteq Expert /\ \A i \in DOMAIN w : w[i] \in ToSet(w)
  BY <1>1 DEF ToSet
<1>6. waits' \in Nat /\ waits <= waits' /\ waits \in Nat
      /\ \A e \in ToSet(w) : inflight[e] # Nil => inflight[e] <= waits'
  BY <1>3, <1>4, <1>5 DEF AwaitedHit, HotType
<1>7. HotType'
  BY <1>1, <1>2, <1>6 DEF HotType
<1>8. LastInv' /\ KernelInv' /\ FreeUnread'
  BY <1>2, QueuesKept
<1>9. ASSUME NEW x \in Resident', NEW m \in Nat, Awaited(x, m)
      PROVE  Awaited(x, m)'
  <2>1. x \in Expert
    BY DEF Resident
  <2>2. CASE m <= waits
    BY <1>6, <2>2 DEF Awaited
  <2>3. CASE inflight[x] # Nil /\ m <= inflight[x]
    <3>1. CASE x \in ToSet(w)
      BY <1>4, <1>6, <2>1, <2>3, <3>1 DEF Awaited
    <3>2. CASE x \notin ToSet(w)
      BY <1>2, <2>1, <2>3, <3>2 DEF Awaited
    <3>3. QED
      BY <3>1, <3>2
  <2>4. QED
    BY <1>2, <1>9, <2>2, <2>3 DEF Awaited
<1>10. BroughtInv' /\ AwaitInv'
  <2>1. Resident' = Resident
    BY <1>2 DEF Resident
  <2>2. QED
    BY <1>2, <1>9, <2>1, TableKept
<1>11. WantInv'
  <2>1. \A i \in DOMAIN w : inflight'[w[i]] = Nil
    BY <1>2, <1>5
  <2>2. \A i \in DOMAIN w : i \in misses' \/ w[i] \in Resident'
    BY <1>2, <1>5 DEF Resident
  <2>3. QED
    BY <1>2, <2>1, <2>2 DEF WantInv
<1>12. OrderInv' /\ StageInv'
  BY <1>2 DEF OrderInv, StageInv, Submitted
<1>13. QED
  BY <1>7, <1>8, <1>10, <1>11, <1>12

LEMMA MissKeeps ==
  ASSUME HotInv, SlotsInv', Miss
  PROVE  HotInv'
<1> USE DEF HotInv
<1>1. PICK i \in DOMAIN want : IsNext(i) /\ Serve(i)
  BY DEF Miss
<1>2. PICK e : e = want[i]
  OBVIOUS
<1>3. e \in Expert /\ e \in Protected
  BY <1>2 DEF HotType, Protected, ToSet
<1>4. PICK s \in Slot : Admit(e, s) /\ StartCopy(e, s)
  BY <1>1, <1>2 DEF Serve
<1>5. /\ pc = "miss" /\ pc' = "miss" /\ want' = want
      /\ UNCHANGED <<readEv, kernels, ran, waits, begun, holds>>
  BY DEF Miss, compute
<1>6. /\ awaits' = awaits \cup {[expert |-> e, no |-> IssuedCopies + 1]}
      /\ misses' = misses \ {i}
  BY <1>1, <1>2 DEF Serve
<1>7. /\ Entered(e, s) /\ inflight' \in [Expert -> Nat \cup {Nil}]
      /\ \A x \in Protected : inflight'[x] = inflight[x]
      /\ \A x \in Protected : x \in Resident => x \in Resident'
  BY <1>3, <1>4, Admitted
<1>8. IssuedCopies \in Nat /\ ran \in Nat /\ Len(kernels) \in Nat
  BY DEF IssuedCopies, HotType
<1>9. \A k \in 1..Len(kernels) : ran + k <= readEv
  BY <1>5, <1>8 DEF OrderInv, Submitted
<1>10. \A m \in Nat : m <= IssuedCopies + 1 => Awaited(e, m)'
  <2> SUFFICES ASSUME NEW m \in Nat, m <= IssuedCopies + 1 PROVE Awaited(e, m)'
    OBVIOUS
  <2>1. PICK a : a = [expert |-> e, no |-> IssuedCopies + 1]
    OBVIOUS
  <2>2. a \in awaits' /\ a.expert = e /\ a.no = IssuedCopies + 1
    BY <1>6, <2>1
  <2>3. QED
    BY <2>2 DEF Awaited
<1>11. \A x \in Resident', m \in Nat : x # e /\ Awaited(x, m) => Awaited(x, m)'
  BY <1>5, <1>6, <1>7 DEF Awaited, Entered
<1>12. /\ StageInv' /\ LastInv' /\ BroughtInv' /\ AwaitInv' /\ KernelInv'
       /\ FreeUnread' /\ OrderInv'
       /\ copies' \in Seq(Copy) /\ copied' = copied
       /\ stageI' \in Stage /\ stageBusy' \in [Stage -> BOOLEAN]
       /\ stageEv' \in [Stage -> Nat] /\ stageHolds' \in [Stage -> Expert \cup {Nil}]
  BY <1>3, <1>4, <1>5, <1>7, <1>9, <1>10, <1>11, CopyKeeps
<1>13. HotType'
  BY <1>3, <1>5, <1>6, <1>7, <1>8, <1>12 DEF HotType
<1>14. WantInv'
  <2>1. \A j \in DOMAIN want : want[j] \in Protected
    BY DEF Protected, ToSet
  <2>2. \A j \in DOMAIN want : j \in misses' \/ want[j] \in Resident'
    BY <1>2, <1>5, <1>6, <1>7, <2>1 DEF WantInv, Entered
  <2>3. \A j \in DOMAIN want : inflight'[want[j]] = Nil
    BY <1>5, <1>7, <2>1 DEF WantInv
  <2>4. QED
    BY <1>5, <2>2, <2>3 DEF WantInv
<1>15. QED
  BY <1>12, <1>13, <1>14

LEMMA MissRaisesKeeps ==
  ASSUME HotInv, SlotsInv', MissRaises
  PROVE  HotInv'
<1>1. PICK i \in DOMAIN want, s \in Slot : Admit(want[i], s)
  BY DEF MissRaises
<1>2. want[i] \in Expert
  BY DEF HotInv, HotType
<1>3. Entered(want[i], s) /\ inflight' \in [Expert -> Nat \cup {Nil}]
  BY <1>1, <1>2, Admitted DEF HotInv
<1>4. ToSet(free') \subseteq ToSet(free)
  BY <1>3 DEF Entered
<1>5. QED
  BY <1>3, <1>4, RaiseKeeps DEF MissRaises

LEMMA ShedKeeps ==
  ASSUME HotInv, SlotsInv', ShedOne
  PROVE  HotInv'
<1> USE DEF HotInv
<1>1. PICK v \in Resident : IsVictim(v) /\ Shed(v)
  BY DEF ShedOne
<1>2. /\ pc = "miss" /\ misses = {}
      /\ UNCHANGED <<stageI, stageBusy, stageEv, stageHolds, readEv, pc, want,
                     misses, awaits, copies, copied, kernels, ran, waits, begun, holds>>
  BY DEF ShedOne, staging, ring, step, copyq, compute
<1>3. /\ slotOf' = [slotOf EXCEPT ![v] = Nil] /\ free' = free
      /\ inflight' = [inflight EXCEPT ![v] = Nil]
  BY <1>1 DEF Shed
<1>4. v \notin Protected
  BY <1>1 DEF IsVictim
<1>5. \A x \in Resident' : /\ x \in Resident /\ slotOf'[x] = slotOf[x]
                           /\ inflight'[x] = inflight[x]
  BY <1>3 DEF Resident, SlotsInv, HotType
<1>6. \A x \in Resident : x # v => x \in Resident'
  BY <1>3 DEF Resident
<1>7. BroughtInv' /\ AwaitInv'
  BY <1>2, <1>5, TableKept DEF Awaited
<1>8. LastInv' /\ KernelInv' /\ FreeUnread'
  BY <1>2, <1>3, QueuesKept
<1>9. HotType'
  BY <1>2, <1>3 DEF HotType
<1>10. OrderInv' /\ StageInv'
  BY <1>2 DEF OrderInv, StageInv, Submitted
<1>11. WantInv'
  <2>1. \A i \in DOMAIN want : want[i] # v /\ want[i] \in Expert
    BY <1>4 DEF Protected, ToSet, HotType
  <2>2. \A i \in DOMAIN want : inflight'[want[i]] = Nil
    BY <1>2, <1>3, <2>1 DEF WantInv, HotType
  <2>3. \A i \in DOMAIN want : want[i] \in Resident'
    BY <1>2, <1>6, <2>1 DEF WantInv
  <2>4. QED
    BY <1>2, <2>2, <2>3 DEF WantInv
<1>12. QED
  BY <1>7, <1>8, <1>9, <1>10, <1>11

LEMMA ReturnKeeps ==
  ASSUME HotInv, SlotsInv', EnsureReturns
  PROVE  HotInv'
<1> USE DEF HotInv
<1>1. /\ pc = "miss" /\ pc' = "submit" /\ misses = {} /\ awaits' = {}
      /\ WaitFor(AwaitedMisses)
      /\ UNCHANGED <<free, slotOf, inflight, stageI, stageBusy, stageEv, stageHolds,
                     readEv, want, misses, copies, copied, kernels, ran, begun, holds>>
  BY DEF EnsureReturns, staging, ring, copyq
<1>2. PICK m \in AwaitedMisses \cup {waits} :
        (\A q \in AwaitedMisses \cup {waits} : q <= m) /\ waits' = m
  BY <1>1 DEF WaitFor
<1>3. \A a \in awaits : a.no \in Nat /\ a.no \in AwaitedMisses
  BY DEF HotType, AwaitedMisses
<1>4. waits \in Nat /\ waits' \in Nat /\ waits <= waits' /\ \A a \in awaits : a.no <= waits'
  BY <1>2, <1>3 DEF HotType, AwaitedMisses
<1>5. ASSUME NEW x \in Resident', NEW n \in Nat, Awaited(x, n)
      PROVE  Awaited(x, n)'
  <2>1. CASE n <= waits
    BY <1>4, <2>1 DEF Awaited
  <2>2. CASE \E a \in awaits : a.expert = x /\ n <= a.no
    BY <1>3, <1>4, <2>2 DEF Awaited
  <2>3. QED
    BY <1>1, <1>5, <2>1, <2>2 DEF Awaited
<1>6. BroughtInv' /\ AwaitInv'
  <2>1. Resident' = Resident
    BY <1>1 DEF Resident
  <2>2. QED
    BY <1>1, <1>5, <2>1, TableKept
<1>7. LastInv' /\ KernelInv' /\ FreeUnread'
  BY <1>1, QueuesKept
<1>8. HotType'
  BY <1>1, <1>4 DEF HotType
<1>9. OrderInv' /\ StageInv' /\ WantInv'
  BY <1>1 DEF OrderInv, StageInv, Submitted, WantInv, Resident
<1>10. QED
  BY <1>6, <1>7, <1>8, <1>9

(* The kernel submitted is the last; what it reads is on its way, and it   *)
(* waits for it.                                                           *)
LEMMA SubmitKernel ==
  ASSUME HotInv, Submit
  PROVE  kernels' \in Seq(Kernel) /\ KernelInv' /\ FreeUnread'
<1> USE DEF HotInv
<1>1. PICK n, l : n = Len(copies) /\ l = Len(kernels)
  OBVIOUS
<1>2. PICK q : q = [reads |-> {<<slotOf[e], e>> : e \in ToSet(want)}, after |-> waits]
  OBVIOUS
<1>3. /\ pc = "submit" /\ kernels' = Append(kernels, q)
      /\ UNCHANGED <<copies, copied, ran, holds, free>>
  BY <1>2 DEF Submit, copyq, pool
<1>4. \A e \in ToSet(want) : e \in Resident /\ slotOf[e] \in Slot /\ e \in Expert
                             /\ inflight[e] = Nil
  BY <1>3 DEF WantInv, ToSet, Resident, SlotsInv
<1>5. q \in Kernel
  BY <1>2, <1>4 DEF Kernel, HotType
<1>6. kernels \in Seq(Kernel) /\ l \in Nat
  BY <1>1 DEF HotType
<1>7. /\ kernels' \in Seq(Kernel) /\ Len(kernels') = l + 1
      /\ \A k \in 1..l : kernels'[k] = kernels[k]
      /\ kernels'[l + 1] = q
      /\ \A k \in 1..Len(kernels') : k \in 1..l \/ k = l + 1
  BY <1>1, <1>3, <1>5, <1>6
<1>8. /\ \A i, s : To(i, s)' <=> To(i, s)
      /\ \A i, s, k : Early(i, s, k)' <=> Early(i, s, k)
  BY <1>3 DEF Early, To
<1>9. \A i, s, k : IsLastEarly(i, s, k)' <=> IsLastEarly(i, s, k)
  BY <1>3, <1>8 DEF IsLastEarly
<1>10. \A i \in 1..n : copies[i].after < ran + (l + 1)
  <2>1. \A i \in 1..n : copies[i].after <= readEv /\ copies[i] \in Copy
    BY <1>1 DEF OrderInv, HotType
  <2>2. readEv <= ran + l
    BY <1>1 DEF OrderInv, Submitted
  <2>3. readEv \in Nat /\ ran \in Nat
    BY DEF HotType
  <2>4. QED
    BY <1>6, <2>1, <2>2, <2>3 DEF Copy
<1>11. \A i \in 1..n : \A s : Early(i, s, l + 1) <=> To(i, s)
  BY <1>10 DEF Early
<1>12. \A i \in 1..n : \A s : IsLastEarly(i, s, l + 1) <=> IsLastTo(i, s)
  BY <1>1, <1>11 DEF IsLastEarly, IsLastTo
<1>13. ASSUME NEW e \in ToSet(want), NEW s, s = slotOf[e]
       PROVE  /\ \A i \in 1..n : Early(i, s, l + 1) => copied + i <= waits
              /\ \A i \in 1..n : IsLastEarly(i, s, l + 1) => copies[i].expert = e
              /\ (\A i \in 1..n : ~Early(i, s, l + 1)) => holds[s] = e
  <2>1. e \in Resident /\ inflight[e] = Nil /\ awaits = {}
    BY <1>3, <1>4 DEF WantInv
  <2>2. /\ \A i \in 1..n : IsLastTo(i, s) => copies[i].expert = e
        /\ (\A i \in 1..n : ~To(i, s)) => holds[s] = e
    BY <1>1, <1>3, <1>13, <2>1 DEF BroughtInv
  <2>3. \A i \in 1..n : To(i, s) => copied + i <= waits
    BY <1>1, <1>3, <1>13, <2>1 DEF AwaitInv, Awaited
  <2>4. QED
    BY <1>11, <1>12, <2>2, <2>3
<1>14. ASSUME NEW k \in 1..Len(kernels'), NEW r \in kernels'[k].reads,
              NEW s, s = r[1]
       PROVE  /\ \A i \in 1..Len(copies') : Early(i, s, k)' => copied' + i <= kernels'[k].after
              /\ \A i \in 1..Len(copies') : IsLastEarly(i, s, k)' => copies'[i].expert = r[2]
              /\ (\A i \in 1..Len(copies') : ~Early(i, s, k)') => holds'[s] = r[2]
              /\ s \notin ToSet(free')
  <2>1. CASE k \in 1..l
    <3>1. k \in 1..Len(kernels) /\ r \in kernels[k].reads /\ kernels'[k] = kernels[k]
      BY <1>1, <1>7, <1>14, <2>1
    <3>2. /\ \A i \in 1..n : Early(i, s, k) => copied + i <= kernels[k].after
          /\ \A i \in 1..n : IsLastEarly(i, s, k) => copies[i].expert = r[2]
          /\ (\A i \in 1..n : ~Early(i, s, k)) => holds[s] = r[2]
      BY <1>1, <1>14, <3>1 DEF KernelInv
    <3>3. s \notin ToSet(free)
      BY <1>14, <3>1 DEF FreeUnread
    <3>4. QED
      BY <1>1, <1>3, <1>8, <1>9, <3>1, <3>2, <3>3
  <2>2. CASE k = l + 1
    <3>1. PICK e \in ToSet(want) : r = <<slotOf[e], e>>
      BY <1>2, <1>7, <1>14, <2>2
    <3>2. s = slotOf[e] /\ r[2] = e /\ kernels'[k].after = waits
      BY <1>2, <1>7, <1>14, <2>2, <3>1
    <3>3. s \notin ToSet(free)
      BY <1>4, <3>2 DEF SlotsInv, OneExpertPerSlot
    <3>4. QED
      BY <1>1, <1>3, <1>8, <1>9, <1>13, <2>2, <3>2, <3>3
  <2>3. QED
    BY <1>7, <2>1, <2>2
<1>15. KernelInv' /\ FreeUnread'
  BY <1>14 DEF KernelInv, FreeUnread
<1>16. QED
  BY <1>7, <1>15

LEMMA SubmitKeeps ==
  ASSUME HotInv, SlotsInv', Submit
  PROVE  HotInv'
<1> USE DEF HotInv
<1>1. kernels' \in Seq(Kernel) /\ KernelInv' /\ FreeUnread'
  BY SubmitKernel
<1>2. /\ pc = "submit" /\ pc' = "mark"
      /\ UNCHANGED <<slotOf, inflight, stageI, stageBusy, stageEv, stageHolds, readEv,
                     want, misses, awaits, copies, copied, ran, waits, begun, holds>>
  BY DEF Submit, pool, staging, ring, copyq
<1>3. PICK q \in Kernel : kernels' = Append(kernels, q)
  <2>1. PICK q : q = [reads |-> {<<slotOf[e], e>> : e \in ToSet(want)}, after |-> waits]
    OBVIOUS
  <2>2. \A e \in ToSet(want) : slotOf[e] \in Slot /\ e \in Expert
    BY <1>2 DEF WantInv, ToSet, Resident, SlotsInv
  <2>3. q \in Kernel
    BY <2>1, <2>2 DEF Kernel, HotType
  <2>4. QED
    BY <2>1, <2>3 DEF Submit
<1>4. /\ Len(kernels') = Len(kernels) + 1 /\ kernels' # <<>>
      /\ kernels # <<>> => kernels'[1] = kernels[1]
      /\ Len(kernels) \in Nat
  BY <1>3 DEF HotType
<1>5. HotType'
  BY <1>1, <1>2 DEF HotType
<1>6. BroughtInv' /\ AwaitInv'
  <2>1. Resident' = Resident
    BY <1>2 DEF Resident
  <2>2. QED
    BY <1>2, <2>1, TableKept DEF Awaited
<1>7. LastInv'
  BY <1>2 DEF LastInv, IsLastTo, To
<1>8. OrderInv'
  <2>1. readEv <= ran + Len(kernels) /\ readEv \in Nat /\ ran \in Nat
    BY DEF OrderInv, Submitted, HotType
  <2>2. readEv' <= Submitted'
    BY <1>2, <1>4, <2>1 DEF Submitted
  <2>3. QED
    BY <1>2, <1>4, <2>2 DEF OrderInv
<1>9. StageInv' /\ WantInv'
  BY <1>2 DEF StageInv, WantInv
<1>10. QED
  BY <1>1, <1>5, <1>6, <1>7, <1>8, <1>9

LEMMA MarkKeeps ==
  ASSUME HotInv, SlotsInv', MarkSubmitted
  PROVE  HotInv'
<1> USE DEF HotInv
<1>1. /\ pc = "mark" /\ pc' = "idle" /\ want' = <<>> /\ readEv' = Submitted
      /\ UNCHANGED <<free, slotOf, inflight, stageI, stageBusy, stageEv, stageHolds,
                     misses, awaits, copies, copied, kernels, ran, waits, begun, holds>>
  BY DEF MarkSubmitted, pool, staging, ring, copyq, compute
<1>2. Submitted \in Nat /\ Submitted' = Submitted
  BY <1>1 DEF Submitted, HotType
<1>3. misses = {}
  BY <1>1 DEF WantInv
<1>4. HotType'
  BY <1>1, <1>2, <1>3 DEF HotType
<1>5. BroughtInv' /\ AwaitInv'
  <2>1. Resident' = Resident
    BY <1>1 DEF Resident
  <2>2. QED
    BY <1>1, <2>1, TableKept DEF Awaited
<1>6. LastInv' /\ KernelInv' /\ FreeUnread'
  BY <1>1, QueuesKept
<1>7. OrderInv'
  <2>1. \A i \in 1..Len(copies) : copies[i] \in Copy /\ copies[i].after <= readEv
    BY DEF OrderInv, HotType
  <2>2. \A i \in 1..Len(copies) : copies[i].after <= readEv'
    BY <1>1, <1>2, <2>1 DEF OrderInv, HotType, Copy
  <2>3. QED
    BY <1>1, <1>2, <2>2 DEF OrderInv
<1>8. StageInv' /\ WantInv'
  BY <1>1 DEF StageInv, WantInv
<1>9. QED
  BY <1>4, <1>5, <1>6, <1>7, <1>8

LEMMA PreloadKeeps ==
  ASSUME HotInv, SlotsInv', NEW e \in Expert, Preload(e)
  PROVE  HotInv'
<1> USE DEF HotInv
<1>1. PICK s : s = Head(free)
  OBVIOUS
<1>2. /\ pc = "idle" /\ free # <<>> /\ slotOf[e] = Nil /\ copies = <<>> /\ kernels = <<>>
      /\ free' = Tail(free) /\ slotOf' = [slotOf EXCEPT ![e] = s]
      /\ holds' = [holds EXCEPT ![s] = e]
      /\ UNCHANGED <<inflight, stageI, stageBusy, stageEv, stageHolds, readEv, pc, want,
                     misses, awaits, copies, copied, kernels, ran, waits, begun>>
  BY <1>1 DEF Preload, staging, ring, step, copyq, compute
<1>3. s \in Slot
  BY <1>1, <1>2, TakeFree DEF SlotsInv
<1>4. Len(copies') = 0 /\ Len(kernels') = 0
  BY <1>2
<1>5. HotType'
  BY <1>2, <1>3 DEF HotType
<1>6. OrderInv' /\ WantInv'
  BY <1>2 DEF OrderInv, WantInv, Submitted
<1>7. StageInv' /\ FreeUnread' /\ LastInv' /\ KernelInv' /\ AwaitInv'
  BY <1>4 DEF StageInv, FreeUnread, LastInv, KernelInv, AwaitInv
<1>8. ASSUME NEW x \in Resident'
      PROVE  holds'[slotOf'[x]] = x
  <2>1. slotOf'[e] = s /\ e \in Resident'
    BY <1>2, <1>3, HotTierAssumption DEF SlotsInv, Slot, Resident
  <2>2. CASE x = e
    BY <1>2, <1>3, <2>1, <2>2 DEF HotType
  <2>3. CASE x # e
    <3>1. x \in Resident /\ slotOf'[x] = slotOf[x] /\ slotOf[x] \in Slot
      BY <1>2, <2>3 DEF Resident, SlotsInv
    <3>2. slotOf'[x] # s
      BY <2>1, <2>3 DEF SlotsInv, OneExpertPerSlot
    <3>3. holds[slotOf[x]] = x
      BY <1>2, <3>1 DEF BroughtInv
    <3>4. QED
      BY <1>2, <1>3, <3>1, <3>2, <3>3 DEF HotType
  <2>4. QED
    BY <2>2, <2>3
<1>9. BroughtInv'
  BY <1>4, <1>8 DEF BroughtInv
<1>10. QED
  BY <1>5, <1>6, <1>7, <1>9

(* A prefetch that finds its expert resident changes the order in lru only.*)
LEMMA TouchKeeps ==
  ASSUME HotInv, SlotsInv',
         UNCHANGED <<free, slotOf, inflight, ring, readEv, step, copyq, compute, holds>>
  PROVE  HotInv'
<1> USE DEF HotInv
<1>1. UNCHANGED <<free, slotOf, inflight, stageI, stageBusy, stageEv, stageHolds,
                  readEv, pc, want, misses, awaits, copies, copied, kernels, ran,
                  waits, begun, holds>>
  BY DEF ring, step, copyq, compute
<1>2. LastInv' /\ KernelInv' /\ FreeUnread'
  BY <1>1, QueuesKept
<1>3. BroughtInv' /\ AwaitInv'
  <2>1. Resident' = Resident
    BY <1>1 DEF Resident
  <2>2. QED
    BY <1>1, <2>1, TableKept DEF Awaited
<1>4. HotType' /\ OrderInv' /\ StageInv'
  BY <1>1 DEF HotType, OrderInv, StageInv, Submitted
<1>5. WantInv'
  BY <1>1 DEF WantInv, Resident
<1>6. QED
  BY <1>2, <1>3, <1>4, <1>5

LEMMA PrefetchKeeps ==
  ASSUME HotInv, SlotsInv', NEW e \in Expert, Prefetch(e)
  PROVE  HotInv'
<1> USE DEF HotInv
<1>1. /\ pc \in {"idle", "submit", "mark"}
      /\ UNCHANGED <<readEv, want, misses, awaits, kernels, ran, waits, begun, holds>>
  BY DEF Prefetch, compute
<1>2. CASE UNCHANGED <<free, slotOf, copying, inflight, staging, copyq, pc>>
  BY <1>1, <1>2, TouchKeeps DEF staging, step, compute
<1>3. ASSUME slotOf[e] = Nil, free # <<>>, free' = Tail(free), Enter(e, Head(free), Nil)
      PROVE  /\ Head(free) \in Slot /\ Head(free) \in ToSet(free)
             /\ ToSet(free') \subseteq ToSet(free)
             /\ (\A x \in Expert : x # e => inflight'[x] = inflight[x])
                  => Entered(e, Head(free)) /\ \A x \in Resident : x \in Resident'
  <2>1. /\ Head(free) \in Slot /\ Head(free) \in ToSet(free)
        /\ ToSet(free') \subseteq ToSet(free)
    BY <1>3, TakeFree DEF SlotsInv
  <2>2. Nil \notin Resident
    BY HotTierAssumption DEF Resident
  <2>3. QED
    BY <1>3, <2>1, <2>2, TableEntered
<1>4. CASE /\ slotOf[e] = Nil /\ free # <<>>
           /\ free' = Tail(free) /\ Enter(e, Head(free), Nil)
           /\ StartCopy(e, Head(free)) /\ pc' = pc
           /\ inflight' = [inflight EXCEPT ![e] = IssuedCopies + 1]
  <2>1. PICK s : s = Head(free)
    OBVIOUS
  <2>2. IssuedCopies \in Nat
    BY DEF IssuedCopies, HotType
  <2>3. /\ inflight' \in [Expert -> Nat \cup {Nil}]
        /\ \A x \in Expert : x # e => inflight'[x] = inflight[x]
        /\ inflight'[e] = IssuedCopies + 1 /\ inflight'[e] # Nil
    BY <1>4, <2>2, HotTierAssumption DEF HotType
  <2>4. s \in Slot /\ s \in ToSet(free) /\ Entered(e, s) /\ \A x \in Resident : x \in Resident'
    BY <1>3, <1>4, <2>1, <2>3
  <2>5. \A k \in 1..Len(kernels) : \A r \in kernels[k].reads : r[1] = s => ran + k <= readEv
    BY <2>4 DEF FreeUnread
  <2>6. \A m \in Nat : m <= IssuedCopies + 1 => Awaited(e, m)'
    BY <2>3 DEF Awaited
  <2>7. \A x \in Resident', m \in Nat : x # e /\ Awaited(x, m) => Awaited(x, m)'
    BY <1>1, <2>4 DEF Awaited, Entered
  <2>8. pc' = pc /\ pc # "raised" /\ StartCopy(e, s)
    BY <1>1, <1>4, <2>1
  <2>9. /\ StageInv' /\ LastInv' /\ BroughtInv' /\ AwaitInv' /\ KernelInv'
        /\ FreeUnread' /\ OrderInv'
        /\ copies' \in Seq(Copy) /\ copied' = copied
        /\ stageI' \in Stage /\ stageBusy' \in [Stage -> BOOLEAN]
        /\ stageEv' \in [Stage -> Nat] /\ stageHolds' \in [Stage -> Expert \cup {Nil}]
    BY <1>1, <2>4, <2>5, <2>6, <2>7, <2>8, CopyKeeps
  <2>10. HotType'
    BY <1>1, <2>3, <2>8, <2>9 DEF HotType
  <2>11. WantInv'
    <3>1. pc = "submit" => \A i \in DOMAIN want : want[i] \in Resident /\ want[i] # e
      BY <1>4 DEF WantInv, Resident
    <3>2. \A i \in DOMAIN want : want[i] \in Expert
      BY DEF HotType
    <3>3. pc = "submit" => \A i \in DOMAIN want : /\ want[i] \in Resident'
                                                  /\ inflight'[want[i]] = Nil
      BY <2>3, <2>4, <3>1, <3>2 DEF WantInv
    <3>4. QED
      BY <1>1, <2>8, <3>3 DEF WantInv
  <2>12. QED
    BY <2>9, <2>10, <2>11
<1>5. CASE /\ slotOf[e] = Nil /\ free # <<>>
           /\ free' = Tail(free) /\ Enter(e, Head(free), Nil)
           /\ CopyRaises /\ pc' = "raised" /\ UNCHANGED inflight
  <2>1. ToSet(free') \subseteq ToSet(free)
    BY <1>3, <1>5
  <2>2. inflight' \in [Expert -> Nat \cup {Nil}]
    BY <1>5 DEF HotType
  <2>3. QED
    BY <1>1, <1>5, <2>1, <2>2, RaiseKeeps DEF compute
<1>6. QED
  BY <1>2, <1>4, <1>5 DEF Prefetch

LEMMA CopiedKeeps ==
  ASSUME HotInv, SlotsInv', Copied
  PROVE  HotInv'
<1> USE DEF HotInv
<1>1. PICK n : n = Len(copies)
  OBVIOUS
<1>2. /\ copies # <<>> /\ copies' = Tail(copies) /\ copied' = copied + 1
      /\ holds' = [holds EXCEPT ![copies[1].slot] = copies[1].expert]
      /\ UNCHANGED <<free, slotOf, inflight, stageI, stageBusy, stageEv, stageHolds,
                     readEv, pc, want, misses, awaits, kernels, ran, waits, begun>>
  BY CopyLands DEF Copied, pool, staging, ring, step, compute
<1>3. /\ copies' \in Seq(Copy) /\ n \in Nat \ {0} /\ Len(copies') = n - 1
      /\ \A i \in 1..n : copies[i] \in Copy
      /\ \A i \in 1..n - 1 : i + 1 \in 1..n /\ copies'[i] = copies[i + 1]
      /\ 1 \in 1..n
  BY <1>1, <1>2, CopyDone
<1>4. LastInv' /\ BroughtInv' /\ AwaitInv' /\ StageInv'
  BY TableCopied
<1>5. KernelInv'
  BY KernelCopied
<1>6. HotType'
  <2>1. copies[1].slot \in Slot /\ copies[1].expert \in Expert
    BY <1>3 DEF Copy
  <2>2. copied' \in Nat /\ holds' \in [Slot -> Expert \cup {Nil}]
    BY <1>2, <2>1 DEF HotType
  <2>3. QED
    BY <1>2, <1>3, <2>2 DEF HotType
<1>7. FreeUnread' /\ WantInv'
  BY <1>2 DEF FreeUnread, WantInv, Resident
<1>8. OrderInv'
  <2>1. \A i \in 1..Len(copies') : copies'[i].after <= readEv
    BY <1>1, <1>3 DEF OrderInv
  <2>2. begun => kernels # <<>> /\ kernels[1] \in Kernel /\ kernels[1].after <= copied
    BY DEF OrderInv, HotType
  <2>3. begun => kernels[1].after <= copied'
    BY <1>2, <2>2 DEF HotType, Kernel
  <2>4. QED
    BY <1>2, <2>1, <2>2, <2>3 DEF OrderInv, Submitted
<1>9. QED
  BY <1>4, <1>5, <1>6, <1>7, <1>8

LEMMA BeginKeeps ==
  ASSUME HotInv, SlotsInv', KernelBegins
  PROVE  HotInv'
<1> USE DEF HotInv
<1>1. /\ kernels # <<>> /\ Head(kernels).after <= copied /\ begun' = TRUE
      /\ UNCHANGED <<free, slotOf, inflight, stageI, stageBusy, stageEv, stageHolds,
                     readEv, pc, want, misses, awaits, copies, copied, kernels, ran,
                     waits, holds>>
  BY DEF KernelBegins, pool, staging, ring, step, copyq
<1>2. kernels[1].after <= copied
  BY <1>1 DEF HotType
<1>3. LastInv' /\ KernelInv' /\ FreeUnread'
  BY <1>1, QueuesKept
<1>4. BroughtInv' /\ AwaitInv'
  <2>1. Resident' = Resident
    BY <1>1 DEF Resident
  <2>2. QED
    BY <1>1, <2>1, TableKept DEF Awaited
<1>5. HotType' /\ StageInv'
  BY <1>1 DEF HotType, StageInv
<1>6. OrderInv' /\ WantInv'
  BY <1>1, <1>2 DEF OrderInv, Submitted, WantInv, Resident
<1>7. QED
  BY <1>3, <1>4, <1>5, <1>6

(* The kernels behind the one that ends keep their numbers.                *)
LEMMA EndKeeps ==
  ASSUME HotInv, SlotsInv', KernelEnds
  PROVE  HotInv'
<1> USE DEF HotInv
<1>1. PICK l : l = Len(kernels)
  OBVIOUS
<1>2. /\ begun /\ begun' = FALSE /\ kernels' = Tail(kernels) /\ ran' = ran + 1
      /\ UNCHANGED <<free, slotOf, inflight, stageI, stageBusy, stageEv, stageHolds,
                     readEv, pc, want, misses, awaits, copies, copied, waits, holds>>
  BY DEF KernelEnds, pool, staging, ring, step, copyq
<1>3. kernels # <<>> /\ kernels \in Seq(Kernel) /\ ran \in Nat
  BY <1>2 DEF OrderInv, HotType
<1>4. /\ kernels' \in Seq(Kernel) /\ l \in Nat \ {0} /\ Len(kernels') = l - 1
      /\ \A k \in 1..l - 1 : k + 1 \in 1..l /\ kernels'[k] = kernels[k + 1]
      /\ \A k \in 1..l - 1 : ran' + k = ran + (k + 1)
  BY <1>1, <1>2, <1>3
<1>5. HotType'
  <2>1. ran' \in Nat
    BY <1>2, <1>3
  <2>2. QED
    BY <1>2, <1>4, <2>1 DEF HotType
<1>6. Submitted' = Submitted
  BY <1>1, <1>2, <1>3, <1>4 DEF Submitted
<1>7. OrderInv'
  BY <1>2, <1>6 DEF OrderInv
<1>8. BroughtInv' /\ AwaitInv'
  <2>1. Resident' = Resident
    BY <1>2 DEF Resident
  <2>2. QED
    BY <1>2, <2>1, TableKept DEF Awaited
<1>9. LastInv' /\ StageInv' /\ WantInv'
  BY <1>2 DEF LastInv, IsLastTo, To, StageInv, WantInv, Resident
<1>10. FreeUnread'
  BY <1>1, <1>2, <1>4 DEF FreeUnread
<1>11. ASSUME NEW k \in 1..l - 1
       PROVE  /\ \A i, s : Early(i, s, k)' <=> Early(i, s, k + 1)
              /\ \A i, s : IsLastEarly(i, s, k)' <=> IsLastEarly(i, s, k + 1)
  <2>1. \A i, s : Early(i, s, k)' <=> Early(i, s, k + 1)
    BY <1>2, <1>4 DEF Early, To
  <2>2. QED
    BY <1>2, <2>1 DEF IsLastEarly
<1>12. ASSUME NEW k \in 1..Len(kernels'), NEW r \in kernels'[k].reads,
              NEW s, s = r[1]
       PROVE  /\ \A i \in 1..Len(copies') : Early(i, s, k)' => copied' + i <= kernels'[k].after
              /\ \A i \in 1..Len(copies') : IsLastEarly(i, s, k)' => copies'[i].expert = r[2]
              /\ (\A i \in 1..Len(copies') : ~Early(i, s, k)') => holds'[s] = r[2]
  <2>1. k \in 1..l - 1 /\ k + 1 \in 1..l /\ kernels'[k] = kernels[k + 1]
    BY <1>4
  <2>2. /\ \A i \in 1..Len(copies) : Early(i, s, k + 1) => copied + i <= kernels[k + 1].after
        /\ \A i \in 1..Len(copies) : IsLastEarly(i, s, k + 1) => copies[i].expert = r[2]
        /\ (\A i \in 1..Len(copies) : ~Early(i, s, k + 1)) => holds[s] = r[2]
    BY <1>1, <1>12, <2>1 DEF KernelInv
  <2>3. QED
    BY <1>2, <1>11, <2>1, <2>2
<1>13. KernelInv'
  BY <1>12 DEF KernelInv
<1>14. QED
  BY <1>5, <1>7, <1>8, <1>9, <1>10, <1>13

(* An empty tier.                                                          *)
LEMMA HotInit == Init => HotInv
<1> SUFFICES ASSUME Init PROVE HotInv
  OBVIOUS
<1>1. NSlots \in Nat /\ Stages \in Nat \ {0}
  BY HotTierAssumption
<1>2. HotType
  <2>1. /\ copies \in Seq(Copy) /\ copied = 0 /\ kernels \in Seq(Kernel) /\ ran = 0
        /\ waits = 0 /\ readEv = 0 /\ want \in Seq(Expert) /\ misses = {}
        /\ awaits = {} /\ pc = "idle" /\ begun = FALSE
    BY DEF Init
  <2>2. inflight \in [Expert -> Nat \cup {Nil}] /\ holds \in [Slot -> Expert \cup {Nil}]
    BY DEF Init
  <2>3. /\ stageI \in Stage /\ stageBusy \in [Stage -> BOOLEAN]
        /\ stageEv \in [Stage -> Nat] /\ stageHolds \in [Stage -> Expert \cup {Nil}]
    BY <1>1 DEF Init, Stage
  <2>4. QED
    BY <2>1, <2>2, <2>3 DEF HotType
<1>3. Len(copies) = 0 /\ Len(kernels) = 0
  BY DEF Init
<1>4. Resident = {}
  BY DEF Init, Resident
<1>5. SlotsInv
  BY SlotsInit
<1>6. OrderInv /\ WantInv
  BY <1>3 DEF Init, OrderInv, Submitted, WantInv
<1>7. StageInv /\ FreeUnread /\ LastInv /\ KernelInv /\ BroughtInv /\ AwaitInv
  BY <1>3, <1>4 DEF StageInv, FreeUnread, LastInv, KernelInv, BroughtInv, AwaitInv
<1>8. QED
  BY <1>2, <1>5, <1>6, <1>7 DEF HotInv

(* Every step of the host and of the two streams.                          *)
LEMMA HotStep == HotInv /\ [Next]_vars => HotInv'
<1> SUFFICES ASSUME HotInv, [Next]_vars PROVE HotInv'
  OBVIOUS
<1>1. SlotsInv'
  BY SlotsStep DEF HotInv
<1>2. ASSUME NEW w \in Wants, Ensure(w) PROVE HotInv'
  BY <1>1, <1>2, EnsureKeeps
<1>3. CASE Host
  BY <1>1, <1>3, MissKeeps, MissRaisesKeeps, ShedKeeps, ReturnKeeps, SubmitKeeps,
     MarkKeeps DEF Host
<1>4. ASSUME NEW e \in Expert, Preload(e) PROVE HotInv'
  BY <1>1, <1>4, PreloadKeeps
<1>5. ASSUME NEW e \in Expert, Prefetch(e) PROVE HotInv'
  BY <1>1, <1>5, PrefetchKeeps
<1>6. CASE LoadWarm
  BY <1>1, <1>6, TouchKeeps DEF LoadWarm, pool
<1>7. CASE Device
  BY <1>1, <1>7, CopiedKeeps, BeginKeeps, EndKeeps DEF Device
<1>8. CASE UNCHANGED vars
  BY <1>1, <1>8, TouchKeeps DEF vars, pool, staging
<1>9. QED
  BY <1>2, <1>3, <1>4, <1>5, <1>6, <1>7, <1>8 DEF Next

(* The invariant holds in every behaviour.                                 *)
LEMMA HotAlways == Spec => []HotInv
<1>1. QED
  BY HotInit, HotStep, PTL DEF Spec

(* For as long as a kernel runs, every slot it reads holds the expert the  *)
(* router chose: whatever was prefetched, shed, evicted or read into a     *)
(* staging buffer meanwhile, and whatever the two streams' speeds.         *)
THEOREM KernelsReadWhatTheRouterChose == Spec => []KernelReadsItsExperts
<1>1. HotInv => KernelReadsItsExperts
  <2> SUFFICES ASSUME HotInv, begun, NEW r \in Head(kernels).reads
               PROVE  holds[r[1]] = r[2]
    BY DEF KernelReadsItsExperts
  <2> USE DEF HotInv
  <2>1. /\ kernels # <<>> /\ kernels \in Seq(Kernel) /\ kernels[1].after <= copied
        /\ copies \in Seq(Copy) /\ copied \in Nat
    BY DEF OrderInv, HotType
  <2>2. Head(kernels) = kernels[1] /\ 1 \in 1..Len(kernels) /\ kernels[1].after \in Nat
    <3>1. Head(kernels) = kernels[1] /\ 1 \in 1..Len(kernels) /\ kernels[1] \in Kernel
      BY <2>1
    <3>2. QED
      BY <3>1 DEF Kernel
  <2>3. \A i \in 1..Len(copies) : ~(copied + i <= kernels[1].after)
    BY <2>1, <2>2
  <2>4. QED
    BY <2>2, <2>3 DEF KernelInv
<1>2. QED
  BY <1>1, HotAlways, PTL

(* Until a read fails, an expert the table has in a slot is in it or on    *)
(* its way there in the last copy to that slot.                            *)
THEOREM ResidentsAreComing == Spec => []ResidentIsComing
<1>1. HotInv => ResidentIsComing
  <2> SUFFICES ASSUME HotInv, pc # "raised", NEW e \in Resident
               PROVE  Coming(slotOf[e]) = e
    BY DEF ResidentIsComing
  <2> USE DEF HotInv
  <2> DEFINE to == {i \in DOMAIN copies : copies[i].slot = slotOf[e]}
             m  == CHOOSE i \in to : \A j \in to : j <= i
  <2>1. DOMAIN copies = 1..Len(copies)
    BY DEF HotType
  <2>2. CASE to = {}
    <3>1. holds[slotOf[e]] = e
      BY <2>1, <2>2 DEF BroughtInv, To
    <3>2. QED
      BY <2>2, <3>1 DEF Coming
  <2>3. CASE to # {}
    <3>1. PICK i \in 1..Len(copies) : IsLastTo(i, slotOf[e])
      BY <2>1, <2>3 DEF LastInv
    <3>2. m \in to /\ \A j \in to : j <= m
      BY <2>1, <3>1 DEF IsLastTo, To
    <3>3. m \in 1..Len(copies) /\ IsLastTo(m, slotOf[e])
      BY <2>1, <3>2 DEF IsLastTo, To
    <3>4. copies[m].expert = e
      BY <3>3 DEF BroughtInv
    <3>5. copies[m].stage # Nil => stageHolds[copies[m].stage] = e
      BY <3>3, <3>4 DEF StageInv
    <3>6. QED
      BY <2>3, <3>4, <3>5 DEF Coming
  <2>4. QED
    BY <2>2, <2>3
<1>2. QED
  BY <1>1, HotAlways, PTL
-----------------------------------------------------------------------------
(* The types, with the recency list among them.                            *)

(* The places in I, counted from the first: there is an n-th, and every    *)
(* place has its number.                                                   *)
LEMMA PlacesCounted ==
  ASSUME NEW m \in Nat, NEW I \in SUBSET (1..m)
  PROVE  /\ IsFiniteSet(I) /\ Cardinality(I) \in Nat
         /\ \A n \in 1..Cardinality(I) :
              Place(I, n) \in I /\ Cardinality({j \in I : j <= Place(I, n)}) = n
         /\ \A i \in I : \E n \in 1..Cardinality(I) : Place(I, n) = i
<1> DEFINE upTo(i) == {j \in I : j <= i}
           rank == [i \in I |-> Cardinality(upTo(i))]
<1>1. IsFiniteSet(I)
  BY FS_Interval, FS_Subset, m \in Int, 1 \in Int
<1>2. PICK c \in Nat : c = Cardinality(I)
  BY <1>1, FS_CardinalityType
<1>3. ASSUME NEW i \in I
      PROVE  IsFiniteSet(upTo(i)) /\ Cardinality(upTo(i)) \in 1..c
  <2>1. upTo(i) \subseteq I /\ i \in upTo(i)
    OBVIOUS
  <2> HIDE DEF upTo
  <2>2. /\ IsFiniteSet(upTo(i)) /\ Cardinality(upTo(i)) <= c
        /\ Cardinality(upTo(i)) \in Nat
    BY <2>1, <1>1, <1>2, FS_Subset, FS_CardinalityType
  <2>3. Cardinality(upTo(i)) # 0
    BY <2>1, <2>2, FS_EmptySet
  <2>4. QED
    BY <2>2, <2>3
<1>4. ASSUME NEW i \in I, NEW k \in I, i < k
      PROVE  Cardinality(upTo(i)) # Cardinality(upTo(k))
  <2>i. I \subseteq Int /\ i \in Int /\ k \in Int
    OBVIOUS
  <2>s. \A j \in I : j <= i => j <= k
    BY <1>4, <2>i
  <2>k. k <= k /\ ~ (k <= i)
    BY <1>4, <2>i
  <2>1. upTo(i) \subseteq upTo(k) /\ k \in upTo(k) /\ k \notin upTo(i)
    BY <2>s, <2>k
  <2> HIDE DEF upTo
  <2>2. QED
    BY <2>1, <1>3, FS_Subset
<1>5. \A i \in I, k \in I : Cardinality(upTo(i)) = Cardinality(upTo(k)) => i = k
  <2> SUFFICES ASSUME NEW i \in I, NEW k \in I, Cardinality(upTo(i)) = Cardinality(upTo(k))
               PROVE  i = k
    OBVIOUS
  <2>1. i = k \/ i < k \/ k < i
    OBVIOUS
  <2> HIDE DEF upTo
  <2>2. ~ (i < k) /\ ~ (k < i)
    BY <1>4
  <2>3. QED
    BY <2>1, <2>2
<1>6. rank \in [I -> 1..c] /\ \A i \in I : rank[i] = Cardinality(upTo(i))
  BY <1>3
<1> HIDE DEF rank
<1>7. rank \in Injection(I, 1..c)
  <2>1. \A a, b \in DOMAIN rank : rank[a] = rank[b] => a = b
    BY <1>5, <1>6
  <2>2. QED
    BY <2>1, <1>6 DEF Injection, IsInjective
<1>8. IsFiniteSet(1..c) /\ Cardinality(1..c) = c
  <2>1. IsFiniteSet(1..c) /\ Cardinality(1..c) = IF 1 > c THEN 0 ELSE c - 1 + 1
    BY FS_Interval, c \in Int, 1 \in Int
  <2>2. QED
    BY <2>1
<1>9. \A n \in 1..c : \E i \in I : rank[i] = n
  <2>1. rank \in Surjection(I, 1..c)
    BY <1>1, <1>2, <1>7, <1>8, FS_Injection
  <2>2. QED
    BY <2>1 DEF Surjection
<1>10. ASSUME NEW n \in 1..c
       PROVE  Place(I, n) \in I /\ Cardinality(upTo(Place(I, n))) = n
  <2>1. \E i \in I : Cardinality({j \in I : j <= i}) = n
    BY <1>6, <1>9
  <2>2. QED
    BY <2>1 DEF Place
<1>11. ASSUME NEW i \in I
       PROVE  \E n \in 1..c : Place(I, n) = i
  <2>1. PICK n \in 1..c : n = Cardinality(upTo(i))
    BY <1>3
  <2>2. Place(I, n) \in I /\ Cardinality(upTo(Place(I, n))) = Cardinality(upTo(i))
    BY <1>10, <2>1
  <2>3. Place(I, n) = i
    BY <2>2, <1>5
  <2>4. QED
    BY <2>3
<1>12. QED
  BY <1>1, <1>2, <1>10, <1>11

(* Every element of q has one place.                                       *)
Once(q) == \A i, j \in DOMAIN q : q[i] = q[j] => i = j

(* What is left of a list without repetitions is such a list, of the       *)
(* elements that were not taken out.                                       *)
LEMMA LeftOver ==
  ASSUME NEW T, NEW q \in Seq(T), Once(q), NEW S
  PROVE  /\ Without(q, S) \in Seq(T) /\ Once(Without(q, S))
         /\ ToSet(Without(q, S)) = ToSet(q) \ S
<1> DEFINE I == {i \in DOMAIN q : q[i] \notin S}
<1>1. PICK m \in Nat : m = Len(q) /\ DOMAIN q = 1..m
  OBVIOUS
<1>2. I \in SUBSET (1..m) /\ \A i \in I : q[i] \in T
  BY <1>1
<1>d. \A i \in DOMAIN q : i \in I <=> q[i] \notin S
  OBVIOUS
<1>3. Without(q, S) = [n \in 1..Cardinality(I) |-> q[Place(I, n)]]
  BY DEF Without
<1> HIDE DEF I
<1>4. PICK c \in Nat : c = Cardinality(I)
  BY <1>1, <1>2, PlacesCounted
<1>5. \A n \in 1..c : Place(I, n) \in I /\ Cardinality({j \in I : j <= Place(I, n)}) = n
  BY <1>1, <1>2, <1>4, PlacesCounted
<1>6. \A i \in I : \E n \in 1..c : Place(I, n) = i
  BY <1>1, <1>2, <1>4, PlacesCounted
<1> DEFINE r == Without(q, S)
<1>7. DOMAIN r = 1..c /\ \A n \in 1..c : r[n] = q[Place(I, n)]
  BY <1>3, <1>4
<1>8. r \in Seq(T)
  <2>1. r \in [1..c -> T]
    BY <1>2, <1>3, <1>4, <1>5
  <2>2. QED
    BY <2>1, <1>4
<1> HIDE DEF r
<1>9. ASSUME NEW a \in DOMAIN r, NEW b \in DOMAIN r, r[a] = r[b]
      PROVE  a = b
  <2>1. q[Place(I, a)] = q[Place(I, b)] /\ Place(I, a) \in DOMAIN q /\ Place(I, b) \in DOMAIN q
    BY <1>1, <1>2, <1>5, <1>7, <1>9
  <2>2. Place(I, a) = Place(I, b)
    BY <2>1 DEF Once
  <2>3. a \in 1..c /\ b \in 1..c
    BY <1>7, <1>9
  <2>4. /\ a = Cardinality({j \in I : j <= Place(I, a)})
        /\ b = Cardinality({j \in I : j <= Place(I, b)})
    BY <2>3, <1>5
  <2>5. {j \in I : j <= Place(I, a)} = {j \in I : j <= Place(I, b)}
    BY <2>2
  <2>6. QED
    BY <2>4, <2>5
<1>10. ToSet(r) = ToSet(q) \ S
  <2>1. ASSUME NEW x \in ToSet(r)
        PROVE  x \in ToSet(q) \ S
    <3>1. PICK n \in 1..c : x = q[Place(I, n)]
      BY <1>7 DEF ToSet
    <3>2. Place(I, n) \in DOMAIN q /\ Place(I, n) \in I
      BY <1>1, <1>2, <1>5
    <3>3. QED
      BY <3>1, <3>2, <1>d DEF ToSet
  <2>2. ASSUME NEW x \in ToSet(q) \ S
        PROVE  x \in ToSet(r)
    <3>1. PICK i \in DOMAIN q : x = q[i]
      BY DEF ToSet
    <3>2. i \in I
      BY <3>1, <2>2, <1>d
    <3>3. PICK n \in 1..c : Place(I, n) = i
      BY <3>2, <1>6
    <3>4. QED
      BY <3>1, <3>3, <1>7 DEF ToSet
  <2>3. QED
    BY <2>1, <2>2
<1>11. QED
  BY <1>8, <1>9, <1>10 DEF Once, r

(* One element more at the end, or a list of others.                       *)
LEMMA OneMore ==
  ASSUME NEW T, NEW q \in Seq(T), Once(q), NEW x \in T, x \notin ToSet(q)
  PROVE  /\ Append(q, x) \in Seq(T) /\ Once(Append(q, x))
         /\ ToSet(Append(q, x)) = ToSet(q) \cup {x}
<1>1. PICK m \in Nat : m = Len(q) /\ DOMAIN q = 1..m
  OBVIOUS
<1>2. PICK r \in Seq(T) : /\ r = Append(q, x) /\ DOMAIN r = 1..m + 1
                          /\ \A i \in 1..m : r[i] = q[i]
                          /\ r[m + 1] = x
  <2>1. Append(q, x) \in Seq(T) /\ Len(Append(q, x)) = m + 1
    BY <1>1
  <2>2. \A i \in 1..m : Append(q, x)[i] = q[i]
    BY <1>1
  <2>3. Append(q, x)[m + 1] = x
    BY <1>1
  <2>4. DOMAIN Append(q, x) = 1..m + 1
    BY <2>1
  <2>5. QED
    BY <2>1, <2>2, <2>3, <2>4
<1>3. \A i \in 1..m + 1 : i \in 1..m \/ i = m + 1
  BY <1>1
<1>4. \A i \in 1..m : q[i] # x
  BY <1>1 DEF ToSet
<1>5. Once(r)
  BY <1>1, <1>2, <1>3, <1>4 DEF Once
<1>6. ToSet(r) = ToSet(q) \cup {x}
  <2>1. m + 1 \in DOMAIN r /\ \A i \in 1..m : i \in DOMAIN r
    BY <1>1, <1>2
  <2>2. \A y \in ToSet(r) : y \in ToSet(q) \cup {x}
    BY <1>1, <1>2, <1>3 DEF ToSet
  <2>3. \A y \in ToSet(q) : y \in ToSet(r)
    BY <1>1, <1>2, <2>1 DEF ToSet
  <2>4. x \in ToSet(r)
    BY <1>2, <2>1 DEF ToSet
  <2>5. QED
    BY <2>2, <2>3, <2>4
<1>7. QED
  BY <1>2, <1>5, <1>6

LEMMA ManyMore ==
  ASSUME NEW T, NEW q \in Seq(T), NEW s \in Seq(T), Once(q), Once(s),
         ToSet(q) \cap ToSet(s) = {}
  PROVE  /\ q \o s \in Seq(T) /\ Once(q \o s)
         /\ ToSet(q \o s) = ToSet(q) \cup ToSet(s)
<1>1. PICK m \in Nat : m = Len(q) /\ DOMAIN q = 1..m
  OBVIOUS
<1>2. PICK n \in Nat : n = Len(s) /\ DOMAIN s = 1..n
  OBVIOUS
<1>3. PICK r \in Seq(T) : /\ r = q \o s /\ DOMAIN r = 1..m + n
                          /\ \A i \in 1..m : r[i] = q[i]
                          /\ \A i \in 1..m + n : i > m => r[i] = s[i - m]
  <2>1. q \o s \in Seq(T) /\ Len(q \o s) = m + n
    BY <1>1, <1>2
  <2>2. \A i \in 1..m + n : (q \o s)[i] = IF i <= m THEN q[i] ELSE s[i - m]
    BY <1>1, <1>2
  <2>3. DOMAIN (q \o s) = 1..m + n
    BY <2>1
  <2>4. \A i \in 1..m : i \in 1..m + n /\ i <= m
    OBVIOUS
  <2>5. \A i \in 1..m + n : i > m => ~ (i <= m)
    OBVIOUS
  <2>6. QED
    BY <2>1, <2>2, <2>3, <2>4, <2>5
<1>4. \A i \in 1..m + n : i \in 1..m \/ (i > m /\ i - m \in 1..n)
  BY <1>1, <1>2
<1>5. \A i \in 1..n : i + m \in 1..m + n /\ i + m > m /\ (i + m) - m = i
  BY <1>1, <1>2
<1>6. \A i \in 1..m, j \in 1..n : q[i] # s[j]
  BY <1>1, <1>2 DEF ToSet
<1>7. Once(r)
  <2>1. ASSUME NEW i \in 1..m + n, NEW j \in 1..m + n, r[i] = r[j]
        PROVE  i = j
    <3>1. CASE i \in 1..m /\ j \in 1..m
      BY <3>1, <2>1, <1>1, <1>3 DEF Once
    <3>2. CASE i \in 1..m /\ j > m /\ j - m \in 1..n
      BY <3>2, <2>1, <1>3, <1>6
    <3>3. CASE j \in 1..m /\ i > m /\ i - m \in 1..n
      BY <3>3, <2>1, <1>3, <1>6
    <3>4. CASE i > m /\ i - m \in 1..n /\ j > m /\ j - m \in 1..n
      <4>1. s[i - m] = s[j - m]
        BY <3>4, <2>1, <1>3
      <4>2. i - m = j - m
        BY <4>1, <3>4, <1>2 DEF Once
      <4>3. QED
        BY <4>2, <1>1, <2>1
    <3>5. QED
      BY <3>1, <3>2, <3>3, <3>4, <1>4
  <2>2. QED
    BY <2>1, <1>3 DEF Once
<1>8. ToSet(r) = ToSet(q) \cup ToSet(s)
  <2>1. \A y \in ToSet(r) : y \in ToSet(q) \cup ToSet(s)
    BY <1>1, <1>2, <1>3, <1>4 DEF ToSet
  <2>2. \A i \in 1..m : i \in DOMAIN r
    BY <1>1, <1>2, <1>3
  <2>3. \A y \in ToSet(q) : y \in ToSet(r)
    BY <1>1, <1>3, <2>2 DEF ToSet
  <2>4. \A j \in 1..n : r[j + m] = s[j] /\ j + m \in DOMAIN r
    BY <1>3, <1>5
  <2>5. \A y \in ToSet(s) : y \in ToSet(r)
    BY <1>2, <2>4 DEF ToSet
  <2>6. QED
    BY <2>1, <2>3, <2>5
<1>9. QED
  BY <1>3, <1>7, <1>8

(* Such a list is as long as it has elements.                              *)
LEMMA OnceCounted ==
  ASSUME NEW T, NEW q \in Seq(T), Once(q)
  PROVE  Len(q) = Cardinality(ToSet(q))
<1>1. PICK m \in Nat : m = Len(q) /\ DOMAIN q = 1..m
  OBVIOUS
<1>2. q \in Surjection(1..m, ToSet(q))
  BY <1>1 DEF Surjection, ToSet
<1>3. q \in Injection(1..m, ToSet(q))
  BY <1>1, <1>2 DEF Surjection, Injection, IsInjective, Once
<1>4. IsFiniteSet(1..m) /\ Cardinality(1..m) = m
  <2>1. IsFiniteSet(1..m) /\ Cardinality(1..m) = IF 1 > m THEN 0 ELSE m - 1 + 1
    BY FS_Interval, m \in Int, 1 \in Int
  <2>2. QED
    BY <2>1
<1>5. Cardinality(ToSet(q)) = m
  BY <1>2, <1>3, <1>4, FS_Surjection
<1>6. QED
  BY <1>1, <1>5

(* The recency list has the resident experts, each of them once; an expert *)
(* being copied has its slot; a step asks for each expert once, and what   *)
(* it misses is not there.                                                 *)
TableInv ==
  /\ lru \in Seq(Expert) /\ Once(lru) /\ ToSet(lru) = Resident
  /\ copying \subseteq Resident
  /\ Once(want)
  /\ pc = "miss" => \A i \in misses : want[i] \notin Resident

(* An expert enters the list in the place of another, or of none.          *)
LEMMA ListEntered ==
  ASSUME TableInv, NEW e \in Expert, e \notin Resident, NEW s \in Slot,
         NEW v, v \in Resident \/ v = Nil, Enter(e, s, v)
  PROVE  /\ lru' \in Seq(Expert) /\ Once(lru') /\ ToSet(lru') = Resident'
         /\ copying' \subseteq Resident'
         /\ Resident' = (Resident \ {v}) \cup {e}
<1>1. s # Nil /\ e # v
  BY HotTierAssumption DEF Slot
<1>2. slotOf' = [x \in Expert |-> IF x = e THEN s ELSE IF x = v THEN Nil ELSE slotOf[x]]
  BY DEF Enter
<1>3. Resident' = (Resident \ {v}) \cup {e}
  BY <1>1, <1>2 DEF Resident
<1>4. PICK q \in Seq(Expert) : /\ q = Without(lru, {v}) /\ Once(q)
                               /\ ToSet(q) = Resident \ {v}
  BY LeftOver DEF TableInv
<1>5. lru' = Append(q, e)
  BY <1>4 DEF Enter
<1>6. e \notin ToSet(q)
  BY <1>4
<1>7. lru' \in Seq(Expert) /\ Once(lru') /\ ToSet(lru') = (Resident \ {v}) \cup {e}
  <2>1. Once(q)
    BY <1>4
  <2>2. /\ Append(q, e) \in Seq(Expert) /\ Once(Append(q, e))
        /\ ToSet(Append(q, e)) = ToSet(q) \cup {e}
    BY <2>1, <1>6, OneMore
  <2>3. QED
    BY <2>2, <1>4, <1>5
<1>8. copying' \subseteq Resident'
  BY <1>3 DEF Enter, TableInv
<1>9. QED
  BY <1>3, <1>7, <1>8

LEMMA ListAdmitted ==
  ASSUME TableInv, NEW e \in Expert, e \notin Resident, NEW s \in Slot, Admit(e, s)
  PROVE  /\ lru' \in Seq(Expert) /\ Once(lru') /\ ToSet(lru') = Resident'
         /\ copying' \subseteq Resident'
         /\ Resident' \subseteq Resident \cup {e}
<1>1. PICK v : (v \in Resident \/ v = Nil) /\ Enter(e, s, v)
  BY DEF Admit
<1>2. QED
  BY <1>1, ListEntered

(* A step that leaves the table and the call alone.                        *)
LEMMA ListSame ==
  ASSUME TableInv, UNCHANGED <<slotOf, lru, copying, pc, want, misses>>
  PROVE  TableInv'
BY DEF TableInv, Resident

LEMMA ListInit == Init => TableInv
<1> SUFFICES ASSUME Init PROVE TableInv
  OBVIOUS
<1>1. lru = <<>> /\ want = <<>> /\ copying = {} /\ misses = {} /\ DOMAIN lru = {}
  BY DEF Init
<1>2. Resident = {}
  BY DEF Init, Resident
<1>3. lru \in Seq(Expert)
  BY <1>1
<1>4. Once(lru) /\ Once(want) /\ ToSet(lru) = {}
  BY <1>1 DEF Once, ToSet
<1>5. QED
  BY <1>1, <1>2, <1>3, <1>4 DEF TableInv

LEMMA ListStep == HotInv /\ TableInv /\ [Next]_vars => TableInv'
<1> SUFFICES ASSUME HotInv, TableInv, [Next]_vars PROVE TableInv'
  OBVIOUS
<1>t. /\ want \in Seq(Expert) /\ misses \subseteq DOMAIN want
      /\ slotOf \in [Expert -> Slot \cup {Nil}] /\ free \in Seq(Slot)
  BY DEF HotInv, HotType, SlotsInv, FreeInv
<1>n. Nil \notin Slot /\ Nil \notin Expert
  BY HotTierAssumption DEF Slot
<1>1. ASSUME NEW w \in Wants, Ensure(w) PROVE TableInv'
  <2>1. w \in Seq(Expert) /\ Once(w)
    BY HotTierAssumption DEF Wants, IsInjective, Once
  <2>2. PICK q \in Seq(Expert) : /\ q = Without(lru, ToSet(w)) /\ Once(q)
                                 /\ ToSet(q) = Resident \ ToSet(w)
    BY LeftOver DEF TableInv
  <2>3. PICK h \in Seq(Expert) : /\ h = Without(w, Expert \ Resident) /\ Once(h)
                                 /\ ToSet(h) = ToSet(w) \ (Expert \ Resident)
    BY <2>1, LeftOver
  <2>4. lru' = q \o h /\ slotOf' = slotOf /\ want' = w /\ copying' \subseteq copying
    BY <1>1, <2>2, <2>3 DEF Ensure
  <2>5. misses' = {i \in DOMAIN w : slotOf[w[i]] = Nil}
    BY <1>1 DEF Ensure
  <2>6. lru' \in Seq(Expert) /\ Once(lru') /\ ToSet(lru') = ToSet(q) \cup ToSet(h)
    <3>1. ToSet(q) \cap ToSet(h) = {}
      BY <2>2, <2>3
    <3>2. QED
      BY <2>2, <2>3, <2>4, <3>1, ManyMore
  <2>7. ToSet(w) \subseteq Expert
    BY <2>1 DEF ToSet
  <2>8. Resident' = Resident /\ Resident \subseteq Expert
    BY <2>4 DEF Resident
  <2>9. ToSet(lru') = Resident'
    BY <2>2, <2>3, <2>6, <2>7, <2>8
  <2>10. \A i \in misses' : want'[i] \notin Resident'
    BY <2>4, <2>5, <2>8 DEF Resident
  <2>11. copying' \subseteq Resident'
    BY <2>4, <2>8 DEF TableInv
  <2>12. QED
    BY <2>1, <2>4, <2>6, <2>9, <2>10, <2>11 DEF TableInv
<1>2. CASE Miss
  <2>1. PICK i \in DOMAIN want : IsNext(i) /\ Serve(i)
    BY <1>2 DEF Miss
  <2>2. /\ pc = "miss" /\ want' = want /\ misses' = misses \ {i} /\ i \in misses
    BY <1>2, <2>1 DEF Miss, Serve, IsNext
  <2>3. PICK e \in Expert : e = want[i]
    BY <1>t
  <2>4. e \notin Resident
    BY <2>2, <2>3 DEF TableInv
  <2>5. PICK s \in Slot : Admit(e, s)
    BY <2>1, <2>3 DEF Serve
  <2>6. /\ lru' \in Seq(Expert) /\ Once(lru') /\ ToSet(lru') = Resident'
        /\ copying' \subseteq Resident' /\ Resident' \subseteq Resident \cup {e}
    BY <2>4, <2>5, ListAdmitted
  <2>7. \A j \in misses' : want[j] # e
    BY <1>t, <2>2, <2>3 DEF TableInv, Once
  <2>8. \A j \in misses' : want'[j] \notin Resident'
    BY <2>2, <2>6, <2>7 DEF TableInv
  <2>9. Once(want')
    BY <2>2 DEF TableInv
  <2>10. QED
    BY <2>6, <2>8, <2>9 DEF TableInv
<1>3. CASE MissRaises
  <2>1. PICK i \in DOMAIN want, s \in Slot : IsNext(i) /\ Admit(want[i], s)
    BY <1>3 DEF MissRaises
  <2>2. pc = "miss" /\ pc' = "raised" /\ want' = want /\ i \in misses
    BY <1>3, <2>1 DEF MissRaises, IsNext
  <2>3. PICK e \in Expert : e = want[i]
    BY <1>t
  <2>4. e \notin Resident
    BY <2>2, <2>3 DEF TableInv
  <2>5. Admit(e, s)
    BY <2>1, <2>3
  <2>6. /\ lru' \in Seq(Expert) /\ Once(lru') /\ ToSet(lru') = Resident'
        /\ copying' \subseteq Resident'
    BY <2>4, <2>5, ListAdmitted
  <2>7. QED
    BY <2>2, <2>6 DEF TableInv
<1>4. CASE ShedOne
  <2>1. PICK v \in Resident : Shed(v)
    BY <1>4 DEF ShedOne
  <2>2. /\ slotOf' = [slotOf EXCEPT ![v] = Nil] /\ lru' = Without(lru, {v})
        /\ copying' = copying \ {v}
    BY <2>1 DEF Shed
  <2>3. UNCHANGED <<pc, want, misses>>
    BY <1>4 DEF ShedOne, step
  <2>4. lru' \in Seq(Expert) /\ Once(lru') /\ ToSet(lru') = Resident \ {v}
    BY <2>2, LeftOver DEF TableInv
  <2>5. Resident' = Resident \ {v}
    BY <1>t, <2>2 DEF Resident
  <2>6. copying' \subseteq Resident'
    BY <2>2, <2>5 DEF TableInv
  <2>7. QED
    BY <2>3, <2>4, <2>5, <2>6 DEF TableInv
<1>5. CASE EnsureReturns
  <2>1. /\ UNCHANGED <<slotOf, lru, want>> /\ pc' = "submit" /\ copying' \subseteq copying
    BY <1>5 DEF EnsureReturns
  <2>2. QED
    BY <2>1 DEF TableInv, Resident
<1>6. CASE Submit
  <2>1. /\ UNCHANGED <<slotOf, lru, copying, want>> /\ pc' = "mark"
    BY <1>6 DEF Submit, pool
  <2>2. QED
    BY <2>1 DEF TableInv, Resident
<1>7. CASE MarkSubmitted
  <2>1. /\ UNCHANGED <<slotOf, lru, copying>> /\ pc' = "idle" /\ want' = <<>>
    BY <1>7 DEF MarkSubmitted, pool
  <2>2. Once(<<>>)
    BY DEF Once
  <2>3. QED
    BY <2>1, <2>2 DEF TableInv, Resident
<1>8. ASSUME NEW e \in Expert, Preload(e) PROVE TableInv'
  <2>1. /\ free # <<>> /\ slotOf[e] = Nil /\ lru' = Append(lru, e) /\ copying' = copying
        /\ slotOf' = [slotOf EXCEPT ![e] = Head(free)]
    BY <1>8 DEF Preload
  <2>2. UNCHANGED <<pc, want, misses>> /\ pc # "miss"
    BY <1>8 DEF Preload, step
  <2>3. Head(free) \in Slot
    BY <1>t, <2>1
  <2>4. Resident' = Resident \cup {e} /\ e \notin Resident
    BY <1>t, <1>n, <2>1, <2>3 DEF Resident
  <2>5. lru' \in Seq(Expert) /\ Once(lru') /\ ToSet(lru') = Resident \cup {e}
    <3>1. /\ lru \in Seq(Expert) /\ Once(lru) /\ ToSet(lru) = Resident
          /\ e \notin ToSet(lru)
      BY <2>4 DEF TableInv
    <3>2. QED
      BY <3>1, <2>1, OneMore
  <2>6. copying' \subseteq Resident'
    BY <2>1, <2>4 DEF TableInv
  <2>7. QED
    BY <2>2, <2>4, <2>5, <2>6 DEF TableInv
<1>9. ASSUME NEW e \in Expert, Prefetch(e) PROVE TableInv'
  <2>1. want' = want /\ pc # "miss" /\ pc' # "miss"
    BY <1>9 DEF Prefetch
  <2>2. CASE /\ slotOf[e] # Nil /\ lru' = Append(Without(lru, {e}), e)
             /\ UNCHANGED <<slotOf, copying>>
    <3>1. PICK q \in Seq(Expert) : /\ q = Without(lru, {e}) /\ Once(q)
                                   /\ ToSet(q) = Resident \ {e}
      BY LeftOver DEF TableInv
    <3>2. lru' = Append(q, e)
      BY <2>2, <3>1
    <3>3. e \notin ToSet(q) /\ e \in Resident
      BY <2>2, <3>1 DEF Resident
    <3>4. lru' \in Seq(Expert) /\ Once(lru') /\ ToSet(lru') = Resident
      <4>1. Once(q) /\ e \notin ToSet(q)
        BY <3>1, <3>3
      <4>2. /\ Append(q, e) \in Seq(Expert) /\ Once(Append(q, e))
            /\ ToSet(Append(q, e)) = ToSet(q) \cup {e}
        BY <4>1, OneMore
      <4>3. lru' \in Seq(Expert) /\ Once(lru') /\ ToSet(lru') = ToSet(q) \cup {e}
        BY <4>2, <3>2
      <4>4. QED
        BY <4>3, <3>1, <3>3
    <3>5. Resident' = Resident /\ copying' \subseteq Resident'
      BY <2>2 DEF Resident, TableInv
    <3>6. QED
      BY <2>1, <3>4, <3>5 DEF TableInv
  <2>3. CASE slotOf[e] = Nil /\ free # <<>> /\ Enter(e, Head(free), Nil)
    <3>1. e \notin Resident
      BY <2>3 DEF Resident
    <3>2. PICK s \in Slot : s = Head(free)
      BY <1>t, <2>3
    <3>3. /\ lru' \in Seq(Expert) /\ Once(lru') /\ ToSet(lru') = Resident'
          /\ copying' \subseteq Resident'
      BY <2>3, <3>1, <3>2, ListEntered
    <3>4. QED
      BY <2>1, <3>3 DEF TableInv
  <2>4. QED
    BY <1>9, <2>2, <2>3 DEF Prefetch
<1>10. CASE LoadWarm
  BY <1>10, ListSame DEF LoadWarm, pool, step
<1>11. CASE Device
  BY <1>11, ListSame DEF Device, Copied, KernelBegins, KernelEnds, pool, step
<1>12. CASE UNCHANGED vars
  BY <1>12, ListSame DEF vars, pool, step
<1>13. QED
  BY <1>1, <1>2, <1>3, <1>4, <1>5, <1>6, <1>7, <1>8, <1>9, <1>10, <1>11, <1>12
  DEF Next, Host

(* What names a copy names one that has been issued.                       *)
CountInv ==
  /\ \A e \in Expert : inflight[e] # Nil => inflight[e] \in 1..IssuedCopies
  /\ \A b \in Stage : stageEv[b] \in 0..IssuedCopies
  /\ waits \in 0..IssuedCopies
  /\ \A a \in awaits : a.no \in 1..IssuedCopies
  /\ \A k \in 1..Len(kernels) : kernels[k].after \in 0..IssuedCopies
  /\ direct \in BOOLEAN

(* Of what is pending each names a copy named before, or the last one.     *)
LEMMA CountGrows ==
  ASSUME CountInv, NEW c \in Nat, NEW d \in Nat, c = IssuedCopies, d = IssuedCopies',
         c <= d, direct' \in BOOLEAN,
         \A e \in Expert : inflight'[e] \in {Nil, inflight[e]} \/ inflight'[e] \in 1..d,
         \A b \in Stage : stageEv'[b] = stageEv[b] \/ stageEv'[b] \in 1..d,
         waits' = waits \/ waits' \in 1..d,
         \A a \in awaits' : a \in awaits \/ a.no \in 1..d,
         \A k \in 1..Len(kernels') : \/ kernels'[k].after = waits
                                     \/ \E l \in 1..Len(kernels) : kernels'[k] = kernels[l]
  PROVE  CountInv'
<1>1. (1..c) \subseteq (1..d) /\ (0..c) \subseteq (0..d) /\ (1..d) \subseteq (0..d)
  OBVIOUS
<1>2. \A e \in Expert : inflight'[e] # Nil => inflight'[e] \in 1..d
  BY <1>1 DEF CountInv
<1>3. \A b \in Stage : stageEv'[b] \in 0..d
  BY <1>1 DEF CountInv
<1>4. waits' \in 0..d
  BY <1>1 DEF CountInv
<1>5. \A a \in awaits' : a.no \in 1..d
  BY <1>1 DEF CountInv
<1>6. \A k \in 1..Len(kernels') : kernels'[k].after \in 0..d
  BY <1>1 DEF CountInv
<1>7. QED
  BY <1>2, <1>3, <1>4, <1>5, <1>6 DEF CountInv

(* A copy that starts is the next; one that raises is none.                *)
LEMMA CopyCounted ==
  ASSUME HotType, NEW e, NEW s, StartCopy(e, s) \/ CopyRaises,
         NEW c \in Nat, c = IssuedCopies
  PROVE  /\ StartCopy(e, s) => IssuedCopies' = c + 1
         /\ CopyRaises => IssuedCopies' = c
         /\ \A b \in Stage : \/ stageEv'[b] = stageEv[b]
                             \/ StartCopy(e, s) /\ stageEv'[b] = c + 1
         /\ direct' = direct
<1>1. copies \in Seq(Copy) /\ copied \in Nat /\ stageEv \in [Stage -> Nat] /\ stageI \in Stage
  BY DEF HotType
<1>2. ASSUME StartCopy(e, s)
      PROVE  IssuedCopies' = c + 1
  <2>1. PICK x : copies' = Append(copies, x) /\ copied' = copied
    BY <1>2 DEF StartCopy
  <2>2. Len(copies') = Len(copies) + 1 /\ Len(copies) \in Nat
    BY <1>1, <2>1
  <2>3. QED
    BY <1>1, <2>1, <2>2 DEF IssuedCopies
<1>3. ASSUME CopyRaises
      PROVE  IssuedCopies' = c
  BY <1>3 DEF CopyRaises, copyq, IssuedCopies
<1>4. \/ stageEv' = stageEv
      \/ StartCopy(e, s) /\ stageEv' = [stageEv EXCEPT ![stageI] = c + 1]
  BY DEF StartCopy, CopyRaises, ring
<1>5. direct' = direct
  BY DEF StartCopy, CopyRaises
<1>6. QED
  BY <1>1, <1>2, <1>3, <1>4, <1>5

LEMMA CountInit == Init => CountInv
<1> SUFFICES ASSUME Init PROVE CountInv
  OBVIOUS
<1>1. IssuedCopies = 0 /\ Len(kernels) = 0
  BY DEF Init, IssuedCopies
<1>2. \A e \in Expert : inflight[e] = Nil
  BY DEF Init
<1>3. \A b \in Stage : stageEv[b] = 0
  BY DEF Init
<1>4. waits = 0 /\ awaits = {} /\ direct \in BOOLEAN
  BY DEF Init
<1>5. QED
  BY <1>1, <1>2, <1>3, <1>4 DEF CountInv

(* A step that issues no copy and names none.                              *)
LEMMA CountSame ==
  ASSUME HotType, CountInv, IssuedCopies' = IssuedCopies,
         UNCHANGED <<inflight, stageEv, waits, awaits, kernels>>, direct' \in BOOLEAN
  PROVE  CountInv'
BY DEF CountInv

LEMMA Admitting ==
  ASSUME HotType, NEW e, NEW s, Admit(e, s)
  PROVE  \A x \in Expert : inflight'[x] \in {Nil, inflight[x]}
<1>1. \/ inflight' = inflight
      \/ \E v \in Resident : inflight' = [inflight EXCEPT ![v] = Nil]
  BY DEF Admit
<1>2. inflight \in [Expert -> Nat \cup {Nil}]
  BY DEF HotType
<1>3. QED
  BY <1>1, <1>2

LEMMA CountStep == HotInv /\ CountInv /\ [Next]_vars => CountInv'
<1> SUFFICES ASSUME HotInv, CountInv, [Next]_vars PROVE CountInv'
  OBVIOUS
<1>h. HotType
  BY DEF HotInv
<1>t. /\ copies \in Seq(Copy) /\ copied \in Nat /\ kernels \in Seq(Kernel) /\ waits \in Nat
      /\ inflight \in [Expert -> Nat \cup {Nil}] /\ want \in Seq(Expert)
  BY <1>h DEF HotType
<1>c. PICK c \in Nat : c = IssuedCopies
  BY <1>t DEF IssuedCopies
<1>k. \A k \in 1..Len(kernels) : \E l \in 1..Len(kernels) : kernels[k] = kernels[l]
  OBVIOUS
<1>1. ASSUME NEW w \in Wants, Ensure(w) PROVE CountInv'
  <2>1. /\ UNCHANGED <<copies, copied, direct, stageEv, kernels>> /\ awaits' = {}
        /\ inflight' = [e \in Expert |-> IF e \in ToSet(w) THEN Nil ELSE inflight[e]]
        /\ WaitFor({inflight[e] : e \in AwaitedHit(ToSet(w))})
    BY <1>1 DEF Ensure, staging, ring, copyq
  <2>2. waits' = waits \/ \E e \in AwaitedHit(ToSet(w)) : waits' = inflight[e]
    BY <2>1 DEF WaitFor
  <2>3. ToSet(w) \subseteq Expert
    BY HotTierAssumption DEF Wants, ToSet
  <2>4. waits' = waits \/ waits' \in 1..c
    BY <1>c, <2>2, <2>3 DEF AwaitedHit, CountInv
  <2>5. IssuedCopies' = c
    BY <1>c, <2>1 DEF IssuedCopies
  <2>6. \A e \in Expert : inflight'[e] \in {Nil, inflight[e]}
    BY <2>1
  <2>7. direct' \in BOOLEAN
    BY <2>1 DEF CountInv
  <2>8. QED
    BY <1>c, <1>k, <2>1, <2>4, <2>5, <2>6, <2>7, CountGrows
<1>2. CASE Miss
  <2>1. PICK i \in DOMAIN want : IsNext(i) /\ Serve(i)
    BY <1>2 DEF Miss
  <2>e. PICK e : e = want[i]
    OBVIOUS
  <2>2. PICK s \in Slot : Admit(e, s) /\ StartCopy(e, s)
    BY <2>1, <2>e DEF Serve
  <2>3. awaits' = awaits \cup {[expert |-> e, no |-> IssuedCopies + 1]}
    BY <2>1, <2>e DEF Serve
  <2>4. UNCHANGED <<kernels, waits>>
    BY <1>2 DEF Miss, compute
  <2>5. PICK d \in Nat : d = c + 1
    OBVIOUS
  <2>6. /\ IssuedCopies' = d /\ direct' = direct
        /\ \A b \in Stage : stageEv'[b] = stageEv[b] \/ stageEv'[b] = d
    BY <1>h, <1>c, <2>2, <2>5, CopyCounted
  <2>7. \A x \in Expert : inflight'[x] \in {Nil, inflight[x]}
    BY <1>h, <2>2, Admitting
  <2>8. \A a \in awaits' : a \in awaits \/ a.no = d
    BY <1>c, <2>3, <2>5
  <2>9. c <= d /\ d \in 1..d
    BY <2>5
  <2>10. direct' \in BOOLEAN
    BY <2>6 DEF CountInv
  <2>11. QED
    BY <1>c, <1>k, <2>4, <2>6, <2>7, <2>8, <2>9, <2>10, CountGrows
<1>3. CASE MissRaises
  <2>1. PICK i \in DOMAIN want, s \in Slot : Admit(want[i], s)
    BY <1>3 DEF MissRaises
  <2>2. CopyRaises /\ UNCHANGED <<awaits, kernels, waits>>
    BY <1>3 DEF MissRaises, compute
  <2>3. IssuedCopies' = c /\ stageEv' = stageEv /\ direct' = direct
    BY <1>c, <2>2 DEF CopyRaises, IssuedCopies, ring, copyq
  <2>4. \A x \in Expert : inflight'[x] \in {Nil, inflight[x]}
    BY <1>h, <2>1, Admitting
  <2>5. direct' \in BOOLEAN
    BY <2>3 DEF CountInv
  <2>6. QED
    BY <1>c, <1>k, <2>2, <2>3, <2>4, <2>5, CountGrows
<1>4. CASE ShedOne
  <2>1. PICK v \in Resident : Shed(v)
    BY <1>4 DEF ShedOne
  <2>2. inflight' = [inflight EXCEPT ![v] = Nil]
    BY <2>1 DEF Shed
  <2>3. UNCHANGED <<copies, copied, direct, stageEv, awaits, kernels, waits>>
    BY <1>4 DEF ShedOne, staging, ring, step, copyq, compute
  <2>4. IssuedCopies' = c
    BY <1>c, <2>3 DEF IssuedCopies
  <2>5. \A x \in Expert : inflight'[x] \in {Nil, inflight[x]}
    BY <1>t, <2>2
  <2>6. direct' \in BOOLEAN
    BY <2>3 DEF CountInv
  <2>7. QED
    BY <1>c, <1>k, <2>3, <2>4, <2>5, <2>6, CountGrows
<1>5. CASE EnsureReturns
  <2>1. /\ UNCHANGED <<copies, copied, direct, stageEv, inflight, kernels>>
        /\ WaitFor(AwaitedMisses) /\ awaits' = {}
    BY <1>5 DEF EnsureReturns, staging, ring, copyq
  <2>2. waits' = waits \/ waits' \in 1..c
    BY <1>c, <2>1 DEF WaitFor, AwaitedMisses, CountInv
  <2>3. IssuedCopies' = c
    BY <1>c, <2>1 DEF IssuedCopies
  <2>4. direct' \in BOOLEAN
    BY <2>1 DEF CountInv
  <2>5. QED
    BY <1>c, <1>k, <2>1, <2>2, <2>3, <2>4, CountGrows
<1>6. CASE Submit
  <2>1. UNCHANGED <<copies, copied, direct, stageEv, inflight, awaits, waits>>
    BY <1>6 DEF Submit, pool, staging, ring, copyq
  <2>2. PICK r : kernels' = Append(kernels, [reads |-> r, after |-> waits])
    BY <1>6 DEF Submit
  <2>3. PICK x : x = [reads |-> r, after |-> waits]
    OBVIOUS
  <2>4. x.after = waits /\ kernels' = Append(kernels, x)
    BY <2>2, <2>3
  <2>5. \A k \in 1..Len(kernels') : kernels'[k] = x \/ \E l \in 1..Len(kernels) : kernels'[k] = kernels[l]
    BY <1>t, <2>4
  <2>6. IssuedCopies' = c
    BY <1>c, <2>1 DEF IssuedCopies
  <2>7. direct' \in BOOLEAN
    BY <2>1 DEF CountInv
  <2>8. QED
    BY <1>c, <2>1, <2>4, <2>5, <2>6, <2>7, CountGrows
<1>7. CASE MarkSubmitted
  <2>1. UNCHANGED <<inflight, stageEv, waits, awaits, kernels, direct, copies, copied>>
    BY <1>7 DEF MarkSubmitted, pool, staging, ring, copyq, compute
  <2>2. QED
    BY <1>h, <2>1, CountSame DEF IssuedCopies, CountInv
<1>8. ASSUME NEW e \in Expert, Preload(e) PROVE CountInv'
  <2>1. UNCHANGED <<inflight, stageEv, waits, awaits, kernels, direct, copies, copied>>
    BY <1>8 DEF Preload, staging, ring, step, copyq, compute
  <2>2. QED
    BY <1>h, <2>1, CountSame DEF IssuedCopies, CountInv
<1>9. ASSUME NEW e \in Expert, Prefetch(e) PROVE CountInv'
  <2>1. UNCHANGED <<awaits, kernels, waits>>
    BY <1>9 DEF Prefetch, compute
  <2>2. CASE UNCHANGED <<inflight, staging, copyq>>
    <3>1. UNCHANGED <<inflight, stageEv, direct, copies, copied>>
      BY <2>2 DEF staging, ring, copyq
    <3>2. QED
      BY <1>h, <2>1, <3>1, CountSame DEF IssuedCopies, CountInv
  <2>3. CASE CopyRaises /\ UNCHANGED inflight
    <3>1. IssuedCopies' = c /\ stageEv' = stageEv /\ direct' = direct
      BY <1>c, <2>3 DEF CopyRaises, IssuedCopies, ring, copyq
    <3>2. QED
      BY <1>h, <1>c, <2>1, <2>3, <3>1, CountSame DEF CountInv
  <2>4. CASE StartCopy(e, Head(free)) /\ inflight' = [inflight EXCEPT ![e] = IssuedCopies + 1]
    <3>s. PICK s : s = Head(free)
      OBVIOUS
    <3>1. PICK d \in Nat : d = c + 1
      OBVIOUS
    <3>2. StartCopy(e, s)
      BY <2>4, <3>s
    <3>3. /\ IssuedCopies' = d /\ direct' = direct
          /\ \A b \in Stage : stageEv'[b] = stageEv[b] \/ stageEv'[b] = d
      BY <1>h, <1>c, <3>1, <3>2, CopyCounted
    <3>4. \A x \in Expert : inflight'[x] = inflight[x] \/ inflight'[x] = d
      BY <1>t, <1>c, <2>4, <3>1
    <3>5. c <= d /\ d \in 1..d
      BY <3>1
    <3>6. direct' \in BOOLEAN
      BY <3>3 DEF CountInv
    <3>7. QED
      BY <1>c, <1>k, <2>1, <3>3, <3>4, <3>5, <3>6, CountGrows
  <2>5. QED
    BY <1>9, <2>2, <2>3, <2>4 DEF Prefetch
<1>10. CASE LoadWarm
  <2>1. /\ UNCHANGED <<inflight, stageEv, waits, awaits, kernels, copies, copied>>
        /\ direct' \in BOOLEAN
    BY <1>10 DEF LoadWarm, pool, ring, step, copyq, compute
  <2>2. QED
    BY <1>h, <2>1, CountSame DEF IssuedCopies
<1>11. CASE Copied
  <2>1. /\ UNCHANGED <<inflight, stageEv, waits, awaits, kernels, direct>>
        /\ copies # <<>> /\ copies' = Tail(copies) /\ copied' = copied + 1
    BY <1>11 DEF Copied, pool, staging, ring, step, compute
  <2>2. Len(copies') = Len(copies) - 1 /\ Len(copies) \in Nat
    BY <1>t, <2>1
  <2>3. IssuedCopies' = IssuedCopies
    BY <1>t, <2>1, <2>2 DEF IssuedCopies
  <2>4. QED
    BY <1>h, <2>1, <2>3, CountSame DEF CountInv
<1>12. CASE KernelBegins
  <2>1. UNCHANGED <<inflight, stageEv, waits, awaits, kernels, direct, copies, copied>>
    BY <1>12 DEF KernelBegins, pool, staging, ring, step, copyq
  <2>2. QED
    BY <1>h, <2>1, CountSame DEF IssuedCopies, CountInv
<1>13. CASE KernelEnds
  <2>1. /\ UNCHANGED <<inflight, stageEv, waits, awaits, direct, copies, copied>>
        /\ kernels' = Tail(kernels) /\ kernels # <<>>
    <3>1. kernels # <<>>
      BY <1>13 DEF KernelEnds, HotInv, OrderInv
    <3>2. QED
      BY <1>13, <3>1 DEF KernelEnds, pool, staging, ring, step, copyq
  <2>2. \A k \in 1..Len(kernels') : \E l \in 1..Len(kernels) : kernels'[k] = kernels[l]
    <3>1. Len(kernels) \in Nat /\ Len(kernels') = Len(kernels) - 1
      BY <1>t, <2>1
    <3>2. \A k \in 1..Len(kernels') : kernels'[k] = kernels[k + 1] /\ k + 1 \in 1..Len(kernels)
      BY <1>t, <2>1, <3>1
    <3>3. QED
      BY <3>2
  <2>3. IssuedCopies' = c /\ direct' \in BOOLEAN
    BY <1>c, <2>1 DEF IssuedCopies, CountInv
  <2>4. QED
    BY <1>c, <2>1, <2>2, <2>3, CountGrows
<1>14. CASE UNCHANGED vars
  <2>1. UNCHANGED <<inflight, stageEv, waits, awaits, kernels, direct, copies, copied>>
    BY <1>14 DEF vars, pool, staging, ring, step, copyq, compute
  <2>2. QED
    BY <1>h, <2>1, CountSame DEF IssuedCopies, CountInv
<1>15. QED
  BY <1>1, <1>2, <1>3, <1>4, <1>5, <1>6, <1>7, <1>8, <1>9, <1>10, <1>11, <1>12,
     <1>13, <1>14
  DEF Next, Host, Device

(* Every variable keeps its type: the recency list is the table's keys,    *)
(* each once, and no event, awaited copy or kernel names a copy or a       *)
(* kernel that was never issued.                                           *)
THEOREM HotTypesHold == Spec => []TypeOK
<1>1. HotInv /\ TableInv /\ CountInv => TypeOK
  <2> SUFFICES ASSUME HotInv, TableInv, CountInv PROVE TypeOK
    OBVIOUS
  <2>1. HotType /\ OrderInv /\ SlotsInv
    BY DEF HotInv
  <2>2. PICK i \in Nat : i = IssuedCopies
    BY <2>1 DEF HotType, IssuedCopies
  <2>3. PICK n \in Nat : n = Submitted
    BY <2>1 DEF HotType, Submitted
  <2>4. Len(lru) = Cardinality(Resident)
    BY OnceCounted DEF TableInv
  <2>5. stageEv \in [Stage -> 0..i]
    BY <2>1, <2>2 DEF HotType, CountInv
  <2>6. readEv \in 0..n
    BY <2>1, <2>3 DEF HotType, OrderInv
  <2>7. awaits \subseteq [expert : Expert, no : 1..i]
    BY <2>1, <2>2 DEF HotType, CountInv
  <2>8. copies \in Seq([slot : Slot, expert : Expert, after : 0..n,
                        stage : Stage \cup {Nil}])
    <3>1. copies \in [1..Len(copies) -> Copy] /\ Len(copies) \in Nat
      BY <2>1 DEF HotType
    <3> DEFINE T == [slot : Slot, expert : Expert, after : 0..n, stage : Stage \cup {Nil}]
    <3>2. ASSUME NEW k \in 1..Len(copies)
          PROVE  copies[k] \in T
      <4>1. copies[k] \in Copy
        BY <3>1
      <4>2. copies[k].after \in Nat /\ copies[k].after <= readEv
        BY <2>1, <4>1 DEF OrderInv, Copy
      <4>3. copies[k].after \in 0..n
        BY <2>6, <4>2
      <4>4. QED
        BY <4>1, <4>3 DEF Copy
    <3> HIDE DEF T
    <3>3. copies \in Seq(T)
      BY <3>1, <3>2
    <3>4. QED
      BY <3>3 DEF T
  <2>9. kernels \in Seq([reads : SUBSET (Slot \X Expert), after : 0..i])
    <3>1. kernels \in [1..Len(kernels) -> Kernel] /\ Len(kernels) \in Nat
      BY <2>1 DEF HotType
    <3> DEFINE T == [reads : SUBSET (Slot \X Expert), after : 0..i]
    <3>2. ASSUME NEW k \in 1..Len(kernels)
          PROVE  kernels[k] \in T
      <4>1. kernels[k] \in Kernel
        BY <3>1
      <4>2. kernels[k].after \in 0..i
        BY <2>2 DEF CountInv
      <4>3. QED
        BY <4>1, <4>2 DEF Kernel
    <3> HIDE DEF T
    <3>3. kernels \in Seq(T)
      BY <3>1, <3>2
    <3>4. QED
      BY <3>3 DEF T
  <2>10. waits \in 0..i /\ \A e \in Expert : inflight[e] # Nil => inflight[e] \in 1..i
    BY <2>2 DEF CountInv
  <2>11. free \in Seq(Slot) /\ slotOf \in [Expert -> Slot \cup {Nil}]
    BY <2>1 DEF SlotsInv, FreeInv
  <2>12. direct \in BOOLEAN
    BY DEF CountInv
  <2>13. /\ lru \in Seq(Expert) /\ ToSet(lru) = Resident /\ copying \subseteq Resident
    BY DEF TableInv
  <2>14. /\ stageI \in Stage /\ stageBusy \in [Stage -> BOOLEAN]
         /\ stageHolds \in [Stage -> Expert \cup {Nil}]
         /\ pc \in {"idle", "miss", "submit", "mark", "raised"}
         /\ want \in Seq(Expert) /\ misses \subseteq DOMAIN want
         /\ copied \in Nat /\ ran \in Nat /\ begun \in BOOLEAN
         /\ holds \in [Slot -> Expert \cup {Nil}]
    BY <2>1 DEF HotType
  <2>15. QED
    BY <2>2, <2>3, <2>4, <2>5, <2>6, <2>7, <2>8, <2>9, <2>10, <2>11, <2>12, <2>13, <2>14
    DEF TypeOK
<1>2. QED
  BY <1>1, HotInit, HotStep, ListInit, ListStep, CountInit, CountStep, PTL DEF Spec
-----------------------------------------------------------------------------
(* Room for a step: what _evict finds.                                     *)

(* A turn that needs a slot and finds none free has an expert to evict:    *)
(* _evict never raises "every slot in block is protected this step".       *)
VictimFound ==
  pc = "miss" /\ misses # {} /\ free = <<>> => \E v \in Resident : IsVictim(v)

(* However many slots have leaked from the reserve, those that hold an     *)
(* expert or are free suffice for a step.                                  *)
RoomInv ==
  /\ Cardinality(Resident) + Len(free) >= NSlots - Reserve
  /\ Len(want) <= TopK

(* The resident experts, and one more or one less of them.                 *)
LEMMA ResidentsCounted ==
  /\ IsFiniteSet(Resident) /\ Cardinality(Resident) \in Nat
  /\ \A e : e \notin Resident =>
       Cardinality(Resident \cup {e}) = Cardinality(Resident) + 1
  /\ \A v \in Resident : Cardinality(Resident \ {v}) = Cardinality(Resident) - 1
<1>1. IsFiniteSet(Resident)
  BY HotTierAssumption, FS_Subset DEF Resident
<1>2. QED
  BY <1>1, FS_CardinalityType, FS_AddElement, FS_RemoveElement

LEMMA FreeTaken ==
  ASSUME SlotsInv, free # <<>>
  PROVE  Len(free) \in Nat /\ Len(Tail(free)) = Len(free) - 1
BY DEF SlotsInv, FreeInv

(* Entering an expert changes a free slot into an occupied one, or one     *)
(* expert for another.                                                     *)
LEMMA RoomEntered ==
  ASSUME TableInv, SlotsInv, RoomInv, NEW e \in Expert, e \notin Resident,
         NEW s \in Slot, Admit(e, s)
  PROVE  Cardinality(Resident') + Len(free') >= NSlots - Reserve
<1>1. PICK n \in Nat : n = Cardinality(Resident)
  BY ResidentsCounted
<1>2. PICK f \in Nat : f = Len(free)
  BY DEF SlotsInv, FreeInv
<1>3. NSlots \in Nat /\ Reserve \in Nat /\ n + f >= NSlots - Reserve
  BY <1>1, <1>2, HotTierAssumption DEF RoomInv
<1>4. CASE free # <<>> /\ free' = Tail(free) /\ Enter(e, s, Nil)
  <2>1. Resident' = (Resident \ {Nil}) \cup {e} /\ Nil \notin Resident
    BY <1>4, ListEntered, HotTierAssumption DEF Resident
  <2>2. Cardinality(Resident') = n + 1
    <3>1. Resident' = Resident \cup {e}
      BY <2>1
    <3>2. QED
      BY <3>1, <1>1, ResidentsCounted
  <2>3. Len(free') = f - 1
    BY <1>2, <1>4, FreeTaken
  <2>4. QED
    BY <1>3, <2>2, <2>3
<1>5. CASE free' = free /\ \E v \in Resident : Enter(e, s, v)
  <2>1. PICK v \in Resident : Enter(e, s, v)
    BY <1>5
  <2>2. Resident' = (Resident \ {v}) \cup {e}
    BY <2>1, ListEntered
  <2>3. IsFiniteSet(Resident \ {v}) /\ Cardinality(Resident \ {v}) = n - 1
    BY <1>1, ResidentsCounted, FS_RemoveElement
  <2>4. Cardinality((Resident \ {v}) \cup {e}) = n - 1 + 1
    BY <2>3, FS_AddElement
  <2>5. QED
    BY <1>2, <1>3, <1>5, <2>2, <2>4
<1>6. QED
  BY <1>4, <1>5 DEF Admit

LEMMA RoomInit == Init => RoomInv
<1> SUFFICES ASSUME Init PROVE RoomInv
  OBVIOUS
<1>1. NSlots \in Nat /\ Reserve \in Nat /\ TopK \in Nat
  BY HotTierAssumption
<1>2. Len(free) = NSlots /\ want = <<>>
  BY <1>1 DEF Init
<1>3. Cardinality(Resident) \in Nat
  BY ResidentsCounted
<1>4. QED
  BY <1>1, <1>2, <1>3 DEF RoomInv

LEMMA RoomStep == HotInv /\ TableInv /\ RoomInv /\ [Next]_vars => RoomInv'
<1> SUFFICES ASSUME HotInv, TableInv, RoomInv, [Next]_vars PROVE RoomInv'
  OBVIOUS
<1>t. /\ want \in Seq(Expert) /\ misses \subseteq DOMAIN want /\ SlotsInv
      /\ slotOf \in [Expert -> Slot \cup {Nil}] /\ free \in Seq(Slot)
  BY DEF HotInv, HotType, SlotsInv, FreeInv
<1>n. Nil \notin Slot /\ NSlots \in Nat /\ Reserve \in Nat /\ TopK \in Nat
  BY HotTierAssumption DEF Slot
<1>1. ASSUME NEW w \in Wants, Ensure(w) PROVE RoomInv'
  <2>1. free' = free /\ Resident' = Resident /\ want' = w
    BY <1>1 DEF Ensure, Resident
  <2>2. Len(w) <= TopK
    BY <1>n DEF Wants
  <2>3. QED
    BY <2>1, <2>2 DEF RoomInv
<1>2. CASE Miss
  <2>1. PICK i \in DOMAIN want : IsNext(i) /\ Serve(i)
    BY <1>2 DEF Miss
  <2>2. PICK e \in Expert : e = want[i]
    BY <1>t
  <2>3. PICK s \in Slot : Admit(e, s)
    BY <2>1, <2>2 DEF Serve
  <2>4. e \notin Resident /\ want' = want
    BY <1>2, <2>1, <2>2 DEF Miss, IsNext, TableInv
  <2>5. QED
    BY <1>t, <2>3, <2>4, RoomEntered DEF RoomInv
<1>3. CASE MissRaises
  <2>1. PICK i \in DOMAIN want, s \in Slot : IsNext(i) /\ Admit(want[i], s)
    BY <1>3 DEF MissRaises
  <2>2. PICK e \in Expert : e = want[i]
    BY <1>t
  <2>3. Admit(e, s)
    BY <2>1, <2>2
  <2>4. e \notin Resident /\ want' = want
    BY <1>3, <2>1, <2>2 DEF MissRaises, IsNext, TableInv
  <2>5. QED
    BY <1>t, <2>3, <2>4, RoomEntered DEF RoomInv
<1>4. CASE ShedOne
  <2>1. PICK v \in Resident : Shed(v)
    BY <1>4 DEF ShedOne
  <2>2. slotOf' = [slotOf EXCEPT ![v] = Nil] /\ free' = free
    BY <2>1 DEF Shed
  <2>3. want' = want /\ Cardinality(Resident) > SoftCap
    BY <1>4 DEF ShedOne, step
  <2>4. Resident' = Resident \ {v}
    BY <1>t, <2>2 DEF Resident
  <2>5. PICK n \in Nat : n = Cardinality(Resident)
    BY ResidentsCounted
  <2>6. Cardinality(Resident') = n - 1
    BY <2>4, <2>5, ResidentsCounted
  <2>7. PICK p \in Nat : p = Cardinality(Protected)
    BY <1>t, OnceCounted DEF TableInv, Protected
  <2>8. PICK r \in Int : /\ r = IF Reserve < NSlots - p THEN Reserve ELSE NSlots - p
                         /\ r <= Reserve
    BY <1>n
  <2>9. SoftCap = NSlots - r
    BY <2>7, <2>8 DEF SoftCap
  <2>10. PICK f \in Nat : f = Len(free)
    BY <1>t
  <2>11. (n - 1) + f >= NSlots - Reserve
    BY <1>n, <2>3, <2>5, <2>8, <2>9
  <2>12. QED
    BY <2>2, <2>3, <2>6, <2>10, <2>11 DEF RoomInv
<1>5. CASE EnsureReturns
  BY <1>5 DEF EnsureReturns, RoomInv, Resident
<1>6. CASE Submit
  BY <1>6 DEF Submit, pool, RoomInv, Resident
<1>7. CASE MarkSubmitted
  <2>1. UNCHANGED <<free, slotOf>> /\ want' = <<>>
    BY <1>7 DEF MarkSubmitted, pool
  <2>2. Len(want') = 0
    BY <2>1
  <2>3. QED
    BY <1>n, <2>1, <2>2 DEF RoomInv, Resident
<1>8. ASSUME NEW e \in Expert, Preload(e) PROVE RoomInv'
  <2>1. /\ free # <<>> /\ slotOf[e] = Nil /\ free' = Tail(free)
        /\ slotOf' = [slotOf EXCEPT ![e] = Head(free)]
    BY <1>8 DEF Preload
  <2>2. Head(free) \in Slot
    BY <1>t, <2>1
  <2>3. Resident' = Resident \cup {e} /\ e \notin Resident
    BY <1>t, <1>n, <2>1, <2>2 DEF Resident
  <2>4. PICK n \in Nat : n = Cardinality(Resident)
    BY ResidentsCounted
  <2>5. Cardinality(Resident') = n + 1
    BY <2>3, <2>4, ResidentsCounted
  <2>6. PICK f \in Nat : f = Len(free)
    BY <1>t
  <2>7. Len(free') = f - 1
    BY <1>t, <2>1, <2>6, FreeTaken
  <2>8. want' = want
    BY <1>8 DEF Preload, step
  <2>9. (n + 1) + (f - 1) = n + f
    OBVIOUS
  <2>10. QED
    BY <2>4, <2>5, <2>6, <2>7, <2>8, <2>9 DEF RoomInv
<1>9. ASSUME NEW e \in Expert, Prefetch(e) PROVE RoomInv'
  <2>1. want' = want
    BY <1>9 DEF Prefetch
  <2>2. CASE UNCHANGED <<free, slotOf>>
    BY <2>1, <2>2 DEF RoomInv, Resident
  <2>3. CASE slotOf[e] = Nil /\ free # <<>> /\ free' = Tail(free) /\ Enter(e, Head(free), Nil)
    <3>1. PICK s \in Slot : s = Head(free)
      BY <1>t, <2>3
    <3>2. e \notin Resident
      BY <2>3 DEF Resident
    <3>3. Resident' = (Resident \ {Nil}) \cup {e} /\ Nil \notin Resident
      BY <2>3, <3>1, <3>2, ListEntered, HotTierAssumption DEF Resident
    <3>4. PICK n \in Nat : n = Cardinality(Resident)
      BY ResidentsCounted
    <3>5. Cardinality(Resident') = n + 1
      <4>1. Resident' = Resident \cup {e}
        BY <3>3
      <4>2. QED
        BY <4>1, <3>2, <3>4, ResidentsCounted
    <3>6. PICK f \in Nat : f = Len(free)
      BY <1>t
    <3>7. Len(free') = f - 1
      BY <1>t, <2>3, <3>6, FreeTaken
    <3>8. (n + 1) + (f - 1) = n + f
      OBVIOUS
    <3>9. QED
      BY <2>1, <3>4, <3>5, <3>6, <3>7, <3>8 DEF RoomInv
  <2>4. QED
    BY <1>9, <2>2, <2>3 DEF Prefetch
<1>10. CASE LoadWarm
  BY <1>10 DEF LoadWarm, pool, step, RoomInv, Resident
<1>11. CASE Device
  BY <1>11 DEF Device, Copied, KernelBegins, KernelEnds, pool, step, RoomInv, Resident
<1>12. CASE UNCHANGED vars
  BY <1>12 DEF vars, pool, step, RoomInv, Resident
<1>13. QED
  BY <1>1, <1>2, <1>3, <1>4, <1>5, <1>6, <1>7, <1>8, <1>9, <1>10, <1>11, <1>12
  DEF Next, Host

(* No step of a router's ever finds every slot of the block protected,     *)
(* whatever mixture of preloads, prefetches and shed reserves came before  *)
(* (a shed slot is lost to the free list): the clamp of the reserve leaves *)
(* room for every expert a step can ask for.                               *)
THEOREM EvictionFindsAVictim == Spec => []VictimFound
<1>1. HotInv /\ TableInv /\ RoomInv => VictimFound
  <2> SUFFICES ASSUME HotInv, TableInv, RoomInv, pc = "miss", misses # {}, free = <<>>
               PROVE  \E v \in Resident : IsVictim(v)
    BY DEF VictimFound
  <2>1. want \in Seq(Expert) /\ misses \subseteq DOMAIN want
    BY DEF HotInv, HotType
  <2>2. PICK k \in Nat : k = Len(want) /\ k <= TopK
    BY <2>1 DEF RoomInv
  <2>3. /\ Protected \subseteq Expert /\ IsFiniteSet(Protected)
        /\ Cardinality(Protected) = k
    <3>1. Protected \subseteq Expert
      BY <2>1 DEF Protected, ToSet
    <3>2. QED
      BY <3>1, <2>1, <2>2, OnceCounted, HotTierAssumption, FS_Subset DEF TableInv, Protected
  <2>4. PICK e : e \in Protected /\ e \notin Resident
    BY <2>1 DEF TableInv, Protected, ToSet
  <2>5. PICK n \in Nat : n = Cardinality(Resident)
    BY ResidentsCounted
  <2>6. n >= k
    <3>1. Len(free) = 0
      OBVIOUS
    <3>2. n + 0 >= NSlots - Reserve
      BY <3>1, <2>5 DEF RoomInv
    <3>3. QED
      BY <3>2, <2>2, HotTierAssumption
  <2>7. ~ (Resident \subseteq Protected)
    <3> SUFFICES ASSUME Resident \subseteq Protected PROVE FALSE
      OBVIOUS
    <3>1. n <= k /\ (n = k => Resident = Protected)
      BY <2>3, <2>5, FS_Subset
    <3>2. QED
      BY <2>4, <2>6, <3>1
  <2>8. PICK m \in Nat : m = Len(lru) /\ DOMAIN lru = 1..m
    BY DEF TableInv
  <2> DEFINE Open == {i \in 1..m : lru[i] \notin Protected}
  <2>9. Open # {}
    BY <2>7, <2>8 DEF TableInv, ToSet
  <2>10. PICK i \in Open : \A j \in Open : ~ (<<j, i>> \in OpToRel(<, Nat))
    <3>1. Open \subseteq Nat
      OBVIOUS
    <3> HIDE DEF Open
    <3>2. QED
      BY <3>1, <2>9, WFMin, NatLessThanWellFounded
  <2>11. \A j \in 1..(i - 1) : lru[j] \in Protected
    <3> SUFFICES ASSUME NEW j \in 1..(i - 1), lru[j] \notin Protected PROVE FALSE
      OBVIOUS
    <3>1. j \in 1..m /\ j < i /\ j \in Nat /\ i \in Nat
      OBVIOUS
    <3>2. j \in Open
      BY <3>1
    <3>3. <<j, i>> \in OpToRel(<, Nat)
      BY <3>1 DEF OpToRel
    <3>4. QED
      BY <2>10, <3>2, <3>3
  <2>12. lru[i] \in Resident
    BY <2>8 DEF TableInv, ToSet
  <2>13. IsVictim(lru[i])
    BY <2>8, <2>11 DEF IsVictim
  <2>14. QED
    BY <2>12, <2>13
<1>2. QED
  BY <1>1, HotInit, HotStep, ListInit, ListStep, RoomInit, RoomStep, PTL DEF Spec
=============================================================================
