----------------------------- MODULE TierProofs -----------------------------
(***************************************************************************)
(* Proofs about Tier, for every number of tensors, experts and device      *)
(* slots, every budget and every width of the protection window.           *)
(***************************************************************************)
EXTENDS Tier, FiniteSetTheorems, SequenceTheorems, NaturalsInduction,
        WellFoundedInduction, TLAPS

(* Stamping keeps an entry's identity, and moves its epoch to the present. *)
LEMMA StampType ==
  ASSUME TypeOK, NEW A \in SUBSET Held
  PROVE  /\ Stamp(A) \in [Addr -> Entry \cup {Nil}]
         /\ Cardinality(A) \in Nat
<1>1. IsFiniteSet(Addr)
  BY TierAssumption, FS_Union DEF Addr
<1>2. \A B : B \subseteq Addr => IsFiniteSet(B) /\ Cardinality(B) \in Nat
  BY <1>1, FS_Subset, FS_CardinalityType
<1>3. A \subseteq Addr
  BY DEF Held
<1>4. ASSUME NEW a \in A
      PROVE  /\ tab[a] \in Entry
             /\ tick + Cardinality({b \in A : tab[b].pos <= tab[a].pos}) \in Nat
  <2>1. Cardinality({b \in A : tab[b].pos <= tab[a].pos}) \in Nat
    BY <1>2, <1>3
  <2>2. QED
    BY <1>3, <1>4, <2>1 DEF Held, TypeOK
<1>5. epoch \in Nat
  BY DEF TypeOK
<1>6. ASSUME NEW a \in A
      PROVE  [tab[a] EXCEPT !.epoch = epoch,
               !.touch = tick + Cardinality({b \in A : tab[b].pos <= tab[a].pos})] \in Entry
  BY <1>4, <1>5 DEF Entry
<1>7. QED
  BY <1>2, <1>3, <1>6 DEF Stamp, TypeOK

(* There are finitely many device slots to count.                          *)
LEMMA FiniteAddr ==
  /\ IsFiniteSet(Addr)
  /\ \A B \in SUBSET Addr : Cardinality(B) \in Nat
<1>1. IsFiniteSet(Addr)
  BY TierAssumption, FS_Union DEF Addr
<1>2. QED
  BY <1>1, FS_Subset, FS_CardinalityType

(* The experts of an id list can be counted (what a call adds to asked).   *)
LEMMA ExpertsOfCount ==
  ASSUME NEW list \in Seq(Expert \cup OutOfRange)
  PROVE  Cardinality(ExpertsOf(list)) \in Nat
<1>1. IsFiniteSet(Expert \cup OutOfRange)
  BY TierAssumption, FS_Union
<1>2. ExpertsOf(list) \subseteq Expert \cup OutOfRange
  BY DEF ExpertsOf
<1>3. QED
  BY <1>1, <1>2, FS_Subset, FS_CardinalityType

(* The first token's row of an id list is an id list.                      *)
LEMMA RowType ==
  ASSUME NEW list \in Seq(Expert \cup OutOfRange)
  PROVE  Row(list) \in Seq(Expert \cup OutOfRange)
<1> DEFINE n == IF NIds < Len(list) THEN NIds ELSE Len(list)
<1>1. n \in Nat /\ n <= Len(list)
  BY TierAssumption
<1>2. \A i \in 1..n : list[i] \in Expert \cup OutOfRange
  BY <1>1
<1>3. QED
  BY <1>1, <1>2, SubSeqProperties DEF Row

(* What the chain learns, and whom it names as followers, are tensors.     *)
LEMMA ClosedLinksType ==
  ASSUME TypeOK, cur \in Source
  PROVE  /\ ClosedLinks \in [Source -> [next : Source, shares : BOOLEAN] \cup {Nil}]
         /\ Followers \in Seq(Source)
<1>1. ClosedLinks \in [Source -> [next : Source, shares : BOOLEAN] \cup {Nil}]
  <2>1. CASE prevSource \in {Nil, cur}
    BY <2>1 DEF ClosedLinks, TypeOK
  <2>2. CASE prevSource \notin {Nil, cur}
    <3>1. prevSource \in Source
      BY <2>2 DEF TypeOK
    <3>2. [next |-> cur, shares |-> prevIds = Row(idsRaw)] \in [next : Source, shares : BOOLEAN]
      OBVIOUS
    <3>3. QED
      BY <2>2, <3>1, <3>2 DEF ClosedLinks, TypeOK
  <2>3. QED
    BY <2>1, <2>2
<1>2. \A s \in Source : Follows(s) => ClosedLinks[s].next \in Source
  BY <1>1 DEF Follows
<1>3. QED
  BY <1>1, <1>2 DEF Followers

(* A residency snapshot points at entries in use.                          *)
LEMMA SnapshotType ==
  ASSUME TypeOK, NEW s \in Source
  PROVE  /\ Resident(s) \in SUBSET Held
         /\ Snapshot(s) \subseteq [expert : Expert, addr : Addr]
BY DEF Snapshot, Resident, Held, TypeOK, Entry, IsFirst

(* Issuing transfers of the call's misses keeps the device's types.        *)
LEMMA IssueType ==
  ASSUME TypeOK, NEW n \in Nat, n <= Len(miss), Issue(n)
  PROVE  issued' \in Nat /\ last' \in [Addr -> Transfer \cup {Nil}]
<1>1. \A i \in 1..n : miss[i] \in Pointer
  BY DEF TypeOK
<1>2. ASSUME NEW a \in Addr, \E i \in 1..n : miss[i].addr = a
      PROVE  LET i == CHOOSE j \in 1..n : miss[j].addr = a
             IN  [source |-> miss[i].source, expert |-> miss[i].expert,
                  no |-> issued + i] \in Transfer
  <2> DEFINE i == CHOOSE j \in 1..n : miss[j].addr = a
  <2>1. i \in 1..n
    BY <1>2
  <2>2. QED
    BY <1>1, <2>1 DEF TypeOK, Pointer, Transfer
<1>3. \A a \in Addr : last'[a] \in Transfer \cup {Nil}
  <2> SUFFICES ASSUME NEW a \in Addr
               PROVE  last'[a] \in Transfer \cup {Nil}
    OBVIOUS
  <2>1. CASE \E i \in 1..n : miss[i].addr = a
    BY <1>2, <2>1 DEF Issue
  <2>2. CASE ~ \E i \in 1..n : miss[i].addr = a
    BY <2>2 DEF Issue, TypeOK
  <2>3. QED
    BY <2>1, <2>2
<1>4. last' = [a \in Addr |-> last'[a]]
  BY DEF Issue
<1>5. issued' \in Nat
  BY DEF Issue, TypeOK
<1>6. QED
  BY <1>3, <1>4, <1>5

(* The locals of the next call, when the one in progress is over.          *)
LEMMA NoCallType ==
  ASSUME NoCall
  PROVE  /\ cur' = Nil /\ doing' = Nil
         /\ handed' \in Seq(Expert \cup OutOfRange)
         /\ adjacent' \in BOOLEAN /\ reuse' \in BOOLEAN /\ following' \in BOOLEAN
         /\ rest' \in Seq(Source) /\ k' \in Nat \ {0}
         /\ memo' \in [Source -> SUBSET [expert : Expert, addr : Addr]]
         /\ ptrs' \subseteq Pointer /\ miss' \in Seq(Pointer)
<1>1. memo' \in [Source -> SUBSET [expert : Expert, addr : Addr]]
  BY DEF NoCall, EmptyMemo
<1>2. handed' \in Seq(Expert \cup OutOfRange) /\ rest' \in Seq(Source) /\ miss' \in Seq(Pointer)
  BY EmptySeq DEF NoCall
<1>3. adjacent' \in BOOLEAN /\ reuse' \in BOOLEAN /\ following' \in BOOLEAN
  BY Zenon DEF NoCall
<1>4. k' \in Nat \ {0}
  BY DEF NoCall
<1>5. cur' = Nil /\ doing' = Nil /\ ptrs' \subseteq Pointer
  BY Zenon DEF NoCall
<1>6. QED
  BY <1>1, <1>2, <1>3, <1>4, <1>5, Zenon

(* A call that fails leaves the host idle or stopped, with no locals.      *)
LEMMA FailType ==
  ASSUME Fail
  PROVE  pc' \in {"idle", "aborted"} /\ NoCall
BY HostAssumption DEF Fail

(* Every step of the tier keeps the types.                                 *)
LEMMA TypeNext == TypeOK /\ [Next]_vars => TypeOK'
<1> SUFFICES ASSUME TypeOK, [Next]_vars
             PROVE  TypeOK'
  OBVIOUS
<1> USE TierAssumption
<1>1. ASSUME NEW s \in Source, NEW list \in IdLists, Call(s, list)
      PROVE  TypeOK'
  <2>1. list \in Seq(Expert \cup OutOfRange)
    OBVIOUS
  <2>2. groupLen' \in 0..GroupMax /\ pc' \in {"prime", "drain"} /\ pc = "idle"
    BY <1>1 DEF TypeOK, Call, GroupIsOpen
  <2>3. adjacent' \in BOOLEAN /\ reuse' \in BOOLEAN
    BY <1>1 DEF TypeOK, Call, Adjacent, GroupIsOpen
  <2>4. epoch' \in Nat /\ cur' = s /\ handed' = list
    BY <1>1 DEF TypeOK, Call
  <2>5. QED
    BY <1>1, <2>1, <2>2, <2>3, <2>4 DEF TypeOK, Call, tier, chain, device
<1>2. CASE Refuse
  BY <1>2, FailType, NoCallType DEF TypeOK, Refuse, tier, ids, chain, device
<1>3. CASE Drain
  <2>1. idsRaw' \in Seq(Expert \cup OutOfRange) /\ lastLen' \in Nat
    BY <1>3 DEF TypeOK, Drain
  <2>2. lastKey' \in Layer \cup {Nil}
    BY <1>3 DEF TypeOK, Drain
  <2>3. QED
    BY <1>3, <2>1, <2>2, EmptySeq DEF TypeOK, Drain, tier, chain, device
<1>4. CASE Prime
  <2>1. cur \in Source /\ pc' = "slots"
    BY <1>4 DEF TypeOK, Prime
  <2>2. links' \in [Source -> [next : Source, shares : BOOLEAN] \cup {Nil}]
        /\ rest' \in Seq(Source)
    BY <1>4, <2>1, ClosedLinksType DEF Prime
  <2>3. prevSource' \in Source /\ prevIds' \in Seq(Expert \cup OutOfRange)
    BY <1>4, <2>1, RowType DEF Prime, TypeOK
  <2>4. tab' \in [Addr -> Entry \cup {Nil}] /\ tick' \in Nat /\ hits' \in Nat
    <3> DEFINE A == IF Small THEN Resident(cur) ELSE {}
    <3>1. A \in SUBSET Held
      BY <2>1, SnapshotType
    <3>2. Stamp(A) \in [Addr -> Entry \cup {Nil}] /\ Cardinality(A) \in Nat
      BY <3>1, StampType
    <3>3. tab' = Stamp(A) /\ tick' = tick + Cardinality(A) /\ hits' = hits + Cardinality(A)
      BY <1>4 DEF Prime
    <3> HIDE DEF A
    <3>4. tick \in Nat /\ hits \in Nat
      BY DEF TypeOK
    <3>5. QED
      BY <3>2, <3>3, <3>4
  <2>5. memo' \in [Source -> SUBSET [expert : Expert, addr : Addr]]
    BY <1>4, <2>1, SnapshotType DEF Prime, EmptyMemo
  <2>6. asked' \in Nat
    <3>1. Cardinality(ExpertsOf(idsRaw)) \in Nat /\ Len(idsRaw) \in Nat
      BY ExpertsOfCount DEF TypeOK
    <3>2. QED
      BY <1>4, <3>1 DEF Prime, TypeOK
  <2>7. doing' = cur /\ k' = 1 /\ UNCHANGED <<cur, bytes, misses, epoch>>
    BY <1>4 DEF Prime
  <2>8. UNCHANGED <<handed, adjacent, reuse, following, ptrs, miss, device, ids>>
    BY <1>4 DEF Prime
  <2>9. pc' = "slots" /\ cur' \in Source /\ doing' \in Source
    BY <2>1, <2>7
  <2>10. /\ handed' \in Seq(Expert \cup OutOfRange) /\ adjacent' \in BOOLEAN
         /\ reuse' \in BOOLEAN /\ following' \in BOOLEAN
         /\ ptrs' \subseteq Pointer /\ miss' \in Seq(Pointer)
         /\ running' \subseteq [epoch : Nat, ptrs : SUBSET Pointer, waits : Nat]
         /\ issued' \in Nat /\ last' \in [Addr -> Transfer \cup {Nil}]
    BY <2>8 DEF TypeOK, device
  <2>11. /\ idsRaw' \in Seq(Expert \cup OutOfRange) /\ lastKey' \in Layer \cup {Nil}
         /\ lastLen' \in Nat /\ groupLen' \in 0..GroupMax
    BY <2>8 DEF TypeOK, ids
  <2>12. bytes' \in Int /\ misses' \in Nat /\ epoch' \in Nat /\ k' \in Nat \ {0}
    BY <2>7 DEF TypeOK
  <2>13. QED
    BY <2>2, <2>3, <2>4, <2>5, <2>6, <2>9, <2>10, <2>11, <2>12 DEF TypeOK
<1>5. CASE PrimeFollower
  <2>1. Head(rest) \in Source /\ Tail(rest) \in Seq(Source)
    BY <1>5, HeadTailProperties DEF PrimeFollower, TypeOK
  <2>2. tab' \in [Addr -> Entry \cup {Nil}] /\ tick' \in Nat
    <3>1. Resident(Head(rest)) \in SUBSET Held
      BY <2>1, SnapshotType
    <3>2. /\ tab' = Stamp(Resident(Head(rest)))
          /\ tick' = tick + Cardinality(Resident(Head(rest)))
      BY <1>5 DEF PrimeFollower
    <3>3. tick \in Nat
      BY DEF TypeOK
    <3>4. QED
      BY <3>1, <3>2, <3>3, StampType
  <2>3. memo' \in [Source -> SUBSET [expert : Expert, addr : Addr]]
    BY <1>5, <2>1, SnapshotType DEF PrimeFollower, TypeOK
  <2>4. /\ pc = "slots" /\ pc' = "slots" /\ doing' = Head(rest) /\ rest' = Tail(rest)
        /\ k' = 1 /\ following' = TRUE
        /\ UNCHANGED <<bytes, hits, misses, epoch, ids, chain, cur, handed, adjacent,
                       reuse, ptrs, miss, device, asked>>
    BY <1>5 DEF PrimeFollower
  <2>5. QED
    BY <2>1, <2>2, <2>3, <2>4 DEF TypeOK, ids, chain, device
<1>19. CASE DrainFails
  BY <1>19, FailType, NoCallType DEF TypeOK, DrainFails, tier, ids, chain, device
<1>6. CASE BadExpert
  BY <1>6, FailType, NoCallType DEF TypeOK, BadExpert, tier, ids, chain, device
<1>7. CASE Hit
  <2>1. PICK a \in Found : IsFirst(a, Found) /\ Point(a) /\
             (IF Small THEN UNCHANGED <<tab, tick, hits>>
              ELSE tab' = Stamp({a}) /\ tick' = tick + 1 /\ hits' = hits + 1)
    BY <1>7 DEF Hit
  <2>2. doing \in Source /\ Wanted \in Expert
    BY <1>7 DEF Hit, Looking, TypeOK
  <2>3. a \in Addr /\ (~Small => {a} \in SUBSET Held)
    <3>1. CASE Small
      <4>1. memo[doing] \subseteq [expert : Expert, addr : Addr]
        BY <2>2 DEF TypeOK
      <4>2. PICK h \in memo[doing] : a = h.addr
        BY <3>1, <2>1 DEF Found
      <4>3. QED
        BY <3>1, <4>1, <4>2
    <3>2. CASE ~Small
      BY <3>2, <2>1 DEF Found, Matches, Held
    <3>3. QED
      BY <3>1, <3>2
  <2>4. tab' \in [Addr -> Entry \cup {Nil}] /\ tick' \in Nat /\ hits' \in Nat
    <3>1. CASE Small
      BY <2>1, <3>1 DEF TypeOK
    <3>2. CASE ~Small
      <4>1. Stamp({a}) \in [Addr -> Entry \cup {Nil}]
        BY <2>3, <3>2, StampType
      <4>2. tick \in Nat /\ hits \in Nat
        BY DEF TypeOK
      <4>3. tab' = Stamp({a}) /\ tick' = tick + 1 /\ hits' = hits + 1
        BY <2>1, <3>2
      <4>4. tick' \in Nat /\ hits' \in Nat
        BY <4>2, <4>3
      <4>5. QED
        BY <4>1, <4>3, <4>4, Zenon
    <3>3. QED
      BY <3>1, <3>2
  <2>5. k' \in Nat \ {0} /\ ptrs' \subseteq Pointer
    BY <2>1, <2>2, <2>3 DEF Point, TypeOK, Pointer
  <2>6. QED
    BY <1>7, <2>4, <2>5 DEF TypeOK, Hit, ids, chain, device
<1>8. ASSUME NEW v \in Addr, Evict(v)
      PROVE  TypeOK'
  <2>1. v \in Held /\ tab[v] \in Entry
    BY <1>8 DEF Evict, IsVictim, Evictable, Held, TypeOK
  <2>2. bytes' \in Int
    <3>1. tab[v].source \in Source
      BY <2>1 DEF Entry
    <3>2. Bytes[tab[v].source] \in Int
      BY <3>1
    <3>3. bytes \in Int
      BY DEF TypeOK
    <3>4. bytes' = bytes - Bytes[tab[v].source]
      BY <1>8 DEF Evict, Freed
    <3>5. QED
      BY <3>2, <3>3, <3>4
  <2>3. tab' \in [Addr -> Entry \cup {Nil}]
    <3>1. \A a \in Held : [tab[a] EXCEPT !.pos = tab[v].pos] \in Entry
      BY <2>1 DEF Held, TypeOK, Entry
    <3>2. QED
      BY <1>8, <3>1 DEF Evict, TypeOK
  <2>4. QED
    BY <1>8, <2>2, <2>3 DEF TypeOK, Evict, ids, chain, local, device
<1>9. ASSUME NEW a \in Addr, Reserve(a)
      PROVE  TypeOK'
  <2>1. doing \in Source /\ Wanted \in Expert /\ pc = "slots"
    BY <1>9 DEF Reserve, Reserving, Looking, TypeOK
  <2>2. Cardinality(Held) \in Nat
    BY FiniteAddr DEF Held
  <2>3. tab' \in [Addr -> Entry \cup {Nil}] /\ tick' \in Nat
    <3>1. [source |-> doing, expert |-> Wanted, touch |-> tick + 1, epoch |-> epoch,
           filled |-> FALSE, pos |-> Cardinality(Held) + 1] \in Entry
      BY <2>1, <2>2 DEF TypeOK, Entry
    <3>2. QED
      BY <1>9, <3>1 DEF Reserve, TypeOK
  <2>4. bytes' \in Int /\ misses' \in Nat
    BY <1>9, <2>1 DEF Reserve, TypeOK
  <2>5. miss' \in Seq(Pointer)
    BY <1>9, <2>1, AppendProperties DEF Reserve, TypeOK, Pointer
  <2>6. memo' \in [Source -> SUBSET [expert : Expert, addr : Addr]]
    BY <1>9, <2>1 DEF Reserve, TypeOK
  <2>7. k' \in Nat \ {0} /\ ptrs' \subseteq Pointer
    BY <1>9, <2>1 DEF Reserve, Point, TypeOK, Pointer
  <2>8. QED
    BY <1>9, <2>3, <2>4, <2>5, <2>6, <2>7 DEF TypeOK, Reserve, ids, chain, device
<1>10. CASE ReserveFails
  <2>1. Fail /\ misses' = misses + 1
        /\ UNCHANGED <<tab, bytes, tick, hits, epoch, asked>>
    BY <1>10 DEF ReserveFails
  <2>2. UNCHANGED <<ids, chain, device>>
    BY <1>10 DEF ReserveFails
  <2>3. QED
    BY <2>1, <2>2, FailType, NoCallType DEF TypeOK, ids, chain, device
<1>11. CASE Fill
  <2>1. \A a \in Addr : tab[a] \in Entry => [tab[a] EXCEPT !.filled = TRUE] \in Entry
    BY DEF Entry
  <2>2. tab' \in [Addr -> Entry \cup {Nil}]
    BY <1>11, <2>1 DEF Fill, Marked, IsFirst, Matches, Held, TypeOK
  <2>3. Len(miss) \in Nat /\ Len(miss) <= Len(miss)
    BY DEF TypeOK
  <2>4. issued' \in Nat /\ last' \in [Addr -> Transfer \cup {Nil}]
    BY <1>11, <2>3, IssueType DEF Fill
  <2>5. pc = "slots" /\ pc' = "launch"
    BY <1>11 DEF Fill, AllPlaced
  <2>6. QED
    BY <1>11, <2>2, <2>4, <2>5 DEF TypeOK, Fill, ids, chain, local
<1>12. CASE FillFails
  <2>1. PICK n \in 0..Len(miss) - 1 : Issue(n)
    BY <1>12 DEF FillFails
  <2>2. n \in Nat /\ n <= Len(miss)
    BY DEF TypeOK
  <2>3. issued' \in Nat /\ last' \in [Addr -> Transfer \cup {Nil}]
    BY <2>1, <2>2, IssueType
  <2>4. QED
    BY <1>12, FailType, NoCallType, <2>3 DEF TypeOK, FillFails, tier, ids, chain
<1>13. CASE Launch
  <2>1. [epoch |-> epoch, ptrs |-> ptrs, waits |-> Awaited]
          \in [epoch : Nat, ptrs : SUBSET Pointer, waits : Nat]
    BY DEF TypeOK, Awaited
  <2>2. QED
    BY <1>13, NoCallType, <2>1 DEF TypeOK, Launch, tier, ids, chain
<1>14. CASE LaunchFails
  BY <1>14, FailType, NoCallType DEF TypeOK, LaunchFails, tier, ids, chain, device
<1>15. CASE Retire
  BY <1>15 DEF TypeOK, Retire, tier, ids, chain, local
<1>16. CASE Restart
  BY <1>16 DEF TypeOK, Restart, ids, chain, local
<1>17. CASE UNCHANGED vars
  BY <1>17 DEF TypeOK, vars, tier, ids, chain, local, device
<1>18. QED
  BY <1>1, <1>2, <1>3, <1>4, <1>5, <1>6, <1>7, <1>8, <1>9, <1>10, <1>11, <1>12,
     <1>13, <1>14, <1>15, <1>16, <1>17, <1>19 DEF Next, Serve

(* A tier just initialised has its types.                                  *)
LEMMA TypeInit == Init => TypeOK
<1> SUFFICES ASSUME Init
             PROVE  TypeOK
  OBVIOUS
<1>1. groupLen \in 0..GroupMax
  BY TierAssumption DEF Init
<1>2. memo \in [Source -> SUBSET [expert : Expert, addr : Addr]]
  BY DEF Init, EmptyMemo
<1>3. /\ tab \in [Addr -> Entry \cup {Nil}] /\ last \in [Addr -> Transfer \cup {Nil}]
      /\ links \in [Source -> [next : Source, shares : BOOLEAN] \cup {Nil}]
  BY DEF Init
<1>4. /\ idsRaw \in Seq(Expert \cup OutOfRange) /\ handed \in Seq(Expert \cup OutOfRange)
      /\ prevIds \in Seq(Expert \cup OutOfRange)
      /\ rest \in Seq(Source) /\ miss \in Seq(Pointer)
  BY EmptySeq DEF Init
<1>5. /\ adjacent \in BOOLEAN /\ reuse \in BOOLEAN /\ following \in BOOLEAN
      /\ ptrs \subseteq Pointer
      /\ running \subseteq [epoch : Nat, ptrs : SUBSET Pointer, waits : Nat]
  BY Zenon DEF Init
<1>6. /\ lastKey = Nil /\ prevSource = Nil /\ cur = Nil /\ doing = Nil /\ pc = "idle"
      /\ bytes = 0 /\ tick = 0 /\ epoch = 0 /\ hits = 0 /\ misses = 0 /\ asked = 0
      /\ lastLen = 0 /\ k = 1 /\ issued = 0
  BY DEF Init
<1>7. QED
  BY <1>1, <1>2, <1>3, <1>4, <1>5, <1>6 DEF TypeOK

(* Every variable of the tier keeps its type in every run.                 *)
THEOREM TypeCorrect == Spec => []TypeOK
BY TypeInit, TypeNext, PTL DEF Spec

-----------------------------------------------------------------------------
(* Slots are protected: SlotInv is inductive.                              *)

(* A step that at most moves entries to the current epoch.                 *)
KeepsEntries ==
  \A a \in Held :
    /\ tab'[a] # Nil
    /\ tab'[a].source = tab[a].source /\ tab'[a].expert = tab[a].expert
    /\ tab'[a].epoch = tab[a].epoch \/ tab'[a].epoch = epoch

(* Such a step, or a reservation, keeps what holds of an entry in use.     *)
LEMMA EntriesKept ==
  ASSUME TypeOK, KeepsEntries, epoch' = epoch,
         NEW a, NEW s, NEW e
  PROVE  /\ Holds(a, s, e) => Holds(a, s, e)'
         /\ HoldsNow(a, s, e) => HoldsNow(a, s, e)'
BY DEF KeepsEntries, Holds, HoldsNow, Matches, Held

(* A step that keeps the entries keeps what the running kernels read.      *)
LEMMA KernelsKept ==
  ASSUME TypeOK, EpochInv, KernelInv, KeepsEntries, epoch' = epoch,
         running' = running
  PROVE  KernelInv'
<1> SUFFICES ASSUME NEW q \in running
             PROVE  /\ q.epoch <= epoch
                    /\ \A p \in q.ptrs : /\ Holds(p.addr, p.source, p.expert)'
                                         /\ q.epoch <= tab'[p.addr].epoch
  BY DEF KernelInv
<1>1. q.epoch <= epoch
  BY DEF KernelInv
<1>2. ASSUME NEW p \in q.ptrs
      PROVE  Holds(p.addr, p.source, p.expert)' /\ q.epoch <= tab'[p.addr].epoch
  <2>1. Holds(p.addr, p.source, p.expert) /\ q.epoch <= tab[p.addr].epoch
    BY <1>2 DEF KernelInv
  <2>2. tab'[p.addr].epoch = tab[p.addr].epoch \/ tab'[p.addr].epoch = epoch
    BY <2>1 DEF KeepsEntries, Holds, Matches
  <2>3. QED
    BY <1>1, <2>1, <2>2, EntriesKept
<1>3. QED
  BY <1>1, <1>2

(* Stamping is such a step, and leaves no entry from the future.           *)
LEMMA StampKeeps ==
  ASSUME TypeOK, EpochInv, NEW A \in SUBSET Held, tab' = Stamp(A), epoch' = epoch
  PROVE  /\ KeepsEntries /\ EpochInv'
         /\ \A a \in A : tab'[a].epoch = epoch
<1>1. tab \in [Addr -> Entry \cup {Nil}] /\ epoch \in Nat
  BY DEF TypeOK
<1>2. ASSUME NEW a \in A
      PROVE  /\ tab'[a] # Nil /\ tab'[a].epoch = epoch
             /\ tab'[a].source = tab[a].source /\ tab'[a].expert = tab[a].expert
  <2>1. tab[a] \in Entry /\ a \in Addr
    BY <1>1 DEF Held
  <2>2. tab'[a] = [tab[a] EXCEPT !.epoch = epoch,
                     !.touch = tick + Cardinality({b \in A : tab[b].pos <= tab[a].pos})]
    BY <2>1 DEF Stamp
  <2>3. tab'[a] # Nil
    <3>1. Stamp(A) \in [Addr -> Entry \cup {Nil}]
      BY StampType
    <3>2. tick + Cardinality({b \in A : tab[b].pos <= tab[a].pos}) \in Nat
      <4>1. {b \in A : tab[b].pos <= tab[a].pos} \in SUBSET Addr
        BY DEF Held
      <4>2. Cardinality({b \in A : tab[b].pos <= tab[a].pos}) \in Nat
        BY <4>1, FiniteAddr
      <4>3. QED
        BY <4>2 DEF TypeOK
    <3>3. tab'[a] \in Entry
      BY <1>1, <2>1, <2>2, <3>2 DEF Entry
    <3>4. QED
      BY <3>3, TierAssumption
  <2>4. QED
    BY <2>1, <2>2, <2>3 DEF Entry
<1>3. ASSUME NEW a \in Addr, a \notin A
      PROVE  tab'[a] = tab[a]
  BY <1>3 DEF Stamp
<1>4. KeepsEntries
  BY <1>2, <1>3 DEF KeepsEntries, Held
<1>5. EpochInv'
  <2>1. \A a \in Addr : tab'[a] # Nil => tab'[a].epoch <= epoch
    BY <1>1, <1>2, <1>3 DEF EpochInv, Held
  <2>2. QED
    BY <2>1 DEF EpochInv, Held
<1>6. QED
  BY <1>2, <1>4, <1>5

(* So is a fill.                                                           *)
LEMMA FillKeeps ==
  ASSUME TypeOK, Fill
  PROVE  KeepsEntries /\ \A a \in Addr : tab'[a] # Nil => a \in Held
<1>1. \A a \in Held : tab[a] \in Entry /\ [tab[a] EXCEPT !.filled = TRUE] \in Entry
  BY DEF TypeOK, Held, Entry
<1>2. \A a \in Addr : \/ tab'[a] = tab[a]
                      \/ a \in Held /\ tab'[a] = [tab[a] EXCEPT !.filled = TRUE]
  <2>1. \A a \in Addr : Marked(a) => a \in Held
    BY DEF Marked, IsFirst, Matches
  <2>2. \A a \in Addr : \/ tab'[a] = tab[a]
                        \/ Marked(a) /\ tab'[a] = [tab[a] EXCEPT !.filled = TRUE]
    BY DEF Fill
  <2>3. QED
    BY <2>1, <2>2, Zenon
<1>3. ASSUME NEW a \in Held
      PROVE  /\ tab'[a] \in Entry
             /\ tab'[a].source = tab[a].source /\ tab'[a].expert = tab[a].expert
             /\ tab'[a].epoch = tab[a].epoch
  <2>1. CASE tab'[a] = tab[a]
    BY <1>1, <2>1
  <2>2. CASE tab'[a] = [tab[a] EXCEPT !.filled = TRUE]
    BY <1>1, <2>2 DEF Entry
  <2>3. QED
    BY <1>2, <2>1, <2>2 DEF Held
<1>4. KeepsEntries
  BY <1>3, TierAssumption DEF KeepsEntries
<1>5. QED
  BY <1>2, <1>4 DEF Held

(* A snapshot holds what its tensor's stamped entries hold.                *)
LEMMA SnapshotHolds ==
  ASSUME TypeOK, EpochInv, NEW s \in Source, tab' = Stamp(Resident(s)),
         epoch' = epoch, NEW h \in Snapshot(s)
  PROVE  HoldsNow(h.addr, s, h.expert)'
<1>1. PICK a \in Resident(s) : h = [expert |-> tab[a].expert, addr |-> a]
  BY DEF Snapshot
<1>2. Resident(s) \in SUBSET Held
  BY SnapshotType
<1>3. KeepsEntries /\ tab'[a].epoch = epoch
  BY <1>2, StampKeeps
<1>4. h.addr = a /\ Holds(h.addr, s, h.expert)
  BY <1>1 DEF Holds, Matches, Resident
<1>5. Holds(h.addr, s, h.expert)'
  BY <1>3, <1>4, EntriesKept
<1>6. QED
  BY <1>3, <1>4, <1>5 DEF HoldsNow

(* Over a call that fails or returns, no local survives.                   *)
LEMMA NoCallSlots ==
  ASSUME NoCall
  PROVE  ptrs' = {} /\ memo' = EmptyMemo /\ miss' = <<>> /\ CallInv'
<1>1. ptrs' = {} /\ memo' = EmptyMemo /\ miss' = <<>>
  BY DEF NoCall
<1>2. \A s \in Source : memo'[s] = {}
  BY <1>1 DEF EmptyMemo
<1>3. QED
  BY <1>1, <1>2 DEF CallInv

(* A failing call leaves the table as it is; a host that passes a key is   *)
(* then stopped.                                                           *)
LEMMA FailSlots ==
  ASSUME TypeOK, SlotInv, Fail, UNCHANGED <<tab, groupLen, running>>,
         epoch' = epoch \/ epoch' = epoch + 1
  PROVE  SlotInv'
<1>1. pc' \in {"idle", "aborted"} /\ (PassIdsKey => pc' = "aborted")
  BY HostAssumption DEF Fail
<1>2. CallInv'
  BY NoCallSlots DEF Fail
<1>3. WindowInv'
  BY <1>1 DEF WindowInv
<1>4. epoch \in Nat /\ \A a \in Held : tab[a].epoch \in Nat
  BY DEF TypeOK, Held, Entry
<1>5. EpochInv'
  BY <1>4 DEF SlotInv, EpochInv, Held
<1>6. KernelInv'
  <2>1. \A q \in running : q.epoch \in Nat
    BY DEF TypeOK
  <2>2. QED
    BY <1>4, <2>1 DEF SlotInv, KernelInv, Holds, Matches, Held
<1>7. QED
  BY <1>2, <1>3, <1>5, <1>6 DEF SlotInv

(* Between two calls only the epoch moves; within one, only the entries.   *)
LEMMA WindowKept ==
  ASSUME TypeOK, WindowInv, epoch' = epoch, groupLen' = groupLen,
         running' \subseteq running,
         pc \in {"prime", "slots"}, pc' \in {"slots", "launch"}
  PROVE  WindowInv'
BY DEF WindowInv

(* Every step of the tier keeps the slots of the call in progress and of   *)
(* the running kernels.                                                    *)
LEMMA SlotNext == TypeOK /\ SlotInv /\ [Next]_vars => SlotInv'
<1> SUFFICES ASSUME TypeOK, SlotInv, [Next]_vars
             PROVE  SlotInv'
  OBVIOUS
<1>0. /\ EpochInv /\ CallInv /\ KernelInv /\ WindowInv
      /\ epoch \in Nat /\ groupLen \in 0..GroupMax /\ GroupMax \in Nat \ {0}
      /\ \A a \in Held : tab[a] \in Entry /\ tab[a].epoch \in Nat
      /\ \A q \in running : q.epoch \in Nat
  BY TierAssumption DEF SlotInv, TypeOK, Held, Entry
<1>1. ASSUME NEW s \in Source, NEW list \in IdLists, Call(s, list)
      PROVE  SlotInv'
  <2>1. /\ pc = "idle" /\ epoch' = epoch + 1
        /\ UNCHANGED <<tab, running, ptrs, memo>>
    BY <1>1 DEF Call, tier, device
  <2>2. EpochInv'
    BY <1>0, <2>1 DEF EpochInv, Held
  <2>3. CallInv'
    BY <1>0, <2>1 DEF CallInv, EmptyMemo
  <2>4. KernelInv'
    BY <1>0, <2>1 DEF KernelInv, Holds, Matches, Held
  <2>5. WindowInv'
    <3>1. CASE Adjacent(s, list) /\ GroupIsOpen
      <4>1. groupLen' = groupLen + 1 /\ pc' = "prime" /\ PassIdsKey
        BY <1>1, <3>1 DEF Call, Adjacent
      <4>2. QED
        BY <1>0, <2>1, <4>1 DEF WindowInv
    <3>2. CASE ~(Adjacent(s, list) /\ GroupIsOpen)
      <4>1. groupLen' = 1 /\ pc' = "drain"
        BY <1>1, <3>2 DEF Call
      <4>2. QED
        BY <4>1 DEF WindowInv
    <3>3. QED
      BY <3>1, <3>2
  <2>6. QED
    BY <2>2, <2>3, <2>4, <2>5 DEF SlotInv
<1>2. CASE Refuse
  BY <1>2, FailSlots DEF Refuse, tier, ids, device
<1>3. CASE Drain
  <2>1. /\ pc = "drain" /\ pc' = "prime" /\ running = {}
        /\ UNCHANGED <<tab, epoch, groupLen, running, ptrs, memo>>
    BY <1>3 DEF Drain, StreamDrained, tier, device
  <2>2. QED
    BY <1>0, <2>1
    DEF SlotInv, EpochInv, CallInv, KernelInv, WindowInv, HoldsNow, Holds, Matches, Held
<1>4. CASE Prime
  <2> DEFINE A == IF Small THEN Resident(cur) ELSE {}
  <2>1. /\ pc = "prime" /\ pc' = "slots" /\ tab' = Stamp(A) /\ cur \in Source
        /\ UNCHANGED <<epoch, groupLen, running, ptrs>>
    BY <1>4 DEF Prime, TypeOK, ids, device
  <2>2. A \in SUBSET Held
    BY <2>1, SnapshotType
  <2>3. KeepsEntries /\ EpochInv'
    BY <1>0, <2>1, <2>2, StampKeeps
  <2>4. KernelInv'
    BY <1>0, <2>1, <2>3, KernelsKept
  <2>5. WindowInv'
    BY <1>0, <2>1, WindowKept
  <2>6. CallInv'
    <3>1. ptrs' = {}
      BY <1>0, <2>1 DEF CallInv
    <3>2. ASSUME NEW s \in Source, NEW h \in memo'[s]
          PROVE  HoldsNow(h.addr, s, h.expert)'
      <4>1. Small /\ s = cur /\ h \in Snapshot(s)
        BY <1>4, <3>2 DEF Prime, EmptyMemo
      <4>2. QED
        BY <1>0, <2>1, <4>1, SnapshotHolds
    <3>3. QED
      BY <2>1, <3>1, <3>2 DEF CallInv
  <2>7. QED
    BY <2>3, <2>4, <2>5, <2>6 DEF SlotInv
<1>5. CASE PrimeFollower
  <2> DEFINE f == Head(rest)
  <2>1. f \in Source
    BY <1>5, HeadTailProperties DEF PrimeFollower, TypeOK
  <2>2. /\ pc = "slots" /\ pc' = "slots" /\ tab' = Stamp(Resident(f))
        /\ memo' = [memo EXCEPT ![f] = Snapshot(f)]
        /\ UNCHANGED <<epoch, groupLen, running, ptrs>>
    BY <1>5 DEF PrimeFollower, ids, device
  <2>3. Resident(f) \in SUBSET Held
    BY <2>1, SnapshotType
  <2>4. KeepsEntries /\ EpochInv'
    BY <1>0, <2>2, <2>3, StampKeeps
  <2>5. KernelInv'
    BY <1>0, <2>2, <2>4, KernelsKept
  <2>6. WindowInv'
    BY <1>0, <2>2, WindowKept
  <2>7. CallInv'
    <3>1. ASSUME NEW p \in ptrs'
          PROVE  HoldsNow(p.addr, p.source, p.expert)'
      BY <1>0, <2>2, <2>4, <3>1, EntriesKept DEF CallInv
    <3>2. ASSUME NEW s \in Source, NEW h \in memo'[s]
          PROVE  HoldsNow(h.addr, s, h.expert)'
      <4>1. CASE s = f
        BY <1>0, <2>1, <2>2, <3>2, <4>1, SnapshotHolds DEF TypeOK
      <4>2. CASE s # f
        <5>1. h \in memo[s]
          BY <2>2, <3>2, <4>2 DEF TypeOK
        <5>2. QED
          BY <1>0, <2>2, <2>4, <5>1, EntriesKept DEF CallInv
      <4>3. QED
        BY <4>1, <4>2
    <3>3. QED
      BY <2>2, <3>1, <3>2 DEF CallInv
  <2>8. QED
    BY <2>4, <2>5, <2>6, <2>7 DEF SlotInv
<1>19. CASE DrainFails
  BY <1>19, FailSlots DEF DrainFails, tier, ids, device
<1>6. CASE BadExpert
  BY <1>6, FailSlots DEF BadExpert, tier, ids, device
<1>7. CASE Hit
  <2>1. PICK a \in Found : IsFirst(a, Found) /\ Point(a) /\
             (IF Small THEN UNCHANGED <<tab, tick, hits>>
              ELSE tab' = Stamp({a}) /\ tick' = tick + 1 /\ hits' = hits + 1)
    BY <1>7 DEF Hit
  <2>2. /\ pc = "slots" /\ pc' = "slots" /\ doing \in Source
        /\ UNCHANGED <<epoch, groupLen, running, memo>>
    BY <1>7 DEF Hit, Looking, TypeOK, ids, device
  <2>3. Holds(a, doing, Wanted) /\ a \in Held
    <3>1. CASE Small
      <4>1. PICK h \in memo[doing] : h.expert = Wanted /\ h.addr = a
        BY <2>1, <3>1 DEF Found
      <4>2. QED
        BY <1>0, <2>2, <4>1 DEF CallInv, HoldsNow, Holds, Matches
    <3>2. CASE ~Small
      BY <2>1, <3>2 DEF Found, Holds, Matches
    <3>3. QED
      BY <3>1, <3>2
  <2>4. KeepsEntries /\ EpochInv' /\ tab'[a].epoch = epoch
    <3>1. CASE Small
      <4>1. PICK h \in memo[doing] : h.expert = Wanted /\ h.addr = a
        BY <2>1, <3>1 DEF Found
      <4>2. tab[a].epoch = epoch
        BY <1>0, <2>2, <4>1 DEF CallInv, HoldsNow
      <4>3. tab' = tab
        BY <2>1, <3>1
      <4>4. QED
        BY <1>0, <2>2, <4>2, <4>3 DEF KeepsEntries, EpochInv, Held
    <3>2. CASE ~Small
      <4>1. {a} \in SUBSET Held /\ tab' = Stamp({a})
        BY <2>1, <2>3, <3>2
      <4>2. QED
        BY <1>0, <2>2, <4>1, StampKeeps
    <3>3. QED
      BY <3>1, <3>2
  <2>5. KernelInv'
    BY <1>0, <2>2, <2>4, KernelsKept
  <2>6. WindowInv'
    BY <1>0, <2>2, WindowKept
  <2>7. CallInv'
    <3>1. ASSUME NEW p \in ptrs'
          PROVE  HoldsNow(p.addr, p.source, p.expert)'
      <4>1. CASE p \in ptrs
        BY <1>0, <2>2, <2>4, <4>1, EntriesKept DEF CallInv
      <4>2. CASE p \notin ptrs
        <5>1. p = [source |-> doing, expert |-> Wanted, addr |-> a]
          BY <2>1, <3>1, <4>2 DEF Point
        <5>2. Holds(p.addr, p.source, p.expert) /\ p.addr = a
          BY <2>3, <5>1
        <5>3. QED
          BY <2>2, <2>4, <5>2, EntriesKept DEF HoldsNow
      <4>3. QED
        BY <4>1, <4>2
    <3>2. ASSUME NEW s \in Source, NEW h \in memo'[s]
          PROVE  HoldsNow(h.addr, s, h.expert)'
      BY <1>0, <2>2, <2>4, <3>2, EntriesKept DEF CallInv
    <3>3. QED
      BY <2>2, <3>1, <3>2 DEF CallInv
  <2>8. QED
    BY <2>4, <2>5, <2>6, <2>7 DEF SlotInv
<1>8. ASSUME NEW v \in Addr, Evict(v)
      PROVE  SlotInv'
  <2>1. /\ v \in Held /\ tab[v].epoch + GroupMax <= epoch
        /\ pc = "slots" /\ pc' = "slots"
        /\ UNCHANGED <<epoch, groupLen, running, memo, ptrs>>
    BY <1>8
    DEF Evict, IsVictim, Evictable, Reserving, Looking, ids, device, local
  (* Another entry changes at most its place in the table.                 *)
  <2>2. ASSUME NEW a \in Held, a # v
        PROVE  /\ tab'[a] # Nil /\ tab'[a].epoch = tab[a].epoch
               /\ tab'[a].source = tab[a].source /\ tab'[a].expert = tab[a].expert
    <3>1. tab'[a] = tab[a] \/ tab'[a] = [tab[a] EXCEPT !.pos = tab[v].pos]
      BY <1>8, <2>2 DEF Evict, Held
    <3>2. [tab[a] EXCEPT !.pos = tab[v].pos] \in Entry
      BY <1>0, <2>1 DEF Entry
    <3>3. QED
      BY <1>0, <3>1, <3>2, TierAssumption DEF Entry
  <2>3. ASSUME NEW a, NEW s, NEW e, a # v, HoldsNow(a, s, e)
        PROVE  HoldsNow(a, s, e)'
    BY <2>1, <2>2, <2>3 DEF HoldsNow, Holds, Matches, Held
  <2>4. \A a, s, e : HoldsNow(a, s, e) => a # v
    BY <1>0, <2>1 DEF HoldsNow
  <2>5. CallInv'
    <3>1. \A p \in ptrs : HoldsNow(p.addr, p.source, p.expert)'
      BY <1>0, <2>3, <2>4 DEF CallInv
    <3>2. \A s \in Source : \A h \in memo[s] : HoldsNow(h.addr, s, h.expert)'
      BY <1>0, <2>3, <2>4 DEF CallInv
    <3>3. QED
      BY <2>1, <3>1, <3>2 DEF CallInv
  <2>6. KernelInv'
    <3>1. ASSUME NEW q \in running, NEW p \in q.ptrs
          PROVE  Holds(p.addr, p.source, p.expert)' /\ q.epoch <= tab'[p.addr].epoch
      <4>1. Holds(p.addr, p.source, p.expert) /\ q.epoch <= tab[p.addr].epoch
        BY <1>0, <3>1 DEF KernelInv
      <4>2. epoch < q.epoch + GroupMax
        BY <1>0, <2>1 DEF WindowInv
      <4>3. p.addr # v
        BY <1>0, <2>1, <4>1, <4>2
      <4>4. QED
        BY <2>2, <4>1, <4>3 DEF Holds, Matches, Held
    <3>2. QED
      BY <1>0, <2>1, <3>1 DEF KernelInv
  <2>7. EpochInv'
    <3>1. \A a \in Addr : tab'[a] # Nil => a \in Held /\ a # v
      BY <1>8 DEF Evict, Held
    <3>2. QED
      BY <1>0, <2>1, <2>2, <3>1 DEF EpochInv, Held
  <2>8. WindowInv'
    BY <1>0, <2>1, WindowKept
  <2>9. QED
    BY <2>5, <2>6, <2>7, <2>8 DEF SlotInv
<1>9. ASSUME NEW a \in Addr, Reserve(a)
      PROVE  SlotInv'
  <2> DEFINE new == [source |-> doing, expert |-> Wanted, touch |-> tick + 1,
                     epoch |-> epoch, filled |-> FALSE, pos |-> Cardinality(Held) + 1]
  <2>1. /\ a \notin Held /\ tab' = [tab EXCEPT ![a] = new]
        /\ pc = "slots" /\ pc' = "slots" /\ doing \in Source /\ Wanted \in Expert
        /\ UNCHANGED <<epoch, groupLen, running>>
    BY <1>9 DEF Reserve, Reserving, Looking, TypeOK, ids, device
  <2>2. new \in Entry
    <3>1. Cardinality(Held) \in Nat
      BY FiniteAddr DEF Held
    <3>2. tick \in Nat
      BY DEF TypeOK
    <3>3. QED
      BY <1>0, <2>1, <3>1, <3>2 DEF Entry
  <2>3. tab'[a] = new /\ new # Nil /\ \A b \in Held : tab'[b] = tab[b]
    BY <2>1, <2>2, TierAssumption DEF TypeOK, Held
  <2>4. KeepsEntries
    BY <1>0, <2>3 DEF KeepsEntries, Held
  <2>5. EpochInv'
    <3>1. \A b \in Addr : tab'[b] # Nil => b \in Held \/ b = a
      BY <2>1 DEF TypeOK, Held
    <3>2. QED
      BY <1>0, <2>1, <2>3, <3>1 DEF EpochInv, Held
  <2>6. KernelInv'
    BY <1>0, <2>1, <2>4, KernelsKept
  <2>7. WindowInv'
    BY <1>0, <2>1, WindowKept
  <2>8. tab'[a].source = doing /\ tab'[a].expert = Wanted /\ tab'[a].epoch = epoch
    BY <2>3
  <2>9. CallInv'
    <3>1. ASSUME NEW p \in ptrs'
          PROVE  HoldsNow(p.addr, p.source, p.expert)'
      <4>1. CASE p \in ptrs
        BY <1>0, <2>1, <2>4, <4>1, EntriesKept DEF CallInv
      <4>2. CASE p \notin ptrs
        <5>1. p = [source |-> doing, expert |-> Wanted, addr |-> a]
          BY <1>9, <3>1, <4>2 DEF Reserve, Point
        <5>2. QED
          BY <2>1, <2>3, <2>8, <5>1 DEF HoldsNow, Holds, Matches, Held
      <4>3. QED
        BY <4>1, <4>2
    <3>2. ASSUME NEW s \in Source, NEW h \in memo'[s]
          PROVE  HoldsNow(h.addr, s, h.expert)'
      <4>1. CASE h \in memo[s]
        BY <1>0, <2>1, <2>4, <4>1, EntriesKept DEF CallInv
      <4>2. CASE h \notin memo[s]
        <5>1. s = doing /\ h = [expert |-> Wanted, addr |-> a]
          BY <1>9, <3>2, <4>2 DEF Reserve, TypeOK
        <5>2. QED
          BY <2>1, <2>3, <2>8, <5>1 DEF HoldsNow, Holds, Matches, Held
      <4>3. QED
        BY <4>1, <4>2
    <3>3. QED
      BY <2>1, <3>1, <3>2 DEF CallInv
  <2>10. QED
    BY <2>5, <2>6, <2>7, <2>9 DEF SlotInv
<1>10. CASE ReserveFails
  BY <1>10, FailSlots DEF ReserveFails, ids, device
<1>11. CASE Fill
  <2>1. /\ pc = "slots" /\ pc' = "launch"
        /\ UNCHANGED <<epoch, groupLen, running, memo, ptrs>>
    BY <1>11 DEF Fill, AllPlaced, ids, local
  <2>2. KeepsEntries /\ \A a \in Addr : tab'[a] # Nil => a \in Held
    BY <1>11, FillKeeps
  <2>3. KernelInv'
    BY <1>0, <2>1, <2>2, KernelsKept
  <2>4. EpochInv'
    BY <1>0, <2>1, <2>2 DEF EpochInv, KeepsEntries, Held
  <2>5. WindowInv'
    BY <1>0, <2>1, WindowKept
  <2>6. CallInv'
    <3>1. \A p \in ptrs : HoldsNow(p.addr, p.source, p.expert)'
      BY <1>0, <2>1, <2>2, EntriesKept DEF CallInv
    <3>2. \A s \in Source : \A h \in memo[s] : HoldsNow(h.addr, s, h.expert)'
      BY <1>0, <2>1, <2>2, EntriesKept DEF CallInv
    <3>3. QED
      BY <2>1, <3>1, <3>2 DEF CallInv
  <2>7. QED
    BY <2>3, <2>4, <2>5, <2>6 DEF SlotInv
<1>12. CASE FillFails
  BY <1>12, FailSlots DEF FillFails, tier, ids
<1>13. CASE Launch
  <2>1. /\ pc = "launch" /\ pc' = "idle"
        /\ running' = running \cup {[epoch |-> epoch, ptrs |-> ptrs, waits |-> Awaited]}
        /\ UNCHANGED <<tab, epoch, groupLen>>
    BY <1>13 DEF Launch, tier, ids
  <2>2. CallInv'
    BY <1>13, NoCallSlots DEF Launch
  <2>3. EpochInv'
    BY <1>0, <2>1 DEF EpochInv, Held
  <2>4. KernelInv'
    <3>1. ASSUME NEW p \in ptrs
          PROVE  Holds(p.addr, p.source, p.expert) /\ epoch <= tab[p.addr].epoch
      BY <1>0, <3>1 DEF CallInv, HoldsNow
    <3>2. \A q \in running' :
            /\ q.epoch <= epoch
            /\ \A p \in q.ptrs : Holds(p.addr, p.source, p.expert) /\ q.epoch <= tab[p.addr].epoch
      BY <1>0, <2>1, <3>1 DEF KernelInv
    <3>3. QED
      BY <2>1, <3>2 DEF KernelInv, Holds, Matches, Held
  <2>5. WindowInv'
    BY <1>0, <2>1 DEF WindowInv
  <2>6. QED
    BY <2>2, <2>3, <2>4, <2>5 DEF SlotInv
<1>14. CASE LaunchFails
  BY <1>14, FailSlots DEF LaunchFails, tier, ids, device
<1>15. CASE Retire
  <2>1. running' \subseteq running /\ UNCHANGED <<tab, epoch, groupLen, pc, ptrs, memo>>
    BY <1>15 DEF Retire, tier, ids, local
  <2>2. QED
    BY <1>0, <2>1
    DEF SlotInv, EpochInv, CallInv, KernelInv, WindowInv, HoldsNow, Holds, Matches, Held
<1>16. CASE Restart
  <2>1. /\ pc = "idle" /\ pc' = "idle" /\ running' = {} /\ epoch' = 0
        /\ \A a \in Addr : tab'[a] = Nil
        /\ UNCHANGED <<ptrs, memo, groupLen>>
    BY <1>16 DEF Restart, ids, local
  <2>2. ptrs' = {} /\ \A s \in Source : memo'[s] = {}
    BY <1>0, <2>1 DEF CallInv, EmptyMemo
  <2>3. CallInv'
    BY <1>0, <2>1, <2>2 DEF CallInv, EmptyMemo
  <2>4. QED
    BY <2>1, <2>3 DEF SlotInv, EpochInv, KernelInv, WindowInv, Held
<1>17. CASE UNCHANGED vars
  BY <1>0, <1>17
  DEF SlotInv, EpochInv, CallInv, KernelInv, WindowInv, HoldsNow, Holds, Matches, Held,
      vars, tier, ids, chain, local, device
<1>18. QED
  BY <1>1, <1>2, <1>3, <1>4, <1>5, <1>6, <1>7, <1>8, <1>9, <1>10, <1>11, <1>12,
     <1>13, <1>14, <1>15, <1>16, <1>17, <1>19 DEF Next, Serve

(* A tier just initialised holds no slot for anyone.                       *)
LEMMA SlotInit == Init => SlotInv
BY DEF Init, SlotInv, EpochInv, CallInv, KernelInv, WindowInv, EmptyMemo, Held

(* The slots of kernels and calls are held in every run.                   *)
LEMMA SlotsAlways == Spec => [](TypeOK /\ SlotInv)
<1>1. Init => TypeOK /\ SlotInv
  BY TypeInit, SlotInit
<1>2. (TypeOK /\ SlotInv) /\ [Next]_vars => (TypeOK /\ SlotInv)'
  BY TypeNext, SlotNext
<1>3. QED
  BY <1>1, <1>2, PTL DEF Spec

(* No slot a launched kernel still reads is ever evicted or reused.        *)
THEOREM RunningSlotsAreHeld == Spec => []RunningSlotsHeld
<1>1. SlotInv => RunningSlotsHeld
  BY DEF SlotInv, KernelInv, RunningSlotsHeld
<1>2. QED
  BY <1>1, SlotsAlways, PTL

(* No slot the call in progress points at is evicted by its own lookups.   *)
THEOREM CallSlotsAreHeld == Spec => []CallSlotsHeld
<1>1. SlotInv => CallSlotsHeld
  BY DEF SlotInv, CallInv, HoldsNow, CallSlotsHeld
<1>2. QED
  BY <1>1, SlotsAlways, PTL

-----------------------------------------------------------------------------
(* Kernels read the right bytes: BytesInv is inductive for a host that     *)
(* stops at the first error.                                               *)

(* A step that keeps the entries and transfers nothing keeps the bytes.    *)
LEMMA BytesKept ==
  ASSUME TypeOK, BytesInv, KeepsEntries, \A a \in Addr : tab'[a] # Nil => a \in Held,
         pc # "aborted", pc = "slots" => pc' = "slots",
         pc' \notin {"slots", "launch"} => miss = <<>>,
         UNCHANGED <<epoch, miss, running, last, issued>>
  PROVE  BytesInv'
<1>1. MissInv'
  BY EntriesKept DEF BytesInv, MissInv
<1>2. BroughtInv'
  <2>1. \A a \in Addr : last'[a] # Nil => last'[a].no <= issued'
    BY DEF BytesInv, BroughtInv
  <2>2. ASSUME NEW a \in Held'
        PROVE  \/ Brought(a, tab[a].source, tab[a].expert)'
               \/ (pc = "slots" /\ a \in MissAddrs)'
    <3>1. a \in Held /\ tab'[a].source = tab[a].source /\ tab'[a].expert = tab[a].expert
      BY <2>2 DEF Held, KeepsEntries
    <3>2. \/ Brought(a, tab[a].source, tab[a].expert)
          \/ (pc = "slots" /\ a \in MissAddrs)
      BY <3>1 DEF BytesInv, BroughtInv
    <3>3. QED
      BY <3>1, <3>2 DEF Brought, MissAddrs
  <2>3. QED
    BY <2>1, <2>2 DEF BroughtInv
<1>3. ApartInv' /\ ServedBytes'
  BY DEF BytesInv, ApartInv, ServedBytes, MissAddrs
<1>4. QED
  BY <1>1, <1>2, <1>3 DEF BytesInv

(* Transfers overwrite the slots of the misses and no others.              *)
LEMMA IssueBytes ==
  ASSUME TypeOK, BytesInv, NEW n \in Nat, n <= Len(miss), Issue(n)
  PROVE  /\ \A a \in Addr : a \notin MissAddrs => last'[a] = last[a]
         /\ \A a \in Addr : last'[a] # Nil => last'[a].no <= issued'
         /\ n = Len(miss) =>
              \A a \in MissAddrs : \E i \in DOMAIN miss :
                /\ miss[i].addr = a /\ last'[a] # Nil
                /\ last'[a].source = miss[i].source /\ last'[a].expert = miss[i].expert
<1>1. miss \in Seq(Pointer) /\ issued \in Nat /\ issued' = issued + n
  BY DEF TypeOK, Issue
<1>2. \A i \in 1..n : i \in DOMAIN miss /\ miss[i] \in Pointer
  BY <1>1
<1>3. ASSUME NEW a \in Addr, \E i \in 1..n : miss[i].addr = a
      PROVE  \E i \in 1..n : /\ miss[i].addr = a
                             /\ last'[a] = [source |-> miss[i].source,
                                            expert |-> miss[i].expert, no |-> issued + i]
  <2> DEFINE c == CHOOSE j \in 1..n : miss[j].addr = a
  <2>1. c \in 1..n /\ miss[c].addr = a
    BY <1>3
  <2>2. last'[a] = [source |-> miss[c].source, expert |-> miss[c].expert, no |-> issued + c]
    BY <1>3 DEF Issue
  <2>3. QED
    BY <2>1, <2>2
<1>4. ASSUME NEW a \in Addr, ~ \E i \in 1..n : miss[i].addr = a
      PROVE  last'[a] = last[a]
  BY <1>4 DEF Issue
<1>5. \A a \in Addr : a \notin MissAddrs => last'[a] = last[a]
  BY <1>2, <1>4 DEF MissAddrs
<1>6. ASSUME NEW a \in Addr, last'[a] # Nil
      PROVE  last'[a].no <= issued'
  <2>1. CASE \E i \in 1..n : miss[i].addr = a
    <3>1. PICK i \in 1..n : last'[a] = [source |-> miss[i].source,
                                         expert |-> miss[i].expert, no |-> issued + i]
      BY <1>3, <2>1
    <3>2. QED
      BY <1>1, <3>1
  <2>2. CASE ~ \E i \in 1..n : miss[i].addr = a
    <3>1. last'[a] = last[a] /\ last[a].no <= issued
      BY <1>4, <1>6, <2>2 DEF BytesInv, BroughtInv
    <3>2. last[a].no \in Nat
      BY <1>6, <3>1 DEF TypeOK, Transfer
    <3>3. QED
      BY <1>1, <3>1, <3>2
  <2>3. QED
    BY <2>1, <2>2
<1>7. ASSUME n = Len(miss), NEW a \in MissAddrs
      PROVE  \E i \in DOMAIN miss :
               /\ miss[i].addr = a /\ last'[a] # Nil
               /\ last'[a].source = miss[i].source /\ last'[a].expert = miss[i].expert
  <2>1. a \in Addr /\ \E i \in 1..n : miss[i].addr = a
    <3>1. PICK i \in DOMAIN miss : miss[i].addr = a
      BY <1>7 DEF MissAddrs
    <3>2. i \in 1..n
      BY <1>1, <1>7, <3>1
    <3>3. QED
      BY <1>2, <3>1, <3>2 DEF Pointer
  <2>2. PICK i \in 1..n : /\ miss[i].addr = a
                          /\ last'[a] = [source |-> miss[i].source,
                                         expert |-> miss[i].expert, no |-> issued + i]
    BY <1>3, <2>1
  <2>3. last'[a] \in Transfer
    BY <1>1, <1>2, <2>2 DEF Transfer, Pointer
  <2>4. QED
    BY <1>2, <2>2, <2>3, TierAssumption
<1>8. QED
  BY <1>5, <1>6, <1>7

(* A failing call stops the host; its misses, transferred or not, are in   *)
(* no kernel's pointers.                                                   *)
LEMMA FailBytes ==
  ASSUME AbortOnError, TypeOK, BytesInv, Fail, running' = running,
         \A a \in Addr : a \notin MissAddrs => last'[a] = last[a],
         \A a \in Addr : last'[a] # Nil => last'[a].no <= issued'
  PROVE  BytesInv'
<1>1. pc' = "aborted" /\ miss' = <<>>
  BY DEF Fail, NoCall
<1>2. DOMAIN miss' = {} /\ MissAddrs' = {}
  BY <1>1 DEF MissAddrs
<1>3. MissInv' /\ BroughtInv' /\ ApartInv'
  BY <1>1, <1>2 DEF MissInv, BroughtInv, ApartInv
<1>4. ServedBytes'
  <2>1. ASSUME NEW q \in running, NEW p \in q.ptrs
        PROVE  last'[p.addr] = last[p.addr]
    <3>1. p.addr \notin MissAddrs /\ p.addr \in Addr
      BY <2>1 DEF BytesInv, ApartInv, TypeOK, Pointer
    <3>2. QED
      BY <3>1
  <2>2. QED
    BY <2>1 DEF BytesInv, ServedBytes
<1>5. QED
  BY <1>3, <1>4 DEF BytesInv

(* Every step keeps the bytes of the entries and of the running kernels.   *)
LEMMA BytesNext ==
  AbortOnError /\ TypeOK /\ SlotInv /\ BytesInv /\ [Next]_vars => BytesInv'
<1> SUFFICES ASSUME AbortOnError, TypeOK, SlotInv, BytesInv, [Next]_vars
             PROVE  BytesInv'
  OBVIOUS
<1>0. /\ EpochInv /\ CallInv /\ KernelInv
      /\ MissInv /\ BroughtInv /\ ApartInv /\ ServedBytes
      /\ epoch \in Nat /\ issued \in Nat /\ miss \in Seq(Pointer)
      /\ \A a \in Held : tab[a] \in Entry
  BY DEF SlotInv, BytesInv, TypeOK, Held
(* A failing call that has issued no transfer.                             *)
<1>f. ASSUME Fail, UNCHANGED device
      PROVE  BytesInv'
  BY <1>0, <1>f, FailBytes DEF device, BroughtInv
<1>1. ASSUME NEW s \in Source, NEW list \in IdLists, Call(s, list)
      PROVE  BytesInv'
  <2>1. /\ pc = "idle" /\ pc' \in {"prime", "drain"} /\ UNCHANGED <<tab, miss, device>>
    BY <1>1 DEF Call, tier
  <2>2. miss' = <<>> /\ pc' \notin {"slots", "launch", "aborted"}
    BY <1>0, <2>1 DEF MissInv
  <2>3. QED
    BY <1>0, <2>1, <2>2
    DEF BytesInv, MissInv, BroughtInv, ApartInv, ServedBytes, Brought, MissAddrs, Held, device
<1>2. CASE Refuse
  BY <1>2, <1>f DEF Refuse
<1>3. CASE Drain
  <2>1. pc = "drain" /\ pc' = "prime" /\ UNCHANGED <<tab, epoch, miss, device>>
    BY <1>3 DEF Drain, tier
  <2>2. KeepsEntries /\ miss = <<>> /\ \A a \in Addr : tab'[a] # Nil => a \in Held
    BY <1>0, <2>1 DEF KeepsEntries, Held, MissInv
  <2>3. QED
    BY <1>0, <2>1, <2>2, BytesKept DEF device
<1>4. CASE Prime
  <2> DEFINE A == IF Small THEN Resident(cur) ELSE {}
  <2>1. /\ pc = "prime" /\ pc' = "slots" /\ tab' = Stamp(A) /\ cur \in Source
        /\ UNCHANGED <<epoch, miss, device>>
    BY <1>4 DEF Prime, TypeOK
  <2>2. A \in SUBSET Held
    BY <2>1, SnapshotType
  <2>3. KeepsEntries /\ \A a \in Addr : tab'[a] # Nil => a \in Held
    BY <1>0, <2>1, <2>2, StampKeeps DEF Stamp, Held
  <2>4. QED
    BY <1>0, <2>1, <2>3, BytesKept DEF device
<1>5. CASE PrimeFollower
  <2>1. /\ pc = "slots" /\ pc' = "slots" /\ tab' = Stamp(Resident(Head(rest)))
        /\ Head(rest) \in Source /\ UNCHANGED <<epoch, miss, device>>
    BY <1>5, HeadTailProperties DEF PrimeFollower, TypeOK
  <2>2. Resident(Head(rest)) \in SUBSET Held
    BY <2>1, SnapshotType
  <2>3. KeepsEntries /\ \A a \in Addr : tab'[a] # Nil => a \in Held
    BY <1>0, <2>1, <2>2, StampKeeps DEF Stamp, Held
  <2>4. QED
    BY <1>0, <2>1, <2>3, BytesKept DEF device
<1>19. CASE DrainFails
  BY <1>19, <1>f DEF DrainFails
<1>6. CASE BadExpert
  BY <1>6, <1>f DEF BadExpert
<1>7. CASE Hit
  <2>1. PICK a \in Found : IF Small THEN UNCHANGED <<tab, tick, hits>>
                           ELSE tab' = Stamp({a}) /\ tick' = tick + 1 /\ hits' = hits + 1
    BY <1>7 DEF Hit
  <2>2. pc = "slots" /\ pc' = "slots" /\ UNCHANGED <<epoch, miss, device>>
    BY <1>7 DEF Hit, Looking
  <2>3. KeepsEntries /\ \A b \in Addr : tab'[b] # Nil => b \in Held
    <3>1. CASE Small
      BY <1>0, <2>1, <3>1 DEF KeepsEntries, Held
    <3>2. CASE ~Small
      <4>1. {a} \in SUBSET Held /\ tab' = Stamp({a})
        BY <2>1, <3>2 DEF Found, Matches
      <4>2. QED
        BY <1>0, <2>2, <4>1, StampKeeps DEF Stamp, Held
    <3>3. QED
      BY <3>1, <3>2
  <2>4. QED
    BY <1>0, <2>2, <2>3, BytesKept DEF device
<1>8. ASSUME NEW v \in Addr, Evict(v)
      PROVE  BytesInv'
  <2>1. /\ v \in Held /\ tab[v].epoch + GroupMax <= epoch /\ GroupMax \in Nat \ {0}
        /\ pc = "slots" /\ pc' = "slots" /\ UNCHANGED <<epoch, miss, device>>
    BY <1>8, TierAssumption
    DEF Evict, IsVictim, Evictable, Reserving, Looking, local
  <2>2. ASSUME NEW a \in Held, a # v
        PROVE  /\ tab'[a] # Nil /\ tab'[a].epoch = tab[a].epoch
               /\ tab'[a].source = tab[a].source /\ tab'[a].expert = tab[a].expert
    <3>1. tab'[a] = tab[a] \/ tab'[a] = [tab[a] EXCEPT !.pos = tab[v].pos]
      BY <1>8, <2>2 DEF Evict, Held
    <3>2. [tab[a] EXCEPT !.pos = tab[v].pos] \in Entry
      BY <1>0, <2>1, <2>2 DEF Entry
    <3>3. QED
      BY <1>0, <3>1, <3>2, TierAssumption DEF Entry
  <2>3. MissInv'
    <3>1. ASSUME NEW i \in DOMAIN miss
          PROVE  HoldsNow(miss[i].addr, miss[i].source, miss[i].expert)'
      <4>1. HoldsNow(miss[i].addr, miss[i].source, miss[i].expert)
        BY <1>0, <3>1 DEF MissInv
      <4>2. miss[i].addr # v
        BY <1>0, <2>1, <4>1 DEF HoldsNow
      <4>3. QED
        BY <2>1, <2>2, <4>1, <4>2 DEF HoldsNow, Holds, Matches, Held
    <3>2. QED
      BY <2>1, <3>1 DEF MissInv
  <2>4. \A a \in Addr : tab'[a] # Nil => a \in Held /\ a # v
    BY <1>8 DEF Evict, Held
  <2>5. BroughtInv'
    <3>1. ASSUME NEW a \in Held'
          PROVE  \/ Brought(a, tab[a].source, tab[a].expert)'
                 \/ (pc = "slots" /\ a \in MissAddrs)'
      <4>1. a \in Held /\ tab'[a].source = tab[a].source /\ tab'[a].expert = tab[a].expert
        BY <2>2, <2>4, <3>1 DEF Held
      <4>2. \/ Brought(a, tab[a].source, tab[a].expert)
            \/ (pc = "slots" /\ a \in MissAddrs)
        BY <1>0, <2>1, <4>1 DEF BroughtInv
      <4>3. QED
        BY <2>1, <4>1, <4>2 DEF Brought, MissAddrs, device
    <3>2. QED
      BY <1>0, <2>1, <3>1 DEF BroughtInv, device
  <2>6. QED
    BY <1>0, <2>1, <2>3, <2>5 DEF BytesInv, ApartInv, ServedBytes, MissAddrs, device
<1>9. ASSUME NEW a \in Addr, Reserve(a)
      PROVE  BytesInv'
  <2> DEFINE new  == [source |-> doing, expert |-> Wanted, touch |-> tick + 1,
                      epoch |-> epoch, filled |-> FALSE, pos |-> Cardinality(Held) + 1]
             miss1 == [source |-> doing, expert |-> Wanted, addr |-> a]
  <2>1. /\ a \notin Held /\ tab' = [tab EXCEPT ![a] = new]
        /\ pc = "slots" /\ pc' = "slots" /\ doing \in Source /\ Wanted \in Expert
        /\ miss' = Append(miss, miss1) /\ UNCHANGED <<epoch, device>>
    BY <1>9 DEF Reserve, Reserving, Looking, TypeOK
  <2>2. new \in Entry
    <3>1. Cardinality(Held) \in Nat
      BY FiniteAddr DEF Held
    <3>2. tick \in Nat
      BY DEF TypeOK
    <3>3. QED
      BY <1>0, <2>1, <3>1, <3>2 DEF Entry
  <2>3. tab'[a] = new /\ new # Nil /\ \A b \in Addr : b # a => tab'[b] = tab[b]
    BY <2>1, <2>2, TierAssumption DEF TypeOK, Held
  <2>4. /\ tab'[a].source = doing /\ tab'[a].expert = Wanted /\ tab'[a].epoch = epoch
        /\ KeepsEntries
    BY <1>0, <2>1, <2>3 DEF KeepsEntries, Held
  <2>5. /\ DOMAIN miss' = DOMAIN miss \cup {Len(miss) + 1}
        /\ miss'[Len(miss) + 1] = miss1
        /\ \A i \in DOMAIN miss : miss'[i] = miss[i]
    <3>1. miss1 \in Pointer
      BY <2>1 DEF Pointer
    <3>2. /\ Len(miss') = Len(miss) + 1 /\ Len(miss) \in Nat
          /\ DOMAIN miss = 1..Len(miss) /\ DOMAIN miss' = 1..Len(miss')
          /\ \A i \in 1..Len(miss) : miss'[i] = miss[i]
          /\ miss'[Len(miss) + 1] = miss1
      BY <1>0, <2>1, <3>1, AppendProperties
    <3>3. 1..Len(miss') = 1..Len(miss) \cup {Len(miss) + 1}
      BY <3>2
    <3>4. QED
      BY <3>2, <3>3
  <2>6. MissAddrs' = MissAddrs \cup {a}
    BY <2>5 DEF MissAddrs
  <2>7. MissInv'
    <3>1. ASSUME NEW i \in DOMAIN miss
          PROVE  HoldsNow(miss[i].addr, miss[i].source, miss[i].expert)'
      <4>1. PICK p : p = miss[i]
        OBVIOUS
      <4>2. HoldsNow(p.addr, p.source, p.expert) /\ miss'[i] = p
        BY <1>0, <2>5, <3>1, <4>1 DEF MissInv
      <4>3. HoldsNow(p.addr, p.source, p.expert)'
        BY <2>1, <2>4, <4>2, EntriesKept
      <4>4. QED
        BY <4>2, <4>3 DEF HoldsNow, Holds, Matches, Held
    <3>2. tab'[a] # Nil /\ a \in Held'
      BY <2>3 DEF Held
    <3>3. QED
      BY <2>1, <2>4, <2>5, <3>1, <3>2 DEF MissInv, HoldsNow, Holds, Matches
  <2>8. BroughtInv'
    <3>1. ASSUME NEW b \in Held'
          PROVE  \/ Brought(b, tab[b].source, tab[b].expert)'
                 \/ (pc = "slots" /\ b \in MissAddrs)'
      <4>1. CASE b = a
        BY <2>1, <2>6, <4>1
      <4>2. CASE b # a
        <5>1. b \in Held /\ tab'[b] = tab[b]
          BY <2>3, <3>1, <4>2 DEF Held
        <5>2. QED
          BY <1>0, <2>1, <2>6, <5>1 DEF BroughtInv, Brought, device
      <4>3. QED
        BY <4>1, <4>2
    <3>2. QED
      BY <1>0, <2>1, <3>1 DEF BroughtInv, device
  <2>9. ApartInv'
    <3>1. \A q \in running : \A p \in q.ptrs : p.addr \in Held
      BY <1>0 DEF KernelInv, Holds, Matches
    <3>2. QED
      BY <1>0, <2>1, <2>6, <3>1 DEF ApartInv, device
  <2>10. QED
    BY <1>0, <2>1, <2>7, <2>8, <2>9 DEF BytesInv, ServedBytes, device
<1>10. CASE ReserveFails
  BY <1>10, <1>f DEF ReserveFails
<1>11. CASE Fill
  <2>1. /\ pc = "slots" /\ pc' = "launch" /\ Issue(Len(miss))
        /\ UNCHANGED <<epoch, running, miss>>
    BY <1>11 DEF Fill, AllPlaced, local
  <2>2. KeepsEntries /\ \A a \in Addr : tab'[a] # Nil => a \in Held
    BY <1>11, FillKeeps
  <2>3. Len(miss) \in Nat /\ Len(miss) <= Len(miss)
    BY <1>0
  <2>4. /\ \A a \in Addr : a \notin MissAddrs => last'[a] = last[a]
        /\ \A a \in Addr : last'[a] # Nil => last'[a].no <= issued'
        /\ \A a \in MissAddrs : \E i \in DOMAIN miss :
             /\ miss[i].addr = a /\ last'[a] # Nil
             /\ last'[a].source = miss[i].source /\ last'[a].expert = miss[i].expert
    BY <2>1, <2>3, IssueBytes
  <2>5. MissInv'
    BY <1>0, <2>1, <2>2, EntriesKept DEF MissInv
  <2>6. BroughtInv'
    <3>1. ASSUME NEW a \in Held'
          PROVE  Brought(a, tab[a].source, tab[a].expert)'
      <4>1. /\ a \in Held /\ a \in Addr
            /\ tab'[a].source = tab[a].source /\ tab'[a].expert = tab[a].expert
        BY <2>2, <3>1 DEF Held, KeepsEntries
      <4>2. CASE a \in MissAddrs
        <5>1. PICK i \in DOMAIN miss : /\ miss[i].addr = a /\ last'[a] # Nil
                                       /\ last'[a].source = miss[i].source
                                       /\ last'[a].expert = miss[i].expert
          BY <2>4, <4>2
        <5>2. tab[a].source = miss[i].source /\ tab[a].expert = miss[i].expert
          BY <1>0, <5>1 DEF MissInv, HoldsNow, Holds, Matches
        <5>3. QED
          BY <4>1, <5>1, <5>2 DEF Brought
      <4>3. CASE a \notin MissAddrs
        <5>1. last'[a] = last[a] /\ Brought(a, tab[a].source, tab[a].expert)
          BY <1>0, <2>1, <2>4, <4>1, <4>3 DEF BroughtInv
        <5>2. QED
          BY <4>1, <5>1 DEF Brought
      <4>4. QED
        BY <4>2, <4>3
    <3>2. QED
      BY <2>4, <3>1 DEF BroughtInv
  <2>7. ApartInv'
    BY <1>0, <2>1 DEF ApartInv, MissAddrs
  <2>8. ServedBytes'
    <3>1. ASSUME NEW q \in running, NEW p \in q.ptrs
          PROVE  last'[p.addr] = last[p.addr]
      <4>1. p.addr \notin MissAddrs /\ p.addr \in Addr
        BY <1>0, <3>1 DEF ApartInv, TypeOK, Pointer
      <4>2. QED
        BY <2>4, <4>1
    <3>2. QED
      BY <1>0, <2>1, <3>1 DEF ServedBytes
  <2>9. QED
    BY <2>5, <2>6, <2>7, <2>8 DEF BytesInv
<1>12. CASE FillFails
  <2>1. PICK n \in 0..Len(miss) - 1 : Issue(n)
    BY <1>12 DEF FillFails
  <2>2. n \in Nat /\ n <= Len(miss)
    BY <1>0
  <2>3. QED
    BY <1>12, <2>1, <2>2, IssueBytes, FailBytes DEF FillFails
<1>13. CASE Launch
  <2>1. /\ pc = "launch" /\ pc' = "idle" /\ miss' = <<>>
        /\ running' = running \cup {[epoch |-> epoch, ptrs |-> ptrs, waits |-> issued]}
        /\ UNCHANGED <<tab, epoch, issued, last>>
    BY <1>13, NoCallSlots DEF Launch, Awaited, tier
  <2>2. DOMAIN miss' = {} /\ MissAddrs' = {}
    BY <2>1 DEF MissAddrs
  <2>3. MissInv' /\ ApartInv'
    BY <2>1, <2>2 DEF MissInv, ApartInv
  <2>4. BroughtInv'
    BY <1>0, <2>1 DEF BroughtInv, Brought, Held
  <2>5. ServedBytes'
    <3>1. ASSUME NEW p \in ptrs
          PROVE  Brought(p.addr, p.source, p.expert) /\ last[p.addr].no <= issued
      <4>1. Holds(p.addr, p.source, p.expert)
        BY <1>0, <3>1 DEF CallInv, HoldsNow
      <4>2. p.addr \in Held /\ tab[p.addr].source = p.source /\ tab[p.addr].expert = p.expert
        BY <4>1 DEF Holds, Matches
      <4>3. QED
        BY <1>0, <2>1, <4>2 DEF BroughtInv, Brought, Held
    <3>2. QED
      BY <1>0, <2>1, <3>1 DEF ServedBytes, Brought
  <2>6. QED
    BY <2>3, <2>4, <2>5 DEF BytesInv
<1>14. CASE LaunchFails
  BY <1>14, <1>f DEF LaunchFails
<1>15. CASE Retire
  <2>1. /\ running' \subseteq running
        /\ UNCHANGED <<tab, epoch, pc, miss, issued, last>>
    BY <1>15 DEF Retire, tier, local
  <2>2. QED
    BY <1>0, <2>1
    DEF BytesInv, MissInv, BroughtInv, ApartInv, ServedBytes, Brought, MissAddrs,
        HoldsNow, Holds, Matches, Held
<1>16. CASE Restart
  <2>1. /\ pc = "idle" /\ pc' = "idle" /\ running' = {} /\ miss' = miss
        /\ \A a \in Addr : tab'[a] = Nil /\ last'[a] = Nil
    BY <1>16 DEF Restart, local
  <2>2. miss' = <<>>
    BY <1>0, <2>1 DEF MissInv
  <2>3. QED
    BY <2>1, <2>2 DEF BytesInv, MissInv, BroughtInv, ApartInv, ServedBytes, Held
<1>17. CASE UNCHANGED vars
  BY <1>0, <1>17
  DEF BytesInv, MissInv, BroughtInv, ApartInv, ServedBytes, Brought, MissAddrs,
      HoldsNow, Holds, Matches, Held, vars, tier, local, device
<1>18. QED
  BY <1>1, <1>2, <1>3, <1>4, <1>5, <1>6, <1>7, <1>8, <1>9, <1>10, <1>11, <1>12,
     <1>13, <1>14, <1>15, <1>16, <1>17, <1>19 DEF Next, Serve

(* A tier just initialised has no bytes to serve.                          *)
LEMMA BytesInit == Init => BytesInv
BY DEF Init, BytesInv, MissInv, BroughtInv, ApartInv, ServedBytes, Held

(* With a host that stops at the first error, every kernel reads the bytes *)
(* of the experts it was launched for, from slots whose transfer it waits  *)
(* for.                                                                    *)
THEOREM BytesAreServed ==
  ASSUME AbortOnError
  PROVE  Spec => []ServedBytes
<1>1. Init => TypeOK /\ SlotInv /\ BytesInv
  BY TypeInit, SlotInit, BytesInit
<1>2. (TypeOK /\ SlotInv /\ BytesInv) /\ [Next]_vars => (TypeOK /\ SlotInv /\ BytesInv)'
  BY TypeNext, SlotNext, BytesNext
<1>3. (TypeOK /\ SlotInv /\ BytesInv) => ServedBytes
  BY DEF BytesInv
<1>4. QED
  BY <1>1, <1>2, <1>3, PTL DEF Spec

-----------------------------------------------------------------------------
(* One slot per expert, for a host that stops at the first error and a     *)
(* merged layer fetch that never comes back to a tensor it has done.       *)

(* The followers of a call are other tensors, each once.                   *)
FreshFollowers ==
  LET f == Followers
  IN  \A i \in DOMAIN f : f[i] # cur /\ \A j \in DOMAIN f : f[i] = f[j] => i = j

Unique ==
  \A a, b \in Held :
    tab[a].source = tab[b].source /\ tab[a].expert = tab[b].expert => a = b

(* Only the call in progress has entries that are yet to be filled.        *)
FilledInv == \A a \in Held : tab[a].filled \/ (pc = "slots" /\ a \in MissAddrs)

(* The tensors the merged fetch has yet to turn to have no miss so far.    *)
RestInv ==
  pc = "slots" => \A i \in DOMAIN rest :
    /\ rest[i] # doing /\ \A j \in DOMAIN rest : rest[i] = rest[j] => i = j
    /\ \A j \in DOMAIN miss : miss[j].source # rest[i]

(* The snapshot lists every slot of the tensor, filled or not.             *)
MemoInv ==
  pc = "slots" /\ Small =>
    \A a \in Held : tab[a].source = doing /\ tab[a].expert \in ExpertsOf(idsRaw) =>
      [expert |-> tab[a].expert, addr |-> a] \in memo[doing]

UniqueInv == Unique /\ (pc # "aborted" => FilledInv /\ RestInv /\ MemoInv)

(* A step that brings no entry and changes none but its recency or place.  *)
KeepsSlots ==
  \A a \in Addr : tab'[a] # Nil =>
    /\ a \in Held
    /\ tab'[a].source = tab[a].source /\ tab'[a].expert = tab[a].expert
    /\ tab'[a].filled = tab[a].filled

LEMMA StampSlots ==
  ASSUME TypeOK, NEW A \in SUBSET Held, tab' = Stamp(A)
  PROVE  KeepsSlots
<1>1. ASSUME NEW a \in Addr, tab'[a] # Nil
      PROVE  /\ a \in Held
             /\ tab'[a].source = tab[a].source /\ tab'[a].expert = tab[a].expert
             /\ tab'[a].filled = tab[a].filled
  <2>1. CASE a \notin A
    BY <1>1, <2>1 DEF Stamp, Held
  <2>2. CASE a \in A
    <3>1. PICK t : tab'[a] = [tab[a] EXCEPT !.epoch = epoch, !.touch = t]
      BY <2>2 DEF Stamp
    <3>2. tab[a] \in Entry /\ a \in Held
      BY <2>2 DEF TypeOK, Held
    <3>3. QED
      BY <3>1, <3>2 DEF Entry
  <2>3. QED
    BY <2>1, <2>2
<1>2. QED
  BY <1>1 DEF KeepsSlots

(* Such a step of a call keeps what is said of the entries.                *)
LEMMA UniqueKept ==
  ASSUME UniqueInv, pc # "aborted", KeepsSlots, pc = "slots" => pc' = "slots", miss' = miss
  PROVE  Unique' /\ FilledInv'
BY DEF UniqueInv, Unique, FilledInv, KeepsSlots, Held, MissAddrs

(* An expert's only slot is in the snapshot of its tensor, once filled.    *)
LEMMA SnapshotLists ==
  ASSUME TypeOK, Unique, NEW s \in Source, NEW a \in Held,
         tab[a].source = s, tab[a].filled, tab[a].expert \in ExpertsOf(idsRaw)
  PROVE  [expert |-> tab[a].expert, addr |-> a] \in Snapshot(s)
<1>1. a \in Resident(s)
  BY DEF Resident
<1>2. \A c \in Resident(s) : tab[c].expert = tab[a].expert => c = a
  BY DEF Resident, Unique
<1>3. tab[a].pos \in Nat
  BY DEF TypeOK, Held, Entry
<1>4. IsFirst(a, {c \in Resident(s) : tab[c].expert = tab[a].expert})
  BY <1>1, <1>2, <1>3 DEF IsFirst
<1>5. QED
  BY <1>1, <1>4 DEF Snapshot

(* The residency snapshot of a tensor that no miss of the call is about.   *)
LEMMA PrimedMemo ==
  ASSUME TypeOK, BytesInv, UniqueInv, pc \in {"prime", "slots"}, NEW s \in Source,
         tab' = Stamp(Resident(s)), doing' = s, memo'[s] = Snapshot(s), idsRaw' = idsRaw,
         \A j \in DOMAIN miss : miss[j].source # s
  PROVE  MemoInv'
<1>1. KeepsSlots
  BY SnapshotType, StampSlots
<1>2. ASSUME NEW a \in Held', tab'[a].source = s, tab'[a].expert \in ExpertsOf(idsRaw)
      PROVE  [expert |-> tab'[a].expert, addr |-> a] \in memo'[s]
  <2>1. /\ a \in Held /\ tab[a].source = s /\ tab[a].expert = tab'[a].expert
        /\ tab[a].expert \in ExpertsOf(idsRaw)
    BY <1>1, <1>2 DEF KeepsSlots, Held
  <2>2. a \notin MissAddrs
    BY <2>1 DEF MissAddrs, BytesInv, MissInv, HoldsNow, Holds, Matches
  <2>3. tab[a].filled
    BY <2>1, <2>2 DEF UniqueInv, FilledInv
  <2>4. QED
    BY <2>1, <2>3, SnapshotLists DEF UniqueInv
<1>3. QED
  BY <1>2 DEF MemoInv, ExpertsOf

(* An expert that a lookup does not find has no slot.                      *)
LEMMA ReservedIsNew ==
  ASSUME TypeOK, BytesInv, UniqueInv, Reserving
  PROVE  Matches(doing, Wanted) = {}
<1>1. pc = "slots" /\ k \in DOMAIN idsRaw /\ Found = {}
  BY DEF Reserving, Looking, TypeOK
<1>2. ASSUME NEW b \in Matches(doing, Wanted)
      PROVE  FALSE
  <2>1. b \in Held /\ tab[b].source = doing /\ tab[b].expert = Wanted
    BY DEF Matches
  <2>2. CASE Small
    <3>1. Wanted \in ExpertsOf(idsRaw)
      BY <1>1 DEF Wanted, ExpertsOf
    <3>2. [expert |-> Wanted, addr |-> b] \in memo[doing]
      BY <1>1, <2>1, <2>2, <3>1 DEF UniqueInv, MemoInv
    <3>3. PICK h \in memo[doing] : h.expert = Wanted /\ h.addr = b
      BY <3>2
    <3>4. b \in Found
      BY <2>2, <3>3 DEF Found
    <3>5. QED
      BY <1>1, <3>4
  <2>3. CASE ~Small
    <3>1. tab[b].filled \/ b \in MissAddrs
      BY <1>1, <2>1 DEF UniqueInv, FilledInv
    <3>2. b \in MissAddrs => tab[b].epoch = epoch
      BY DEF MissAddrs, BytesInv, MissInv, HoldsNow
    <3>3. b \in Found
      BY <1>2, <2>3, <3>1, <3>2 DEF Found
    <3>4. QED
      BY <1>1, <3>3
  <2>4. QED
    BY <2>2, <2>3
<1>3. QED
  BY <1>2

(* Every step keeps the entries single, and fills those it reserved.       *)
LEMMA UniqueNext ==
  ASSUME AbortOnError, TypeOK, SlotInv, BytesInv, UniqueInv, [Next]_vars,
         MergeOn /\ pc = "prime" => FreshFollowers
  PROVE  UniqueInv'
<1>0. miss \in Seq(Pointer) /\ \A a \in Held : tab[a] \in Entry
  BY DEF TypeOK, Held
(* A step after which the host has stopped.                                *)
<1>f. ASSUME Fail, tab' = tab
      PROVE  UniqueInv'
  BY <1>f DEF Fail, UniqueInv, Unique, Held
(* A step outside pass 1 that leaves the table alone.                      *)
<1>u. ASSUME pc # "slots", pc' # "slots", pc # "aborted", tab' = tab
      PROVE  UniqueInv'
  BY <1>u DEF UniqueInv, Unique, FilledInv, RestInv, MemoInv, Held
<1>1. ASSUME NEW s \in Source, NEW list \in IdLists, Call(s, list)
      PROVE  UniqueInv'
  BY <1>1, <1>u DEF Call, tier
<1>2. CASE Refuse \/ DrainFails \/ BadExpert \/ ReserveFails \/ FillFails \/ LaunchFails
  BY <1>2, <1>f DEF Refuse, DrainFails, BadExpert, ReserveFails, FillFails, LaunchFails, tier
<1>3. CASE Drain
  BY <1>3, <1>u DEF Drain, tier
<1>4. CASE Prime
  <2>1. /\ pc = "prime" /\ pc' = "slots" /\ UNCHANGED <<idsRaw, miss>>
        /\ doing' = cur /\ cur \in Source /\ miss = <<>>
    BY <1>4 DEF Prime, ids, TypeOK, BytesInv, MissInv
  <2>2. tab' = Stamp(IF Small THEN Resident(cur) ELSE {})
    BY <1>4 DEF Prime
  <2>3. KeepsSlots
    BY <2>1, <2>2, SnapshotType, StampSlots
  <2>4. Unique' /\ FilledInv'
    BY <2>1, <2>3, UniqueKept
  <2>5. RestInv'
    <3>1. rest' = <<>> \/ (rest' = Followers /\ FreshFollowers)
      BY <1>4, <2>1 DEF Prime
    <3>2. QED
      BY <2>1, <3>1 DEF RestInv, FreshFollowers
  <2>6. MemoInv'
    <3>1. CASE Small
      <4>1. tab' = Stamp(Resident(cur)) /\ memo' = [EmptyMemo EXCEPT ![cur] = Snapshot(cur)]
        BY <1>4, <2>2, <3>1 DEF Prime
      <4>2. memo'[cur] = Snapshot(cur)
        BY <2>1, <4>1 DEF EmptyMemo
      <4>3. QED
        BY <2>1, <4>1, <4>2, PrimedMemo
    <3>2. CASE ~Small
      BY <2>1, <3>2 DEF MemoInv, Small
    <3>3. QED
      BY <3>1, <3>2
  <2>7. QED
    BY <2>4, <2>5, <2>6 DEF UniqueInv
<1>5. CASE PrimeFollower
  <2> DEFINE s == Head(rest)
  <2>1. /\ pc = "slots" /\ pc' = "slots" /\ UNCHANGED <<idsRaw, miss>> /\ rest # <<>>
        /\ doing' = s /\ rest' = Tail(rest) /\ tab' = Stamp(Resident(s))
        /\ memo' = [memo EXCEPT ![s] = Snapshot(s)]
    BY <1>5 DEF PrimeFollower, ids
  <2>2. /\ rest \in Seq(Source) /\ s \in Source /\ s = rest[1] /\ 1 \in DOMAIN rest
        /\ \A i \in DOMAIN rest' : rest'[i] = rest[i + 1] /\ i + 1 \in DOMAIN rest /\ i \in Nat \ {0}
    <3>1. rest \in Seq(Source)
      BY DEF TypeOK
    <3>2. QED
      BY <2>1, <3>1, HeadTailProperties
  <2> HIDE DEF s
  <2>3. KeepsSlots
    BY <2>1, <2>2, SnapshotType, StampSlots
  <2>4. Unique' /\ FilledInv'
    BY <2>1, <2>3, UniqueKept
  <2>5. RestInv'
    <3>1. \A i \in DOMAIN rest :
            /\ \A j \in DOMAIN rest : rest[i] = rest[j] => i = j
            /\ \A j \in DOMAIN miss : miss[j].source # rest[i]
      BY <2>1 DEF UniqueInv, RestInv
    <3>2. ASSUME NEW i \in DOMAIN rest'
          PROVE  /\ rest'[i] # s /\ \A j \in DOMAIN rest' : rest'[i] = rest'[j] => i = j
                 /\ \A j \in DOMAIN miss : miss[j].source # rest'[i]
      BY <2>2, <3>1, <3>2
    <3>3. QED
      BY <2>1, <3>2 DEF RestInv
  <2>6. MemoInv'
    <3>1. \A j \in DOMAIN miss : miss[j].source # s
      BY <2>1, <2>2 DEF UniqueInv, RestInv
    <3>2. memo'[s] = Snapshot(s)
      BY <2>1, <2>2 DEF TypeOK
    <3>3. QED
      BY <2>1, <2>2, <3>1, <3>2, PrimedMemo
  <2>7. QED
    BY <2>4, <2>5, <2>6 DEF UniqueInv
<1>6. CASE Hit
  <2>1. /\ pc = "slots" /\ pc' = "slots" /\ UNCHANGED <<idsRaw, miss, rest, doing, memo>>
    BY <1>6 DEF Hit, Looking, ids
  <2>2. KeepsSlots
    <3>1. CASE Small
      BY <1>6, <3>1 DEF Hit, KeepsSlots, Held
    <3>2. CASE ~Small
      <4>1. PICK a \in Found : tab' = Stamp({a})
        BY <1>6, <3>2 DEF Hit
      <4>2. {a} \in SUBSET Held
        BY <3>2, <4>1 DEF Found, Matches
      <4>3. QED
        BY <4>1, <4>2, StampSlots
    <3>3. QED
      BY <3>1, <3>2
  <2>3. Unique' /\ FilledInv'
    BY <2>1, <2>2, UniqueKept
  <2>4. RestInv' /\ MemoInv'
    BY <2>1, <2>2 DEF UniqueInv, RestInv, MemoInv, KeepsSlots, Held, Small, ExpertsOf
  <2>5. QED
    BY <2>3, <2>4 DEF UniqueInv
<1>7. ASSUME NEW v \in Addr, Evict(v)
      PROVE  UniqueInv'
  <2>1. /\ pc = "slots" /\ pc' = "slots" /\ UNCHANGED <<idsRaw, miss, rest, doing, memo>>
        /\ v \in Held
    BY <1>7 DEF Evict, Reserving, Looking, ids, local, IsVictim, Evictable
  <2>2. KeepsSlots
    <3>1. ASSUME NEW a \in Addr, tab'[a] # Nil
          PROVE  /\ a \in Held
                 /\ tab'[a].source = tab[a].source /\ tab'[a].expert = tab[a].expert
                 /\ tab'[a].filled = tab[a].filled
      <4>1. a # v /\ (tab'[a] = tab[a] \/ (a \in Held /\ tab'[a] = [tab[a] EXCEPT !.pos = tab[v].pos]))
        BY <1>7, <3>1 DEF Evict
      <4>2. a \in Held
        BY <3>1, <4>1 DEF Held
      <4>3. QED
        BY <1>0, <4>1, <4>2 DEF Entry
    <3>2. QED
      BY <3>1 DEF KeepsSlots
  <2>3. Unique' /\ FilledInv'
    BY <2>1, <2>2, UniqueKept
  <2>4. RestInv' /\ MemoInv'
    BY <2>1, <2>2 DEF UniqueInv, RestInv, MemoInv, KeepsSlots, Held, Small, ExpertsOf
  <2>5. QED
    BY <2>3, <2>4 DEF UniqueInv
<1>8. ASSUME NEW a \in Addr, Reserve(a)
      PROVE  UniqueInv'
  <2>1. PICK new : new = [source |-> doing, expert |-> Wanted, touch |-> tick + 1,
                          epoch |-> epoch, filled |-> FALSE, pos |-> Cardinality(Held) + 1]
    OBVIOUS
  <2>2. PICK late : late = [source |-> doing, expert |-> Wanted, addr |-> a]
    OBVIOUS
  <2>3. /\ a \notin Held /\ tab' = [tab EXCEPT ![a] = new] /\ Reserving
        /\ pc = "slots" /\ pc' = "slots" /\ doing \in Source /\ Wanted \in Expert
        /\ miss' = Append(miss, late) /\ UNCHANGED <<idsRaw, rest, doing>>
    BY <1>8, <2>1, <2>2 DEF Reserve, Reserving, Looking, TypeOK, ids
  <2>4. /\ tab'[a] = new /\ \A b \in Addr : b # a => tab'[b] = tab[b]
    BY <2>3 DEF TypeOK
  <2>5. /\ new.source = doing /\ new.expert = Wanted
    BY <2>1
  <2>6. /\ DOMAIN miss' = DOMAIN miss \cup {Len(miss) + 1}
        /\ miss'[Len(miss) + 1] = late
        /\ \A i \in DOMAIN miss : miss'[i] = miss[i]
    <3>1. late \in Pointer
      BY <2>2, <2>3 DEF Pointer
    <3>2. /\ Len(miss') = Len(miss) + 1 /\ Len(miss) \in Nat
          /\ DOMAIN miss = 1..Len(miss) /\ DOMAIN miss' = 1..Len(miss')
          /\ \A i \in 1..Len(miss) : miss'[i] = miss[i]
          /\ miss'[Len(miss) + 1] = late
      BY <1>0, <2>3, <3>1, AppendProperties
    <3>3. 1..Len(miss') = 1..Len(miss) \cup {Len(miss) + 1}
      BY <3>2
    <3>4. QED
      BY <3>2, <3>3
  <2>7. Unique'
    <3>1. \A b \in Held : ~(tab[b].source = doing /\ tab[b].expert = Wanted)
      BY <2>3, ReservedIsNew DEF Matches
    <3>2. \A b \in Held' : b = a \/ b \in Held
      BY <2>4 DEF Held
    <3>3. QED
      BY <2>3, <2>4, <2>5, <3>1, <3>2 DEF UniqueInv, Unique, Held
  <2>8. FilledInv'
    <3>1. a \in MissAddrs' /\ \A b \in MissAddrs : b \in MissAddrs'
      BY <2>2, <2>6 DEF MissAddrs
    <3>2. QED
      BY <2>3, <2>4, <3>1 DEF UniqueInv, FilledInv, Held
  <2>9. RestInv'
    BY <2>2, <2>3, <2>6 DEF UniqueInv, RestInv
  <2>10. MemoInv'
    <3>1. CASE Small
      <4>1. memo'[doing] = memo[doing] \cup {[expert |-> Wanted, addr |-> a]}
        BY <1>8, <2>3, <3>1 DEF Reserve, TypeOK
      <4>2. ASSUME NEW b \in Held', tab'[b].source = doing,
                   tab'[b].expert \in ExpertsOf(idsRaw)
            PROVE  [expert |-> tab'[b].expert, addr |-> b] \in memo'[doing]
        <5>1. CASE b = a
          BY <2>4, <2>5, <4>1, <5>1
        <5>2. CASE b # a
          <6>1. b \in Held /\ tab'[b] = tab[b]
            BY <2>4, <5>2 DEF Held
          <6>2. QED
            BY <2>3, <3>1, <4>1, <4>2, <6>1 DEF UniqueInv, MemoInv
        <5>3. QED
          BY <5>1, <5>2
      <4>3. QED
        BY <2>3, <4>2 DEF MemoInv, ExpertsOf
    <3>2. CASE ~Small
      BY <2>3, <3>2 DEF MemoInv, Small
    <3>3. QED
      BY <3>1, <3>2
  <2>11. QED
    BY <2>7, <2>8, <2>9, <2>10 DEF UniqueInv
<1>9. CASE Fill
  <2>1. /\ pc = "slots" /\ pc' = "launch" /\ miss' = miss
        /\ tab' = [a \in Addr |->
                    IF Marked(a) THEN [tab[a] EXCEPT !.filled = TRUE] ELSE tab[a]]
    BY <1>9 DEF Fill, AllPlaced, local
  <2>2. \A a \in Addr : Marked(a) => a \in Held
    BY DEF Marked, IsFirst, Matches
  <2>3. \A a \in Held : Marked(a) => /\ tab'[a].filled
                                     /\ tab'[a].source = tab[a].source
                                     /\ tab'[a].expert = tab[a].expert
    BY <1>0, <2>1 DEF Entry, Held
  <2>4. \A a \in Addr : ~Marked(a) => tab'[a] = tab[a]
    BY <2>1
  <2>5. ASSUME NEW a \in Held, a \in MissAddrs
        PROVE  Marked(a)
    <3>1. PICK i \in DOMAIN miss : miss[i].addr = a
      BY <2>5 DEF MissAddrs
    <3>2. a \in Matches(miss[i].source, miss[i].expert)
      BY <3>1 DEF BytesInv, MissInv, HoldsNow, Holds
    <3>3. \A b \in Matches(miss[i].source, miss[i].expert) : b = a
      BY <2>1, <3>2 DEF Matches, UniqueInv, Unique
    <3>4. tab[a].pos \in Nat
      BY <1>0 DEF Entry
    <3>5. QED
      BY <3>2, <3>3, <3>4 DEF Marked, IsFirst
  <2>6. \A a \in Held' : a \in Held
    BY <2>2, <2>4 DEF Held
  <2>7. Unique'
    BY <2>1, <2>3, <2>4, <2>6 DEF UniqueInv, Unique, Held
  <2>8. FilledInv'
    BY <2>1, <2>3, <2>4, <2>5, <2>6 DEF UniqueInv, FilledInv, Held
  <2>9. QED
    BY <2>1, <2>7, <2>8 DEF UniqueInv, RestInv, MemoInv
<1>10. CASE Launch
  BY <1>10, <1>u DEF Launch, tier
<1>11. CASE Retire
  BY <1>11 DEF Retire, tier, ids, local, UniqueInv, Unique, FilledInv, RestInv, MemoInv, Held,
               MissAddrs, Small, ExpertsOf
<1>12. CASE Restart
  BY <1>12 DEF Restart, UniqueInv, Unique, FilledInv, RestInv, MemoInv, Held
<1>13. CASE UNCHANGED vars
  BY <1>13 DEF vars, tier, ids, local, UniqueInv, Unique, FilledInv, RestInv, MemoInv, Held,
               MissAddrs, Small, ExpertsOf
<1>14. QED
  BY <1>1, <1>2, <1>3, <1>4, <1>5, <1>6, <1>7, <1>8, <1>9, <1>10, <1>11, <1>12, <1>13
     DEF Next, Serve

(* At the start no slot is assigned.                                       *)
LEMMA UniqueInit == Init => UniqueInv
BY DEF Init, UniqueInv, Unique, FilledInv, RestInv, MemoInv, Held

LEMMA SlotsAreSingle ==
  ASSUME TypeOK, UniqueInv
  PROVE  OneSlotPerExpert
<1>1. ASSUME NEW s \in Source, NEW e \in Expert
      PROVE  Cardinality(Matches(s, e)) <= 1
  <2>1. CASE Matches(s, e) = {}
    BY <2>1, FS_EmptySet
  <2>2. CASE Matches(s, e) # {}
    <3>1. PICK a : Matches(s, e) = {a}
      BY <2>2 DEF Matches, UniqueInv, Unique
    <3>2. Cardinality({a}) = 1
      BY FS_Singleton
    <3>3. QED
      BY <3>1, <3>2
  <2>3. QED
    BY <2>1, <2>2
<1>2. QED
  BY <1>1 DEF OneSlotPerExpert

-----------------------------------------------------------------------------
(* The counters, for a host that stops at the first error and takes no     *)
(* merged layer fetch (whose followers' misses no call asked for).         *)

(* The experts of the call that its snapshot does not list.                *)
Unlisted == {e \in ExpertsOf(idsRaw) : ~\E h \in memo[cur] : h.expert = e}

(* What the call in progress still has to count.                           *)
CountInv ==
  /\ pc \in {"idle", "drain", "prime", "launch"} => hits + misses = asked
  /\ pc = "slots" =>
       /\ doing = cur /\ rest = <<>> /\ k <= Len(idsRaw) + 1
       /\ Small => /\ hits + misses + Cardinality(Unlisted) = asked
                   /\ \A j \in 1..k - 1 : idsRaw[j] \notin Unlisted
       /\ ~Small => hits + misses + (Len(idsRaw) + 1 - k) = asked

(* The experts of a call can be counted, and so can any part of them.      *)
LEMMA CallExperts ==
  ASSUME TypeOK
  PROVE  /\ IsFiniteSet(ExpertsOf(idsRaw))
         /\ \A B \in SUBSET ExpertsOf(idsRaw) : IsFiniteSet(B) /\ Cardinality(B) \in Nat
<1>1. IsFiniteSet(Expert \cup OutOfRange)
  BY TierAssumption, FS_Union
<1>2. ExpertsOf(idsRaw) \subseteq Expert \cup OutOfRange
  BY DEF ExpertsOf, TypeOK
<1>3. IsFiniteSet(ExpertsOf(idsRaw))
  BY <1>1, <1>2, FS_Subset
<1>4. QED
  BY <1>3, FS_Subset, FS_CardinalityType

(* The snapshot lists as many experts as the call has resident slots: each *)
(* is stamped and counted once.                                            *)
LEMMA EachResidentCountsOnce ==
  ASSUME TypeOK, Unique, NEW s \in Source
  PROVE  LET left == {e \in ExpertsOf(idsRaw) : ~\E h \in Snapshot(s) : h.expert = e}
         IN  /\ Cardinality(Resident(s)) \in Nat /\ Cardinality(left) \in Nat
             /\ Cardinality(Resident(s)) + Cardinality(left) = Cardinality(ExpertsOf(idsRaw))
<1> DEFINE all  == ExpertsOf(idsRaw)
           here == {tab[a].expert : a \in Resident(s)}
           left == {e \in all : ~\E h \in Snapshot(s) : h.expert = e}
           f    == [a \in Resident(s) |-> tab[a].expert]
<1>1. here \subseteq all
  BY DEF Resident
<1>2. \A e \in here : \E h \in Snapshot(s) : h.expert = e
  <2>1. ASSUME NEW a \in Resident(s)
        PROVE  \E h \in Snapshot(s) : h.expert = tab[a].expert
    <3>1. [expert |-> tab[a].expert, addr |-> a] \in Snapshot(s)
      BY SnapshotLists DEF Resident
    <3>2. QED
      BY <3>1
  <2>2. QED
    BY <2>1
<1>3. ASSUME NEW h \in Snapshot(s)
      PROVE  h.expert \in here
  <2>1. PICK a \in Resident(s) : h = [expert |-> tab[a].expert, addr |-> a]
    BY DEF Snapshot
  <2>2. h.expert = tab[a].expert
    BY <2>1
  <2>3. QED
    BY <2>2
<1>4. left = all \ here
  BY <1>2, <1>3
<1>5. IsFiniteSet(Resident(s)) /\ Cardinality(Resident(s)) \in Nat
  <2>1. Resident(s) \in SUBSET Addr
    BY DEF Resident, Held
  <2>2. QED
    BY <2>1, FiniteAddr, FS_Subset
<1>6. f \in Bijection(Resident(s), here)
  <2>1. \A a, b \in Resident(s) : f[a] = f[b] => a = b
    BY DEF Resident, Unique
  <2>2. f \in [Resident(s) -> here] /\ \A e \in here : \E a \in Resident(s) : f[a] = e
    OBVIOUS
  <2>3. QED
    <3> HIDE DEF f, here
    <3>1. f \in Injection(Resident(s), here)
      BY <2>1, <2>2 DEF Injection, IsInjective
    <3>2. f \in Surjection(Resident(s), here)
      BY <2>2 DEF Surjection
    <3>3. QED
      BY <3>1, <3>2 DEF Bijection
<1>7. Cardinality(here) = Cardinality(Resident(s))
  BY <1>5, <1>6, FS_Bijection DEF ExistsBijection
<1>8. IsFiniteSet(all) /\ all \cap here = here
  BY <1>1, CallExperts
<1>10. Cardinality(all) \in Nat /\ Cardinality(left) \in Nat
  BY CallExperts
<1> HIDE DEF all, here, left
<1>9. Cardinality(left) = Cardinality(all) - Cardinality(here)
  <2>1. Cardinality(all \ here) = Cardinality(all) - Cardinality(all \cap here)
    BY <1>8, FS_Difference
  <2>2. QED
    BY <1>4, <1>8, <2>1
<1>11. Cardinality(Resident(s)) + Cardinality(left) = Cardinality(all)
  BY <1>5, <1>7, <1>9, <1>10
<1>12. QED
  BY <1>5, <1>10, <1>11 DEF all, left

(* Every step counts what it answers.                                      *)
LEMMA CountNext ==
  ASSUME AbortOnError, ~MergeOn, TypeOK, BytesInv, UniqueInv, CountInv, [Next]_vars
  PROVE  CountInv'
<1>0. /\ hits \in Nat /\ misses \in Nat /\ asked \in Nat /\ k \in Nat \ {0}
      /\ Len(idsRaw) \in Nat /\ idsRaw \in Seq(Expert \cup OutOfRange)
      /\ DOMAIN idsRaw = 1..Len(idsRaw)
  BY DEF TypeOK
<1>c. Cardinality(Unlisted) \in Nat /\ IsFiniteSet(Unlisted)
  BY CallExperts DEF Unlisted
(* A step after which the host has stopped.                                *)
<1>f. ASSUME Fail
      PROVE  CountInv'
  BY <1>f DEF Fail, CountInv
(* A step outside pass 1 that counts nothing.                              *)
<1>u. ASSUME pc \in {"idle", "drain", "prime", "launch"}, pc' # "slots",
             UNCHANGED <<hits, misses, asked>>
      PROVE  CountInv'
  BY <1>u DEF CountInv
<1>1. ASSUME NEW s \in Source, NEW list \in IdLists, Call(s, list)
      PROVE  CountInv'
  BY <1>1, <1>u DEF Call, tier
<1>2. CASE Refuse \/ DrainFails \/ BadExpert \/ ReserveFails \/ FillFails \/ LaunchFails
  BY <1>2, <1>f DEF Refuse, DrainFails, BadExpert, ReserveFails, FillFails, LaunchFails
<1>3. CASE Drain
  BY <1>3, <1>u DEF Drain, tier
<1>4. CASE Prime
  <2>1. /\ pc = "prime" /\ pc' = "slots" /\ UNCHANGED <<idsRaw, misses, cur>>
        /\ doing' = cur /\ cur \in Source /\ rest' = <<>> /\ k' = 1
        /\ hits + misses = asked
    BY <1>4 DEF Prime, ids, TypeOK, CountInv
  <2>2. CASE Small
    <3>1. /\ memo' = [EmptyMemo EXCEPT ![cur] = Snapshot(cur)]
          /\ hits' = hits + Cardinality(Resident(cur))
          /\ asked' = asked + Cardinality(ExpertsOf(idsRaw))
      BY <1>4, <2>2 DEF Prime
    <3>2. memo'[cur'] = Snapshot(cur)
      BY <2>1, <3>1 DEF EmptyMemo
    <3>3. Unlisted' = {e \in ExpertsOf(idsRaw) : ~\E h \in Snapshot(cur) : h.expert = e}
      BY <2>1, <3>2 DEF Unlisted, ExpertsOf
    <3>4. /\ Cardinality(Resident(cur)) \in Nat /\ Cardinality(Unlisted') \in Nat
          /\ Cardinality(Resident(cur)) + Cardinality(Unlisted') = Cardinality(ExpertsOf(idsRaw))
      BY <2>1, <3>3, EachResidentCountsOnce DEF UniqueInv
    <3>5. hits' + misses' + Cardinality(Unlisted') = asked'
      <4>1. PICK r, n, m \in Nat : r = Cardinality(Resident(cur)) /\ n = Cardinality(Unlisted')
                                 /\ m = Cardinality(ExpertsOf(idsRaw))
        BY <3>4, CallExperts
      <4>2. hits' = hits + r /\ asked' = asked + m /\ r + n = m
        BY <3>1, <3>4, <4>1
      <4>3. hits' + misses' + n = asked'
        BY <1>0, <2>1, <4>2
      <4>4. QED
        BY <4>1, <4>3
    <3>6. QED
      BY <1>0, <2>1, <2>2, <3>5 DEF CountInv, Small
  <2>3. CASE ~Small
    <3>1. hits' = hits /\ asked' = asked + Len(idsRaw)
      <4>1. hits' = hits + Cardinality({}) /\ asked' = asked + Len(idsRaw)
        BY <1>4, <2>3 DEF Prime
      <4>2. QED
        BY <1>0, <4>1, FS_EmptySet
    <3>2. QED
      BY <1>0, <2>1, <2>3, <3>1 DEF CountInv, Small
  <2>4. QED
    BY <2>2, <2>3
<1>5. CASE PrimeFollower
  BY <1>5 DEF PrimeFollower, CountInv
<1>6. CASE Hit
  <2>1. /\ pc = "slots" /\ pc' = "slots" /\ k <= Len(idsRaw) /\ k' = k + 1
        /\ UNCHANGED <<idsRaw, misses, asked, cur, doing, rest, memo>> /\ Found # {}
        /\ doing = cur /\ rest = <<>>
    BY <1>6 DEF Hit, Looking, ids, Point, CountInv
  <2>2. CASE Small
    <3>1. Wanted \notin Unlisted /\ hits' = hits
      BY <1>6, <2>1, <2>2 DEF Hit, Found, Unlisted
    <3>2. Unlisted' = Unlisted
      BY <2>1 DEF Unlisted, ExpertsOf
    <3>3. \A j \in 1..k' - 1 : j \in 1..k - 1 \/ j = k
      BY <1>0, <2>1
    <3>4. QED
      BY <1>0, <2>1, <2>2, <3>1, <3>2, <3>3 DEF CountInv, Small, Wanted
  <2>3. CASE ~Small
    <3>1. hits' = hits + 1
      BY <1>6, <2>3 DEF Hit
    <3>2. QED
      BY <1>0, <2>1, <2>3, <3>1 DEF CountInv, Small
  <2>4. QED
    BY <2>2, <2>3
<1>7. ASSUME NEW v \in Addr, Evict(v)
      PROVE  CountInv'
  <2>1. /\ pc = "slots" /\ pc' = "slots"
        /\ UNCHANGED <<idsRaw, hits, misses, asked, cur, doing, rest, memo, k>>
    BY <1>7 DEF Evict, Reserving, Looking, ids, local
  <2>2. QED
    BY <2>1 DEF CountInv, Small, Unlisted, ExpertsOf
<1>8. ASSUME NEW a \in Addr, Reserve(a)
      PROVE  CountInv'
  <2>1. /\ pc = "slots" /\ pc' = "slots" /\ k <= Len(idsRaw) /\ k' = k + 1
        /\ UNCHANGED <<idsRaw, hits, asked, cur, doing, rest>> /\ misses' = misses + 1
        /\ Found = {} /\ doing = cur /\ rest = <<>> /\ doing \in Source
    BY <1>8 DEF Reserve, Reserving, Looking, ids, Point, CountInv, TypeOK
  <2>2. CASE Small
    <3>1. memo'[cur] = memo[cur] \cup {[expert |-> Wanted, addr |-> a]}
      BY <1>8, <2>1, <2>2 DEF Reserve, TypeOK
    <3>2. Wanted \in Unlisted
      <4>1. \A h \in memo[cur] : h.expert # Wanted
        BY <2>1, <2>2 DEF Found
      <4>2. Wanted \in ExpertsOf(idsRaw)
        BY <1>0, <2>1 DEF Wanted, ExpertsOf
      <4>3. QED
        BY <4>1, <4>2 DEF Unlisted
    <3>3. Unlisted' = Unlisted \ {Wanted}
      <4>1. \A e : (\E h \in memo'[cur] : h.expert = e) <=>
                   ((\E h \in memo[cur] : h.expert = e) \/ e = Wanted)
        <5>1. PICK h : h = [expert |-> Wanted, addr |-> a]
          OBVIOUS
        <5>2. memo'[cur] = memo[cur] \cup {h} /\ h.expert = Wanted
          BY <3>1, <5>1
        <5>3. QED
          BY <5>2
      <4>2. QED
        BY <2>1, <4>1 DEF Unlisted, ExpertsOf
    <3>4. Cardinality(Unlisted') = Cardinality(Unlisted) - 1
      BY <1>c, <3>2, <3>3, FS_RemoveElement
    <3>5. \A j \in 1..k' - 1 : j \in 1..k - 1 \/ j = k
      BY <1>0, <2>1
    <3>6. hits + misses + Cardinality(Unlisted) = asked
          /\ \A j \in 1..k - 1 : idsRaw[j] \notin Unlisted
      BY <2>1, <2>2 DEF CountInv
    <3>7. hits' + misses' + Cardinality(Unlisted') = asked'
      BY <1>0, <1>c, <2>1, <3>4, <3>6
    <3>8. \A j \in 1..k' - 1 : idsRaw'[j] \notin Unlisted'
      BY <2>1, <3>3, <3>5, <3>6 DEF Wanted
    <3>9. QED
      BY <1>0, <2>1, <2>2, <3>7, <3>8 DEF CountInv, Small
  <2>3. CASE ~Small
    BY <1>0, <2>1, <2>3 DEF CountInv, Small
  <2>4. QED
    BY <2>2, <2>3
<1>9. CASE Fill
  <2>1. /\ pc = "slots" /\ pc' = "launch" /\ k > Len(idsRaw) /\ UNCHANGED <<hits, misses, asked>>
    BY <1>9 DEF Fill, AllPlaced
  <2>2. hits + misses = asked
    <3>1. CASE Small
      <4>1. \A j \in 1..Len(idsRaw) : idsRaw[j] \notin Unlisted
        BY <1>0, <2>1, <3>1 DEF CountInv
      <4>2. Unlisted = {}
        BY <1>0, <4>1 DEF Unlisted, ExpertsOf
      <4>3. QED
        BY <1>0, <2>1, <3>1, <4>2, FS_EmptySet DEF CountInv
    <3>2. CASE ~Small
      BY <1>0, <2>1, <3>2 DEF CountInv
    <3>3. QED
      BY <3>1, <3>2
  <2>3. QED
    BY <2>1, <2>2 DEF CountInv
<1>10. CASE Launch
  BY <1>10, <1>u DEF Launch, tier
<1>11. CASE Restart
  BY <1>11 DEF Restart, CountInv
<1>12. CASE Retire \/ UNCHANGED vars
  BY <1>12 DEF Retire, vars, tier, ids, local, CountInv, Small, Unlisted, ExpertsOf
<1>13. QED
  BY <1>1, <1>2, <1>3, <1>4, <1>5, <1>6, <1>7, <1>8, <1>9, <1>10, <1>11, <1>12
     DEF Next, Serve

CountedInv == TypeOK /\ SlotInv /\ BytesInv /\ UniqueInv /\ CountInv

LEMMA CountedAlways ==
  ASSUME AbortOnError, ~MergeOn
  PROVE  Spec => []CountedInv
<1>1. Init => CountedInv
  <2>1. Init => CountInv
    BY DEF Init, CountInv
  <2>2. QED
    BY <2>1, TypeInit, SlotInit, BytesInit, UniqueInit DEF CountedInv
<1>2. CountedInv /\ [Next]_vars => CountedInv'
  <2> SUFFICES ASSUME CountedInv, [Next]_vars
               PROVE  CountedInv'
    OBVIOUS
  <2> USE DEF CountedInv
  <2>1. TypeOK' /\ SlotInv' /\ BytesInv'
    BY TypeNext, SlotNext, BytesNext
  <2>2. UniqueInv'
    BY UniqueNext
  <2>3. CountInv'
    BY CountNext
  <2>4. QED
    BY <2>1, <2>2, <2>3
<1>3. QED
  BY <1>1, <1>2, PTL DEF Spec

(* With a host that stops at the first error and without the merged layer  *)
(* fetch, the counters agree at every return: each distinct expert of a    *)
(* short list, and each place of a long one, was a hit or a miss once.     *)
THEOREM HitsAndMissesAlwaysAddUp ==
  ASSUME AbortOnError, ~MergeOn
  PROVE  Spec => []HitsAndMissesAddUp
<1>1. CountedInv => HitsAndMissesAddUp
  BY DEF CountedInv, CountInv, HitsAndMissesAddUp
<1>2. QED
  BY <1>1, CountedAlways, PTL

-----------------------------------------------------------------------------
(* The byte budget, for a host that stops at the first error and takes no  *)
(* merged layer fetch (whose followers share one call's epoch).            *)

(* The entries one call stamped are of one tensor, and of experts it asked *)
(* for.                                                                    *)
OfOneCall(a, list) ==
  \A b \in Held : tab[b].epoch = tab[a].epoch =>
    tab[b].source = tab[a].source /\ tab[b].expert \in ExpertsOf(list)

StampedInv == \A a \in Held : \E list \in IdLists : OfOneCall(a, list)

(* The call in progress stamps entries of its tensor, for the ids it has.  *)
StampsInv ==
  /\ pc \in {"drain", "prime"} => \A a \in Held : tab[a].epoch # epoch
  /\ pc = "slots" =>
       \A a \in Held : tab[a].epoch = epoch =>
         tab[a].source = cur /\ tab[a].expert \in ExpertsOf(idsRaw)
  /\ pc \in {"prime", "slots"} \/ lastKey # Nil => idsRaw \in IdLists
  /\ pc = "drain" => handed \in IdLists /\ (adjacent => lastKey # Nil)

BudgetInv == StampedInv /\ StampsInv /\ BudgetIsKept

(* The least element of a set of naturals, and the greatest below a bound. *)
LEMMA Least ==
  ASSUME NEW T \in SUBSET Nat, T # {}
  PROVE  \E x \in T : \A y \in T : x <= y
<1>1. PICK x \in T : \A y \in T : ~ (<<y, x>> \in OpToRel(<, Nat))
  BY WFMin, NatLessThanWellFounded
<1>2. \A y \in T : ~ (y < x)
  BY <1>1 DEF OpToRel
<1>3. QED
  BY <1>2

(* A bounded set of naturals has a greatest element.                       *)
LEMMA Greatest ==
  ASSUME NEW n \in Nat, NEW T \in SUBSET (0..n), T # {}
  PROVE  \E x \in T : \A y \in T : y <= x
<1>1. PICK z \in {n - y : y \in T} : \A w \in {n - y : y \in T} : z <= w
  <2>1. {n - y : y \in T} \in SUBSET Nat
    <3>1. \A y \in T : n - y \in Nat
      OBVIOUS
    <3>2. QED
      BY <3>1
  <2>3. {n - y : y \in T} # {}
    OBVIOUS
  <2>2. QED
    BY <2>1, <2>3, Least
<1>2. PICK x \in T : z = n - x
  OBVIOUS
<1>3. ASSUME NEW y \in T
      PROVE  y <= x
  <2>1. n - x <= n - y
    BY <1>1, <1>2
  <2>2. QED
    BY <2>1
<1>4. QED
  BY <1>3

(* A product grows with each factor.                                       *)
LEMMA Grows ==
  ASSUME NEW a \in Nat, NEW b \in Nat, NEW c \in Nat, a <= b
  PROVE  c * a <= c * b /\ a * c <= b * c /\ c * a \in Nat
OBVIOUS

(* A set of n pieces, each of at most m elements.                          *)
LEMMA Pieces ==
  ASSUME NEW n \in Nat, NEW m \in Nat, NEW S, IsFiniteSet(S), NEW h \in [S -> 1..n],
         \A g \in 1..n : Cardinality({x \in S : h[x] = g}) <= m
  PROVE  Cardinality(S) <= n * m
<1> DEFINE P(g) == {x \in S : h[x] = g}
           T    == (1..n) \X (1..m)
           b    == [g \in 1..n |-> CHOOSE f : f \in Bijection(1..Cardinality(P(g)), P(g))]
<1>1. ASSUME NEW g \in 1..n
      PROVE  /\ Cardinality(P(g)) \in 0..m
             /\ b[g] \in Bijection(1..Cardinality(P(g)), P(g))
  <2>1. IsFiniteSet(P(g))
    BY FS_Subset
  <2>2. ExistsBijection(1..Cardinality(P(g)), P(g)) /\ Cardinality(P(g)) \in Nat
    BY <2>1, FS_CardinalityType
  <2>3. Cardinality(P(g)) <= m
    OBVIOUS
  <2>4. \E f : f \in Bijection(1..Cardinality(P(g)), P(g))
    BY <2>2 DEF ExistsBijection
  <2>5. b[g] = CHOOSE f : f \in Bijection(1..Cardinality(P(g)), P(g))
    OBVIOUS
  <2> HIDE DEF P, b
  <2>6. b[g] \in Bijection(1..Cardinality(P(g)), P(g))
    BY <2>4, <2>5
  <2>7. Cardinality(P(g)) \in 0..m
    BY <2>2, <2>3
  <2>8. QED
    BY <2>6, <2>7
<1>2. CASE S = {}
  <2>1. Cardinality(S) = 0 /\ n * m \in Nat
    BY <1>2, FS_EmptySet, Grows
  <2>2. QED
    BY <2>1
<1>3. ASSUME NEW d \in S PROVE Cardinality(S) <= n * m
  <2> DEFINE f == [t \in T |-> IF t[2] <= Cardinality(P(t[1])) THEN b[t[1]][t[2]] ELSE d]
  <2>1. f \in [T -> S]
    <3>1. ASSUME NEW t \in T, t[2] <= Cardinality(P(t[1]))
          PROVE  b[t[1]][t[2]] \in S
      <4>1. t[1] \in 1..n /\ t[2] \in 1..Cardinality(P(t[1]))
        BY <1>1, <3>1
      <4>2. b[t[1]][t[2]] \in P(t[1])
        BY <1>1, <4>1 DEF Bijection, Injection
      <4>3. QED
        BY <4>2
    <3>2. QED
      BY <3>1
  <2>2. ASSUME NEW x \in S
        PROVE  \E t \in T : f[t] = x
    <3>1. PICK g \in 1..n : g = h[x]
      OBVIOUS
    <3>2. x \in P(g)
      BY <3>1
    <3>3. PICK j \in 1..Cardinality(P(g)) : b[g][j] = x
      BY <1>1, <3>2 DEF Bijection, Surjection
    <3>4. <<g, j>> \in T /\ j <= Cardinality(P(g))
      <4>1. PICK c \in 0..m : c = Cardinality(P(g))
        BY <1>1
      <4>2. j \in 1..c
        BY <3>3, <4>1
      <4>3. j \in 1..m /\ j <= c
        BY <4>2
      <4>4. QED
        BY <4>1, <4>3
    <3>5. PICK t \in T : t = <<g, j>>
      BY <3>4
    <3>6. f[t] = x
      BY <3>3, <3>4, <3>5
    <3>7. QED
      BY <3>6
  <2> HIDE DEF f
  <2>3. f \in Surjection(T, S)
    BY <2>1, <2>2 DEF Surjection
  <2>4. IsFiniteSet(T) /\ Cardinality(T) = n * m
    <3>1. IsFiniteSet(1..n) /\ IsFiniteSet(1..m)
      BY FS_Interval
    <3>2. /\ Cardinality(1..n) = IF 1 > n THEN 0 ELSE n - 1 + 1
          /\ Cardinality(1..m) = IF 1 > m THEN 0 ELSE m - 1 + 1
      BY FS_Interval
    <3>3. Cardinality(1..n) = n /\ Cardinality(1..m) = m
      BY <3>2
    <3>4. Cardinality((1..n) \X (1..m)) = Cardinality(1..n) * Cardinality(1..m)
          /\ IsFiniteSet((1..n) \X (1..m))
      BY <3>1, FS_Product
    <3>5. QED
      BY <3>3, <3>4
  <2>5. Cardinality(S) <= Cardinality(T)
    BY <2>3, <2>4, FS_Surjection
  <2>6. QED
    BY <2>4, <2>5
<1>4. QED
  BY <1>2, <1>3

(* What the steps change of the entries, for the lemmas below.             *)
LEMMA BytesFinite ==
  ASSUME TypeOK
  PROVE  /\ IsFiniteSet(Held) /\ IsFiniteSet(HeldBytes)
         /\ \A a \in Held : /\ tab[a] \in Entry /\ tab[a].source \in Source
                            /\ Bytes[tab[a].source] \in Nat \ {0} /\ tab[a].epoch \in Nat
         /\ \A c : c \in HeldBytes <=>
                   \E a \in Held : \E i \in 1..Bytes[tab[a].source] : c = <<a, i>>
<1>1. IsFiniteSet(Held)
  BY FiniteAddr, FS_Subset DEF Held
<1>2. \A a \in Held : /\ tab[a] \in Entry /\ tab[a].source \in Source
                      /\ Bytes[tab[a].source] \in Nat \ {0} /\ tab[a].epoch \in Nat
  BY TierAssumption DEF Held, TypeOK, Entry
<1> DEFINE f == [a \in Held |-> {a} \X (1..Bytes[tab[a].source])]
           R == {f[a] : a \in Held}
<1>3. IsFiniteSet(R)
  <2>1. f \in [Held -> R] /\ \A r \in R : \E a \in Held : f[a] = r
    OBVIOUS
  <2> HIDE DEF f, R
  <2>2. f \in Surjection(Held, R)
    BY <2>1 DEF Surjection
  <2>3. QED
    BY <1>1, <2>2, FS_Surjection
<1>4. \A r \in R : IsFiniteSet(r)
  <2>1. ASSUME NEW a \in Held PROVE IsFiniteSet(f[a])
    <3>0. PICK n \in Int : n = Bytes[tab[a].source]
      BY <1>2
    <3>3. IsFiniteSet(1..n)
      BY FS_Interval
    <3>4. IsFiniteSet({a})
      BY FS_Singleton
    <3>1. IsFiniteSet({a}) /\ IsFiniteSet(1..Bytes[tab[a].source])
      BY <3>0, <3>3, <3>4
    <3>2. QED
      BY <3>1, FS_Product
  <2>2. QED
    BY <2>1
<1>5. HeldBytes = UNION R
  BY DEF HeldBytes
<1>6. IsFiniteSet(HeldBytes)
  <2> HIDE DEF R
  <2>1. QED
    BY <1>3, <1>4, <1>5, FS_UNION
<1>7. \A c : c \in HeldBytes <=>
            \E a \in Held : \E i \in 1..Bytes[tab[a].source] : c = <<a, i>>
  BY DEF HeldBytes
<1>8. QED
  BY <1>1, <1>2, <1>6, <1>7

(* The entries one call stamped are no more than the experts it asked for. *)
LEMMA OneCallsEntries ==
  ASSUME TypeOK, Unique, NEW a \in Held, NEW list \in IdLists, OfOneCall(a, list),
         NEW A, A = {b \in Held : tab[b].epoch = tab[a].epoch}
  PROVE  IsFiniteSet(A) /\ Cardinality(A) <= Cardinality(ExpertsOf(list))
<1> DEFINE f == [b \in A |-> tab[b].expert]
<1>1. IsFiniteSet(ExpertsOf(list))
  <2>1. IsFiniteSet(Expert \cup OutOfRange)
    BY TierAssumption, FS_Union
  <2>2. ExpertsOf(list) \subseteq Expert \cup OutOfRange
    BY TierAssumption DEF ExpertsOf
  <2>3. QED
    BY <2>1, <2>2, FS_Subset
<1>2. f \in [A -> ExpertsOf(list)]
  BY DEF OfOneCall
<1>3. \A b, c \in A : f[b] = f[c] => b = c
  BY DEF OfOneCall, Unique
<1> HIDE DEF f
<1>4. f \in Injection(A, ExpertsOf(list))
  BY <1>2, <1>3 DEF Injection, IsInjective
<1>5. QED
  BY <1>1, <1>4, FS_Injection

(* With nothing to evict, the slots in use are those of the last GroupMax  *)
(* calls, and each call's are no more than it asked for.                   *)
LEMMA WindowIsBounded ==
  TypeOK /\ EpochInv /\ Unique /\ StampedInv /\ BytesAreHeld /\ Evictable = {}
    => OverBudgetBounded
<1> SUFFICES ASSUME TypeOK, EpochInv, Unique, StampedInv, BytesAreHeld, Evictable = {}
             PROVE  OverBudgetBounded
  OBVIOUS
<1>0. GroupMax \in Nat \ {0} /\ Capacity \in Nat /\ epoch \in Nat
  BY TierAssumption DEF TypeOK
<1>1. /\ IsFiniteSet(HeldBytes) /\ bytes = Cardinality(HeldBytes) /\ bytes \in Nat
      /\ \A c \in HeldBytes : c[1] \in Held
  BY BytesFinite, FS_CardinalityType DEF BytesAreHeld
<1> DEFINE h == [c \in HeldBytes |-> epoch - tab[c[1]].epoch + 1]
           P(g) == {c \in HeldBytes : h[c] = g}
           T == {Cardinality(P(g)) : g \in 1..GroupMax}
<1>2. h \in [HeldBytes -> 1..GroupMax]
  <2>1. ASSUME NEW c \in HeldBytes
        PROVE  epoch - tab[c[1]].epoch + 1 \in 1..GroupMax
    <3>1. PICK n \in Nat : n = tab[c[1]].epoch
      BY <1>1, BytesFinite
    <3>2. n <= epoch
      BY <1>1, <3>1 DEF EpochInv
    <3>3. ~(n + GroupMax <= epoch)
      BY <1>1, <3>1 DEF Evictable
    <3>4. epoch - n + 1 \in 1..GroupMax
      BY <1>0, <3>2, <3>3
    <3>5. QED
      BY <3>1, <3>4
  <2>2. QED
    BY <2>1
<1>3. T \in SUBSET (0..bytes) /\ T # {}
  <2>1. ASSUME NEW g \in 1..GroupMax
        PROVE  Cardinality(P(g)) \in 0..bytes
    <3>1. P(g) \in SUBSET HeldBytes
      OBVIOUS
    <3>2. Cardinality(P(g)) <= bytes /\ Cardinality(P(g)) \in Nat
      BY <1>1, <3>1, FS_Subset, FS_CardinalityType
    <3>3. QED
      BY <1>1, <3>2
  <2>2. 1 \in 1..GroupMax
    BY <1>0
  <2>3. QED
    BY <2>1, <2>2
<1>4. PICK g \in 1..GroupMax : \A i \in 1..GroupMax : Cardinality(P(i)) <= Cardinality(P(g))
  <2>1. PICK x \in T : \A y \in T : y <= x
    <3> HIDE DEF T
    <3>1. QED
      BY <1>1, <1>3, Greatest
  <2>2. QED
    BY <2>1
<1>5. PICK m \in Nat : m = Cardinality(P(g))
  <2>1. Cardinality(P(g)) \in T
    OBVIOUS
  <2> HIDE DEF T, P
  <2>2. Cardinality(P(g)) \in 0..bytes
    BY <1>3, <2>1
  <2>3. Cardinality(P(g)) \in Nat
    BY <1>1, <2>2
  <2>4. QED
    BY <2>3
<1>6. bytes <= GroupMax * m
  <2>1. \A i \in 1..GroupMax : Cardinality({c \in HeldBytes : h[c] = i}) <= m
    BY <1>4, <1>5
  <2> HIDE DEF h
  <2>2. Cardinality(HeldBytes) <= GroupMax * m
    BY <1>0, <1>1, <1>2, <2>1, Pieces
  <2>3. QED
    BY <1>1, <2>2
<1>7. CASE P(g) = {}
  <2>1. m = 0
    BY <1>5, <1>7, FS_EmptySet
  <2>2. bytes <= 0
    BY <1>0, <1>6, <2>1
  <2>3. QED
    BY <1>0, <1>1, <2>2 DEF OverBudgetBounded
<1>8. ASSUME NEW c \in P(g)
      PROVE  OverBudgetBounded
  <2>1. PICK a \in Held : a = c[1]
    BY <1>1
  <2>2. PICK list \in IdLists : OfOneCall(a, list)
    BY <2>1 DEF StampedInv
  <2>3. PICK A : A = {b \in Held : tab[b].epoch = tab[a].epoch}
    OBVIOUS
  <2>4. PICK s \in Source : s = tab[a].source
    BY <2>1, BytesFinite
  <2>5. PICK B \in Nat : B = Bytes[s]
    BY TierAssumption
  <2>6. PICK E : E = Cardinality(ExpertsOf(list))
    OBVIOUS
  <2>7. IsFiniteSet(A) /\ Cardinality(A) <= E /\ E \in Nat /\ Cardinality(A) \in Nat
    <3>1. IsFiniteSet(A) /\ Cardinality(A) <= E
      BY <2>2, <2>3, <2>6, OneCallsEntries
    <3>2. E \in Nat
      BY <2>6, ExpertsOfCount, TierAssumption
    <3>3. QED
      BY <3>1, <3>2, FS_CardinalityType
  <2>8. P(g) \subseteq A \X (1..B)
    <3>1. ASSUME NEW d \in P(g)
          PROVE  d \in A \X (1..B)
      <4>0. PICK b \in Held : \E i \in 1..Bytes[tab[b].source] : d = <<b, i>>
        BY BytesFinite
      <4>1. PICK i \in 1..Bytes[tab[b].source] : d = <<b, i>>
        BY <4>0
      <4>2. h[c] = g /\ h[d] = g
        OBVIOUS
      <4>3. epoch - tab[b].epoch + 1 = epoch - tab[a].epoch + 1
        BY <2>1, <4>1, <4>2
      <4>4. tab[b].epoch = tab[a].epoch
        <5>1. PICK x, y \in Nat : x = tab[b].epoch /\ y = tab[a].epoch
          BY <2>1, <4>1, BytesFinite
        <5>2. QED
          BY <1>0, <4>3, <5>1
      <4>5. b \in A /\ Bytes[tab[b].source] = B
        BY <2>2, <2>3, <2>4, <2>5, <4>1, <4>4 DEF OfOneCall
      <4>6. QED
        BY <4>1, <4>5
    <3>2. QED
      BY <3>1
  <2>9. IsFiniteSet(A \X (1..B)) /\ Cardinality(A \X (1..B)) = Cardinality(A) * B
    <3>1. IsFiniteSet(1..B)
      BY FS_Interval
    <3>2. Cardinality(1..B) = IF 1 > B THEN 0 ELSE B - 1 + 1
      BY FS_Interval
    <3>3. Cardinality(1..B) = B
      BY <3>2
    <3>4. QED
      BY <2>7, <3>1, <3>3, FS_Product
  <2>10. m <= Cardinality(A) * B
    <3> HIDE DEF P
    <3>1. QED
      BY <1>5, <2>8, <2>9, FS_Subset
  <2>11. m <= E * B /\ E * B \in Nat
    <3>1. PICK n \in Nat : n = Cardinality(A) /\ n <= E
      BY <2>7
    <3>2. n * B <= E * B /\ n * B \in Nat /\ E * B \in Nat
      BY <2>7, <3>1, Grows
    <3>3. QED
      BY <2>10, <3>1, <3>2
  <2>12. bytes <= GroupMax * (E * B)
    <3>1. PICK x \in Nat : x = E * B /\ m <= x
      BY <2>11
    <3>2. GroupMax * m <= GroupMax * x /\ GroupMax * m \in Nat /\ GroupMax * x \in Nat
      BY <1>0, <3>1, Grows
    <3>3. QED
      BY <1>1, <1>6, <3>1, <3>2
  <2>13. QED
    BY <2>5, <2>6, <2>12 DEF OverBudgetBounded
<1>9. QED
  BY <1>7, <1>8

(* And so after a step.                                                    *)
LEMMA WindowIsBoundedNext ==
  (TypeOK /\ EpochInv /\ Unique /\ StampedInv /\ BytesAreHeld /\ Evictable = {})'
    => OverBudgetBounded'
BY WindowIsBounded, PTL

(* A step that frees no slot and takes none keeps the sum.                 *)
LEMMA SameBytes ==
  ASSUME \A a \in Addr : /\ tab'[a] # Nil <=> tab[a] # Nil
                         /\ tab[a] # Nil => tab'[a].source = tab[a].source
  PROVE  HeldBytes' = HeldBytes
<1>1. Held' = Held
  BY DEF Held
<1>2. \A a \in Held : {a} \X (1..Bytes[tab'[a].source]) = {a} \X (1..Bytes[tab[a].source])
  BY DEF Held
<1>3. QED
  BY <1>1, <1>2 DEF HeldBytes

(* A step that stamps, if anything, what the call in progress asks for.    *)
LEMMA StampedKept ==
  ASSUME StampedInv, NEW s, NEW list \in IdLists,
         \A a \in Held' :
           \/ /\ tab'[a].epoch = epoch /\ tab'[a].source = s
              /\ tab'[a].expert \in ExpertsOf(list)
           \/ /\ a \in Held /\ tab'[a].source = tab[a].source
              /\ tab'[a].expert = tab[a].expert /\ tab'[a].epoch = tab[a].epoch
              /\ tab[a].epoch # epoch
  PROVE  StampedInv'
<1> SUFFICES ASSUME NEW a \in Held' PROVE \E l \in IdLists : OfOneCall(a, l)'
  BY DEF StampedInv
<1>1. CASE tab'[a].epoch = epoch
  <2>1. OfOneCall(a, list)'
    BY <1>1 DEF OfOneCall, ExpertsOf
  <2>2. QED
    BY <2>1
<1>2. CASE tab'[a].epoch # epoch
  <2>1. a \in Held /\ tab'[a].source = tab[a].source /\ tab'[a].epoch = tab[a].epoch
    BY <1>2
  <2>2. PICK l \in IdLists : OfOneCall(a, l)
    BY <2>1 DEF StampedInv
  <2>3. OfOneCall(a, l)'
    BY <1>2, <2>1, <2>2 DEF OfOneCall, ExpertsOf
  <2>4. QED
    BY <2>3
<1>3. QED
  BY <1>1, <1>2

(* Stamping entries of the call's tensor and experts.                      *)
LEMMA StampBudget ==
  ASSUME TypeOK, EpochInv, StampedInv, NEW s, NEW list \in IdLists,
         NEW A \in SUBSET Held, tab' = Stamp(A), epoch' = epoch,
         \A a \in A : tab[a].source = s /\ tab[a].expert \in ExpertsOf(list),
         \A a \in Held : tab[a].epoch = epoch =>
           tab[a].source = s /\ tab[a].expert \in ExpertsOf(list)
  PROVE  /\ StampedInv' /\ HeldBytes' = HeldBytes
         /\ \A a \in Held' : tab'[a].epoch = epoch =>
              tab'[a].source = s /\ tab'[a].expert \in ExpertsOf(list)
<1>1. KeepsEntries /\ \A a \in A : tab'[a].epoch = epoch
  BY StampKeeps
<1>2. \A a \in A : /\ a \in Held /\ a \in Addr /\ tab'[a] # Nil
                   /\ tab'[a].epoch = epoch /\ tab'[a].source = tab[a].source
                   /\ tab'[a].expert = tab[a].expert
  BY <1>1 DEF KeepsEntries, Held
<1>3. \A a \in Addr \ A : tab'[a] = tab[a]
  BY DEF Stamp
<1>4. \A a \in Addr : /\ tab'[a] # Nil <=> tab[a] # Nil
                      /\ tab[a] # Nil => tab'[a].source = tab[a].source
  BY <1>2, <1>3 DEF Held
<1>5. HeldBytes' = HeldBytes
  BY <1>4, SameBytes
<1>6. \A a \in Held' : a \in A \/ (a \in Held /\ tab'[a] = tab[a])
  BY <1>3 DEF Held
<1>7. \A a \in Held' : tab'[a].epoch = epoch =>
         tab'[a].source = s /\ tab'[a].expert \in ExpertsOf(list)
  BY <1>2, <1>6
<1>8. ASSUME NEW a \in Held'
      PROVE  \/ /\ tab'[a].epoch = epoch /\ tab'[a].source = s
                /\ tab'[a].expert \in ExpertsOf(list)
             \/ /\ a \in Held /\ tab'[a].source = tab[a].source
                /\ tab'[a].expert = tab[a].expert /\ tab'[a].epoch = tab[a].epoch
                /\ tab[a].epoch # epoch
  BY <1>2, <1>6, <1>7
<1>9. StampedInv'
  BY <1>8, StampedKept
<1>10. QED
  BY <1>5, <1>7, <1>9

(* The bytes of one slot.                                                  *)
LEMMA SlotBytes ==
  ASSUME NEW a, NEW n \in Nat
  PROVE  IsFiniteSet({a} \X (1..n)) /\ Cardinality({a} \X (1..n)) = n
<1>1. IsFiniteSet({a}) /\ Cardinality({a}) = 1
  BY FS_Singleton
<1>2. IsFiniteSet(1..n) /\ Cardinality(1..n) = IF 1 > n THEN 0 ELSE n - 1 + 1
  BY FS_Interval
<1>3. Cardinality(1..n) = n
  BY <1>2
<1>4. /\ IsFiniteSet({a} \X (1..n))
      /\ Cardinality({a} \X (1..n)) = Cardinality({a}) * Cardinality(1..n)
  BY <1>1, <1>2, FS_Product
<1>5. QED
  BY <1>1, <1>3, <1>4

(* Adding a disjoint finite set adds its cardinality.                      *)
LEMMA Joined ==
  ASSUME NEW S, NEW T, IsFiniteSet(S), IsFiniteSet(T), S \cap T = {}
  PROVE  /\ Cardinality(S \cup T) = Cardinality(S) + Cardinality(T)
         /\ Cardinality(S) \in Nat /\ Cardinality(T) \in Nat
<1>1. Cardinality(S \cup T) = Cardinality(S) + Cardinality(T) - Cardinality({})
  BY FS_Union
<1>2. Cardinality({}) = 0
  BY FS_EmptySet
<1>3. Cardinality(S) \in Nat /\ Cardinality(T) \in Nat
  BY FS_CardinalityType
<1>4. QED
  BY <1>1, <1>2, <1>3

(* The bytes of the tier after a slot is taken, and after one is freed.    *)
LEMMA TakenBytes ==
  ASSUME TypeOK, BytesAreHeld, NEW a \in Addr, a \notin Held, NEW s \in Source,
         tab'[a] # Nil, tab'[a].source = s,
         \A b \in Addr : b # a => tab'[b] = tab[b],
         bytes' = bytes + Bytes[s]
  PROVE  BytesAreHeld'
<1>1. PICK n \in Nat : n = Bytes[s]
  BY TierAssumption
<1>2. Held' = Held \cup {a}
  BY DEF Held
<1>3. HeldBytes' = HeldBytes \cup ({a} \X (1..n))
  <2>1. \A c : c \in HeldBytes' <=>
               \E b \in Held \cup {a} : c \in {b} \X (1..Bytes[tab'[b].source])
    BY <1>2 DEF HeldBytes
  <2>2. \A c : c \in HeldBytes <=> \E b \in Held : c \in {b} \X (1..Bytes[tab[b].source])
    BY DEF HeldBytes
  <2>3. \A b \in Held : tab'[b] = tab[b]
    BY DEF Held
  <2>4. Bytes[tab'[a].source] = n
    BY <1>1
  <2>5. QED
    BY <2>1, <2>2, <2>3, <2>4
<1>4. HeldBytes \cap ({a} \X (1..n)) = {}
  BY BytesFinite
<1>5. PICK S, T : S = HeldBytes /\ T = {a} \X (1..n)
  OBVIOUS
<1>6. IsFiniteSet(S) /\ IsFiniteSet(T) /\ Cardinality(T) = n /\ S \cap T = {}
  BY <1>4, <1>5, BytesFinite, SlotBytes
<1>7. Cardinality(S \cup T) = Cardinality(S) + n
  BY <1>6, Joined
<1>8. QED
  BY <1>1, <1>3, <1>5, <1>7 DEF BytesAreHeld

(* A step that frees one slot gives back its bytes.                        *)
LEMMA FreedBytes ==
  ASSUME TypeOK, BytesAreHeld, NEW v \in Held,
         tab'[v] = Nil,
         \A b \in Addr : b # v => /\ tab'[b] # Nil <=> tab[b] # Nil
                                  /\ tab[b] # Nil => tab'[b].source = tab[b].source,
         bytes' = bytes - Bytes[tab[v].source]
  PROVE  BytesAreHeld' /\ bytes' <= bytes
<1>0. v \in Addr /\ tab[v].source \in Source
  BY BytesFinite DEF Held
<1>1. PICK n \in Nat : n = Bytes[tab[v].source]
  BY <1>0, TierAssumption
<1>2. Held' = Held \ {v}
  BY DEF Held
<1>3. HeldBytes = HeldBytes' \cup ({v} \X (1..n)) /\ HeldBytes' \cap ({v} \X (1..n)) = {}
  <2>1. \A c : c \in HeldBytes' <=>
               \E b \in Held \ {v} : c \in {b} \X (1..Bytes[tab'[b].source])
    BY <1>2 DEF HeldBytes
  <2>2. \A c : c \in HeldBytes <=> \E b \in Held : c \in {b} \X (1..Bytes[tab[b].source])
    BY DEF HeldBytes
  <2>3. \A b \in Held : b # v => tab'[b].source = tab[b].source
    BY DEF Held
  <2>4. \A c : c \in HeldBytes' <=>
               \E b \in Held \ {v} : c \in {b} \X (1..Bytes[tab[b].source])
    BY <2>1, <2>3
  <2>5. QED
    BY <1>1, <2>2, <2>4
<1>4. IsFiniteSet(HeldBytes')
  BY <1>3, BytesFinite, FS_Subset
<1>5. PICK S, T : S = HeldBytes' /\ T = {v} \X (1..n)
  OBVIOUS
<1>6. IsFiniteSet(S) /\ IsFiniteSet(T) /\ Cardinality(T) = n /\ S \cap T = {}
  BY <1>3, <1>4, <1>5, SlotBytes
<1>7. Cardinality(S \cup T) = Cardinality(S) + n /\ Cardinality(S) \in Nat
  BY <1>6, Joined
<1>8. bytes = Cardinality(S) + n
  BY <1>3, <1>5, <1>7 DEF BytesAreHeld
<1>9. bytes' = Cardinality(S) /\ bytes' <= bytes
  BY <1>1, <1>7, <1>8
<1>10. QED
  BY <1>5, <1>9 DEF BytesAreHeld

(* A tier that does not grow stays within its bound.                       *)
LEMMA BoundKept ==
  ASSUME TypeOK, TypeOK', OverBudgetBounded, bytes' <= bytes
  PROVE  OverBudgetBounded'
<1>1. bytes \in Int /\ bytes' \in Int /\ Capacity \in Nat
  BY TierAssumption DEF TypeOK
<1>2. CASE bytes <= Capacity
  BY <1>1, <1>2 DEF OverBudgetBounded
<1>3. CASE ~(bytes <= Capacity)
  <2>1. PICK list \in IdLists, s \in Source :
          bytes <= GroupMax * (Cardinality(ExpertsOf(list)) * Bytes[s])
    BY <1>3 DEF OverBudgetBounded
  <2>2. PICK n \in Nat, m \in Nat : n = Cardinality(ExpertsOf(list)) /\ m = Bytes[s]
    BY ExpertsOfCount, TierAssumption
  <2>3. PICK x \in Nat : x = n * m
    BY Grows
  <2>4. PICK y \in Nat : y = GroupMax * x
    BY <2>3, Grows, TierAssumption
  <2>5. bytes' <= y
    BY <1>1, <2>1, <2>2, <2>3, <2>4
  <2>6. bytes' <= GroupMax * (Cardinality(ExpertsOf(list)) * Bytes[s])
    BY <2>2, <2>3, <2>4, <2>5
  <2>7. QED
    BY <2>6 DEF OverBudgetBounded, ExpertsOf
<1>4. QED
  BY <1>2, <1>3

(* A step that takes and frees no slot keeps the budget.                   *)
LEMMA BudgetSame ==
  ASSUME TypeOK, TypeOK', BudgetIsKept, HeldBytes' = HeldBytes, bytes' = bytes
  PROVE  BudgetIsKept'
<1>1. BytesAreHeld'
  BY DEF BudgetIsKept, BytesAreHeld
<1>2. bytes' <= bytes
  BY DEF TypeOK
<1>3. QED
  BY <1>1, <1>2, BoundKept DEF BudgetIsKept

(* A step that leaves the table and its bytes alone.                       *)
LEMMA BudgetIdle ==
  ASSUME TypeOK, TypeOK', BudgetInv, tab' = tab, bytes' = bytes
  PROVE  StampedInv' /\ BudgetIsKept'
<1>1. HeldBytes' = HeldBytes
  BY SameBytes
<1>2. StampedInv'
  BY DEF BudgetInv, StampedInv, OfOneCall, Held, ExpertsOf
<1>3. QED
  BY <1>1, <1>2, BudgetSame DEF BudgetInv

(* Every step keeps the budget.                                           *)
LEMMA BudgetNext ==
  ASSUME AbortOnError, ~MergeOn, CountedInv, CountedInv', BudgetInv, [Next]_vars
  PROVE  BudgetInv'
<1>0. /\ TypeOK /\ TypeOK' /\ EpochInv /\ Unique /\ EpochInv' /\ Unique'
      /\ StampedInv /\ StampsInv /\ BudgetIsKept
  BY DEF CountedInv, SlotInv, UniqueInv, BudgetInv
<1>t. TypeOK
  BY DEF CountedInv
<1>c. pc = "slots" => doing = cur /\ rest = <<>>
  BY DEF CountedInv, CountInv
<1>k. lastKey # Nil => idsRaw \in IdLists
  BY <1>0 DEF StampsInv
(* A step after which the host has stopped.                                *)
<1>f. ASSUME Fail, tab' = tab, bytes' = bytes, UNCHANGED ids
      PROVE  BudgetInv'
  <2>1. pc' = "aborted"
    BY <1>f DEF Fail
  <2>2. StampsInv'
    BY <1>f, <1>k, <2>1 DEF StampsInv, ids
  <2>3. QED
    BY <1>0, <1>f, <2>2, BudgetIdle DEF BudgetInv
<1>1. ASSUME NEW s \in Source, NEW list \in IdLists, Call(s, list)
      PROVE  BudgetInv'
  <2>1. /\ tab' = tab /\ bytes' = bytes /\ epoch' = epoch + 1 /\ handed' = list
        /\ UNCHANGED <<idsRaw, lastKey>> /\ pc' \in {"drain", "prime"}
        /\ adjacent' = Adjacent(s, list) /\ (pc' = "prime" => Adjacent(s, list))
    BY <1>1 DEF Call, tier
  <2>2. Adjacent(s, list) => lastKey # Nil
    BY TierAssumption DEF Adjacent
  <2>3. \A a \in Held' : tab'[a].epoch # epoch'
    <3>1. ASSUME NEW a \in Held
          PROVE  tab[a].epoch # epoch + 1
      <4>1. PICK n \in Nat : n = tab[a].epoch
        BY <1>0, BytesFinite
      <4>2. n <= epoch /\ epoch \in Nat
        <5>1. epoch \in Nat
          BY <1>t DEF TypeOK
        <5>2. QED
          BY <1>0, <4>1, <5>1 DEF EpochInv
      <4>3. QED
        BY <4>1, <4>2
    <3>2. QED
      BY <2>1, <3>1 DEF Held
  <2>4. StampsInv'
    BY <1>k, <2>1, <2>2, <2>3 DEF StampsInv
  <2>5. QED
    BY <1>0, <2>1, <2>4, BudgetIdle DEF BudgetInv
<1>2. CASE Refuse \/ DrainFails \/ BadExpert \/ ReserveFails \/ FillFails \/ LaunchFails
  BY <1>2, <1>f DEF Refuse, DrainFails, BadExpert, ReserveFails, FillFails, LaunchFails, tier
<1>3. CASE Drain
  <2>1. /\ tab' = tab /\ bytes' = bytes /\ epoch' = epoch /\ pc = "drain" /\ pc' = "prime"
        /\ idsRaw' = IF IdCheck /\ adjacent THEN idsRaw ELSE handed
    BY <1>3 DEF Drain, tier
  <2>2. idsRaw' \in IdLists
    BY <1>0, <1>k, <2>1 DEF StampsInv
  <2>3. \A a \in Held' : tab'[a].epoch # epoch'
    BY <1>0, <2>1 DEF StampsInv, Held
  <2>4. StampsInv'
    BY <2>1, <2>2, <2>3 DEF StampsInv
  <2>5. QED
    BY <1>0, <2>1, <2>4, BudgetIdle DEF BudgetInv
<1>4. CASE Prime
  <2>1. PICK A : A = IF Small THEN Resident(cur) ELSE {}
    OBVIOUS
  <2>2. /\ tab' = Stamp(A) /\ bytes' = bytes /\ epoch' = epoch /\ pc = "prime" /\ pc' = "slots"
        /\ UNCHANGED <<idsRaw, lastKey, cur>> /\ A \in SUBSET Held
    BY <1>4, <2>1 DEF Prime, ids, Resident
  <2>3. \A a \in A : tab[a].source = cur /\ tab[a].expert \in ExpertsOf(idsRaw)
    BY <2>1 DEF Resident
  <2>4. idsRaw \in IdLists /\ \A a \in Held : tab[a].epoch # epoch
    BY <1>0, <2>2 DEF StampsInv
  <2>5. PICK list \in IdLists, s \in {cur} : list = idsRaw /\ s = cur
    BY <2>4
  <2>6. /\ StampedInv' /\ HeldBytes' = HeldBytes
        /\ \A a \in Held' : tab'[a].epoch = epoch =>
              tab'[a].source = s /\ tab'[a].expert \in ExpertsOf(list)
    BY <1>0, <2>2, <2>3, <2>4, <2>5, StampBudget
  <2>7. StampsInv'
    BY <1>k, <2>2, <2>4, <2>5, <2>6 DEF StampsInv, ExpertsOf
  <2>8. QED
    BY <1>0, <2>2, <2>6, <2>7, BudgetSame DEF BudgetInv
<1>5. CASE PrimeFollower
  BY <1>5, <1>c DEF PrimeFollower
<1>6. CASE Hit
  <2>1. /\ bytes' = bytes /\ epoch' = epoch /\ pc = "slots" /\ pc' = "slots" /\ doing = cur
        /\ UNCHANGED <<idsRaw, lastKey, cur>> /\ k \in DOMAIN idsRaw
    <3>1. pc = "slots" /\ k <= Len(idsRaw)
      BY <1>6 DEF Hit, Looking
    <3>2. k \in DOMAIN idsRaw
      BY <1>t, <3>1 DEF TypeOK
    <3>3. QED
      BY <1>6, <1>c, <3>1, <3>2 DEF Hit, ids
  <2>2. PICK list \in IdLists, s \in {cur} : list = idsRaw /\ s = cur
    BY <1>0, <2>1 DEF StampsInv
  <2>3. \A a \in Held : tab[a].epoch = epoch =>
           tab[a].source = s /\ tab[a].expert \in ExpertsOf(list)
    BY <1>0, <2>1, <2>2 DEF StampsInv
  <2>4. CASE Small
    <3>1. tab' = tab
      BY <1>6, <2>4 DEF Hit
    <3>2. StampsInv'
      BY <1>k, <2>1, <2>2, <2>3, <3>1 DEF StampsInv, Held, ExpertsOf
    <3>3. QED
      BY <1>0, <2>1, <3>1, <3>2, BudgetIdle DEF BudgetInv
  <2>5. CASE ~Small
    <3>1. PICK a \in Matches(doing, Wanted) : tab' = Stamp({a})
      BY <1>6, <2>5 DEF Hit, Found
    <3>2. PICK A \in SUBSET Held : A = {a}
      BY <3>1 DEF Matches
    <3>3. \A b \in A : tab[b].source = s /\ tab[b].expert \in ExpertsOf(list)
      BY <2>1, <2>2, <3>1, <3>2 DEF Matches, Wanted, ExpertsOf
    <3>4. /\ StampedInv' /\ HeldBytes' = HeldBytes
          /\ \A b \in Held' : tab'[b].epoch = epoch =>
                tab'[b].source = s /\ tab'[b].expert \in ExpertsOf(list)
      BY <1>0, <2>1, <2>3, <3>1, <3>2, <3>3, StampBudget
    <3>5. StampsInv'
      BY <1>k, <2>1, <2>2, <3>4 DEF StampsInv, ExpertsOf
    <3>6. QED
      BY <1>0, <2>1, <3>4, <3>5, BudgetSame DEF BudgetInv
  <2>6. QED
    BY <2>4, <2>5
<1>7. ASSUME NEW v \in Addr, Evict(v)
      PROVE  BudgetInv'
  <2>1. /\ epoch' = epoch /\ pc = "slots" /\ pc' = "slots"
        /\ UNCHANGED <<idsRaw, lastKey, cur>> /\ v \in Held
        /\ bytes' = bytes - Bytes[tab[v].source]
    BY <1>7 DEF Evict, Reserving, Looking, IsVictim, Evictable, ids, local, Freed
  <2>2. /\ tab'[v] = Nil
        /\ \A b \in Addr : b # v =>
             /\ tab'[b] # Nil <=> tab[b] # Nil
             /\ tab[b] # Nil => /\ tab'[b].source = tab[b].source
                                /\ tab'[b].expert = tab[b].expert
                                /\ tab'[b].epoch = tab[b].epoch
    <3>1. tab'[v] = Nil
      BY <1>7 DEF Evict
    <3>2. ASSUME NEW b \in Addr, b # v
          PROVE  \/ tab'[b] = tab[b]
                 \/ b \in Held /\ tab'[b] = [tab[b] EXCEPT !.pos = tab[v].pos]
      BY <1>7, <3>2 DEF Evict
    <3>3. ASSUME NEW b \in Held, tab'[b] = [tab[b] EXCEPT !.pos = tab[v].pos]
          PROVE  /\ tab[b] # Nil /\ tab'[b] # Nil /\ tab'[b].source = tab[b].source
                 /\ tab'[b].expert = tab[b].expert /\ tab'[b].epoch = tab[b].epoch
      <4>1. tab[b] \in Entry /\ tab[v] \in Entry
        BY <1>0, <2>1, BytesFinite
      <4>2. tab'[b] \in Entry
        BY <3>3, <4>1 DEF Entry
      <4>3. QED
        BY <3>3, <4>1, <4>2, TierAssumption DEF Entry
    <3>4. QED
      BY <3>1, <3>2, <3>3
  <2>3. BytesAreHeld' /\ bytes' <= bytes
    BY <1>0, <2>1, <2>2, FreedBytes DEF BudgetIsKept
  <2>4. OverBudgetBounded'
    BY <1>0, <2>3, BoundKept DEF BudgetIsKept
  <2>5. \A b \in Held' : /\ b \in Held /\ tab'[b].source = tab[b].source
                         /\ tab'[b].expert = tab[b].expert /\ tab'[b].epoch = tab[b].epoch
    BY <2>1, <2>2 DEF Held
  <2>6. StampedInv'
    BY <1>0, <2>5 DEF StampedInv, OfOneCall, ExpertsOf
  <2>7. StampsInv'
    BY <1>0, <2>1, <2>5 DEF StampsInv, ExpertsOf
  <2>8. QED
    BY <2>3, <2>4, <2>6, <2>7 DEF BudgetInv, BudgetIsKept
<1>8. ASSUME NEW a \in Addr, Reserve(a)
      PROVE  BudgetInv'
  <2>1. PICK new : new = [source |-> doing, expert |-> Wanted, touch |-> tick + 1,
                          epoch |-> epoch, filled |-> FALSE, pos |-> Cardinality(Held) + 1]
    OBVIOUS
  <2>2. /\ epoch' = epoch /\ pc = "slots" /\ pc' = "slots" /\ doing = cur
        /\ UNCHANGED <<idsRaw, lastKey, cur>> /\ a \notin Held /\ k \in DOMAIN idsRaw
        /\ bytes' = bytes + Bytes[doing] /\ (OverBudget => Evictable = {})
        /\ tab' = [tab EXCEPT ![a] = new]
    <3>1. pc = "slots" /\ k <= Len(idsRaw)
      BY <1>8 DEF Reserve, Reserving, Looking
    <3>2. k \in DOMAIN idsRaw
      BY <1>t, <3>1 DEF TypeOK
    <3>3. QED
      BY <1>8, <1>c, <2>1, <3>1, <3>2 DEF Reserve, ids
  <2>3. PICK list \in IdLists, s \in Source : list = idsRaw /\ s = cur
    <3>1. cur \in Source
      BY <1>t, <2>2 DEF TypeOK
    <3>2. QED
      BY <1>0, <2>2, <3>1 DEF StampsInv
  <2>4. /\ tab'[a] = new /\ \A b \in Addr : b # a => tab'[b] = tab[b]
    BY <1>t, <2>2 DEF TypeOK
  <2>5. /\ new.source = s /\ new.expert \in ExpertsOf(list) /\ new.epoch = epoch /\ new # Nil
    <3>1. new.source = s /\ new.expert = Wanted /\ new.epoch = epoch
      BY <2>1, <2>2, <2>3
    <3>2. Wanted \in ExpertsOf(list)
      BY <2>2, <2>3 DEF Wanted, ExpertsOf
    <3>3. new \in Entry
      <4>1. Wanted \in Expert
        BY <1>8 DEF Reserve, Reserving
      <4>2. Cardinality(Held) \in Nat
        BY FiniteAddr DEF Held
      <4>3. doing \in Source /\ tick + 1 \in Nat /\ epoch \in Nat
        <5>1. doing \in Source
          BY <2>2, <2>3
        <5>2. QED
          BY <1>t, <5>1 DEF TypeOK
      <4>4. QED
        BY <2>1, <4>1, <4>2, <4>3 DEF Entry
    <3>4. QED
      BY <3>1, <3>2, <3>3, TierAssumption
  <2>6. \A b \in Held' : b = a \/ (b # a /\ b \in Held /\ tab'[b] = tab[b])
    BY <2>4 DEF Held
  <2>7. \A b \in Held : tab[b].epoch = epoch =>
           tab[b].source = s /\ tab[b].expert \in ExpertsOf(list)
    BY <1>0, <2>2, <2>3 DEF StampsInv
  <2>8. ASSUME NEW b \in Held'
        PROVE  \/ /\ tab'[b].epoch = epoch /\ tab'[b].source = s
                  /\ tab'[b].expert \in ExpertsOf(list)
               \/ /\ b \in Held /\ tab'[b].source = tab[b].source
                  /\ tab'[b].expert = tab[b].expert /\ tab'[b].epoch = tab[b].epoch
                  /\ tab[b].epoch # epoch
    BY <2>4, <2>5, <2>6, <2>7
  <2>9. StampedInv'
    BY <1>0, <2>8, StampedKept
  <2>10. StampsInv'
    BY <1>0, <1>k, <2>2, <2>3, <2>8 DEF StampsInv, ExpertsOf
  <2>11. BytesAreHeld'
    <3>1. bytes' = bytes + Bytes[s] /\ tab'[a] # Nil /\ tab'[a].source = s
      BY <2>2, <2>3, <2>4, <2>5
    <3>2. QED
      BY <1>0, <2>2, <2>4, <3>1, TakenBytes DEF BudgetIsKept
  <2>12. OverBudgetBounded'
    <3>1. CASE OverBudget
      <4>1. Evictable' = {}
        <5>1. \A b \in Held : ~(tab[b].epoch + GroupMax <= epoch)
          BY <2>2, <3>1 DEF Evictable
        <5>2. ~(epoch + GroupMax <= epoch)
          <6>1. epoch \in Nat
            BY <1>t DEF TypeOK
          <6>2. QED
            BY <6>1, TierAssumption
        <5>3. \A b \in Held' : ~(tab'[b].epoch + GroupMax <= epoch)
          BY <2>4, <2>5, <2>6, <5>1, <5>2
        <5>4. QED
          BY <2>2, <5>3 DEF Evictable
      <4>2. QED
        BY <1>0, <2>9, <2>11, <4>1, WindowIsBoundedNext
    <3>2. CASE ~OverBudget
      <4>1. bytes' <= Capacity
        <5>1. bytes \in Int /\ Bytes[doing] \in Int /\ Capacity \in Int
          BY <1>t, <2>2, <2>3, TierAssumption DEF TypeOK
        <5>2. QED
          BY <2>2, <3>2, <5>1 DEF OverBudget
      <4>2. QED
        BY <4>1 DEF OverBudgetBounded
    <3>3. QED
      BY <3>1, <3>2
  <2>13. QED
    BY <2>9, <2>10, <2>11, <2>12 DEF BudgetInv, BudgetIsKept
<1>9. CASE Fill
  <2>1. /\ bytes' = bytes /\ epoch' = epoch /\ pc' = "launch" /\ UNCHANGED <<idsRaw, lastKey>>
    BY <1>9 DEF Fill, ids
  <2>2. \A a \in Addr : \/ tab'[a] = tab[a]
                        \/ a \in Held /\ tab'[a] = [tab[a] EXCEPT !.filled = TRUE]
    <3>1. \A a \in Addr : Marked(a) => a \in Held
      BY DEF Marked, IsFirst, Matches
    <3>2. \A a \in Addr : \/ tab'[a] = tab[a]
                          \/ Marked(a) /\ tab'[a] = [tab[a] EXCEPT !.filled = TRUE]
      BY <1>9 DEF Fill
    <3>3. QED
      BY <3>1, <3>2, Zenon
  <2>3. ASSUME NEW a \in Held
        PROVE  /\ tab'[a] # Nil /\ tab'[a].source = tab[a].source
               /\ tab'[a].expert = tab[a].expert /\ tab'[a].epoch = tab[a].epoch
    <3>1. tab[a] \in Entry /\ a \in Addr
      BY <1>0, BytesFinite DEF Held
    <3>2. CASE tab'[a] = tab[a]
      BY <3>1, <3>2, TierAssumption
    <3>3. CASE tab'[a] = [tab[a] EXCEPT !.filled = TRUE]
      <4>1. tab'[a] \in Entry
        BY <3>1, <3>3 DEF Entry
      <4>2. QED
        BY <3>1, <3>3, <4>1, TierAssumption DEF Entry
    <3>4. QED
      BY <2>2, <3>1, <3>2, <3>3
  <2>4. Held' = Held
    BY <2>2, <2>3 DEF Held
  <2>5. HeldBytes' = HeldBytes
    BY <2>2, <2>3, SameBytes DEF Held
  <2>6. StampedInv'
    BY <1>0, <2>3, <2>4 DEF StampedInv, OfOneCall, ExpertsOf
  <2>7. StampsInv'
    BY <1>k, <2>1 DEF StampsInv
  <2>8. QED
    BY <1>0, <2>1, <2>5, <2>6, <2>7, BudgetSame DEF BudgetInv
<1>10. CASE Launch
  <2>1. tab' = tab /\ bytes' = bytes /\ pc' = "idle" /\ UNCHANGED <<idsRaw, lastKey>>
    BY <1>10 DEF Launch, tier, ids
  <2>2. StampsInv'
    BY <1>k, <2>1 DEF StampsInv
  <2>3. QED
    BY <1>0, <2>1, <2>2, BudgetIdle DEF BudgetInv
<1>11. CASE Restart
  <2>1. bytes' = 0 /\ pc' = "idle" /\ UNCHANGED <<idsRaw, lastKey>> /\ Held' = {}
    BY <1>11 DEF Restart, ids, Held
  <2>2. StampsInv' /\ StampedInv'
    BY <1>k, <2>1 DEF StampsInv, StampedInv
  <2>3. HeldBytes' = {}
    BY <2>1 DEF HeldBytes
  <2>4. BytesAreHeld'
    BY <2>1, <2>3, FS_EmptySet DEF BytesAreHeld
  <2>5. OverBudgetBounded'
    BY <2>1, TierAssumption DEF OverBudgetBounded
  <2>6. QED
    BY <2>2, <2>4, <2>5 DEF BudgetInv, BudgetIsKept
<1>12. CASE Retire \/ UNCHANGED vars
  <2>1. /\ tab' = tab /\ bytes' = bytes
        /\ UNCHANGED <<idsRaw, lastKey, pc, epoch, cur, handed, adjacent>>
    BY <1>12 DEF Retire, vars, tier, ids, local
  <2>2. StampsInv'
    BY <1>0, <2>1 DEF StampsInv, Held, ExpertsOf
  <2>3. QED
    BY <1>0, <2>1, <2>2, BudgetIdle DEF BudgetInv
<1>13. QED
  BY <1>1, <1>2, <1>3, <1>4, <1>5, <1>6, <1>7, <1>8, <1>9, <1>10, <1>11, <1>12
     DEF Next, Serve

(* At the start no byte is held.                                          *)
LEMMA BudgetInit == Init => BudgetInv
<1> SUFFICES ASSUME Init PROVE BudgetInv
  OBVIOUS
<1>1. bytes = 0 /\ pc = "idle" /\ lastKey = Nil /\ Held = {}
  BY DEF Init, Held
<1>2. StampsInv /\ StampedInv
  BY <1>1 DEF StampsInv, StampedInv
<1>3. HeldBytes = {}
  BY <1>1 DEF HeldBytes
<1>4. BytesAreHeld /\ OverBudgetBounded
  BY <1>1, <1>3, FS_EmptySet, TierAssumption DEF BytesAreHeld, OverBudgetBounded
<1>5. QED
  BY <1>2, <1>4 DEF BudgetInv, BudgetIsKept

(* The tier counts its slots' bytes exactly, and exceeds its budget by no  *)
(* more than the calls of one protection window can ask for (rt.cu, the    *)
(* over-budget branch of sb_mmid_slot): for a host that stops at the first *)
(* error, without the merged layer fetch.                                  *)
THEOREM BudgetStaysKept ==
  ASSUME AbortOnError, ~MergeOn
  PROVE  Spec => []BudgetIsKept
<1>1. CountedInv /\ CountedInv' /\ BudgetInv /\ [Next]_vars => BudgetInv'
  BY BudgetNext
<1>2. BudgetInv => BudgetIsKept
  BY DEF BudgetInv
<1>3. QED
  BY <1>1, <1>2, BudgetInit, CountedAlways, PTL DEF Spec
=============================================================================
