-------------------------------- MODULE Tier --------------------------------
(***************************************************************************)
(* The VRAM residency tier behind sabah_rt_mul_mat_id_v2.                  *)
(*                                                                         *)
(* One host thread serves MUL_MAT_ID calls.  A call learns which experts   *)
(* the router chose (downloading the ids and draining the compute stream,  *)
(* or reusing the ids of the call before), turns every expert into a       *)
(* device slot (evicting the least recently used slots it may), issues the *)
(* transfers that fill the new slots on the copy stream, and launches one  *)
(* kernel that reads the slots.  The kernel runs later, concurrently with  *)
(* the host: nothing but the epoch of a slot tells the host that a kernel  *)
(* may still be reading it.                                                *)
(*                                                                         *)
(* A step is one iteration of a loop of the call or one blocking point;    *)
(* g_mmid_mutex never has a second user that writes, so host steps         *)
(* interleave with the retirement of kernels only.                         *)
(***************************************************************************)
EXTENDS Integers, Sequences, FiniteSets

CONSTANTS
  Source,        \* expert tensors (one per layer and projection)
  Layer,         \* router-id tensors: the ids_key a host passes
  LayerOf,       \* the ids tensor an expert tensor is called with
  Expert,        \* expert indices the tensors hold
  OutOfRange,    \* indices they do not hold
  IdLists,       \* the id lists, token-major, a router may produce
  NIds,          \* experts per token: the length of one token row
  SmallMax,      \* longest id list that takes a residency snapshot (64)
  SlabAddr,      \* device slots inside the slab
  HeapAddr,      \* device slots cudaMalloc can still give over budget
  Bytes,         \* expert stride of each tensor
  Capacity,      \* the byte budget of the tier
  GroupMax,      \* SB_ID_GROUP_MAX
  IdCheck,       \* SABAH_LLAMA_ID_CHECK
  MergeOn,       \* SABAH_LLAMA_LAYER_MERGE
  PassIdsKey,    \* the host passes an ids_key
  AbortOnError,  \* the host stops for good when a call returns nonzero
  MaxCalls,      \* bound: calls between two restarts
  Nil

Addr == SlabAddr \cup HeapAddr

(* sb_mmid_entry; pos is the place in the entry vector.                    *)
Entry == [source : Source, expert : Expert, touch : Nat, epoch : Nat,
          filled : BOOLEAN, pos : Nat]

(* An element of a pointer table or of a miss list (sb_fetch).             *)
Pointer == [source : Source, expert : Expert, addr : Addr]

(* The last transfer issued to an address, numbered in issue order.        *)
Transfer == [source : Source, expert : Expert, no : Nat]

(* The llama.cpp patch passes the ids tensor and aborts on any error; the  *)
(* bridge under integration/ passes no key and carries on with the native  *)
(* kernels.  No host does the first without the second.                    *)
ASSUME HostAssumption ==
  /\ {IdCheck, MergeOn, PassIdsKey, AbortOnError} \subseteq BOOLEAN
  /\ PassIdsKey => AbortOnError

ASSUME TierAssumption ==
  /\ LayerOf \in [Source -> Layer]
  /\ Bytes \in [Source -> Nat \ {0}]
  /\ IdLists \subseteq Seq(Expert \cup OutOfRange)
  /\ Expert \cap OutOfRange = {}
  /\ IsFiniteSet(SlabAddr) /\ IsFiniteSet(HeapAddr)
  /\ IsFiniteSet(Expert) /\ IsFiniteSet(OutOfRange)
  /\ NIds \in Nat \ {0} /\ SmallMax \in Nat
  /\ Capacity \in Nat /\ GroupMax \in Nat \ {0} /\ MaxCalls \in Nat
  /\ Nil \notin Layer \cup Source
  /\ Nil \notin Entry \cup Transfer

VARIABLES
  \* the tier (g_mmid_*): one entry per device address in use
  tab, bytes, tick, epoch, hits, misses,
  \* statics that survive a call and a shutdown
  idsRaw, lastKey, lastLen, groupLen, links, prevSource, prevIds,
  \* the call in progress
  pc, cur, handed, adjacent, reuse, doing, following, rest, k, memo, ptrs,
  miss,
  \* the device: kernels launched and not known finished, and the last
  \* transfer issued to each address
  running, issued, last,
  \* history: experts asked for so far
  asked

tier   == <<tab, bytes, tick, hits, misses>>
ids    == <<idsRaw, lastKey, lastLen, groupLen>>
chain  == <<links, prevSource, prevIds>>
local  == <<cur, handed, adjacent, reuse, doing, following, rest, k, memo,
            ptrs, miss>>
device == <<running, issued, last>>
vars   == <<tier, epoch, ids, chain, pc, local, device, asked>>

-----------------------------------------------------------------------------
Held == {a \in Addr : tab[a] # Nil}

Matches(s, e) == {a \in Held : tab[a].source = s /\ tab[a].expert = e}

(* Table order decides which of two entries for one expert is found first. *)
IsFirst(a, A) == a \in A /\ \A b \in A : tab[a].pos <= tab[b].pos

Small == Len(idsRaw) <= SmallMax

ExpertsOf(list) == {list[i] : i \in DOMAIN list}

(* The ids of the first token: what sb_chain_note compares.                *)
Row(list) == SubSeq(list, 1, IF NIds < Len(list) THEN NIds ELSE Len(list))

EmptyMemo == [s \in Source |-> {}]

(* Mutant of Resident: the id mask is not consulted.                       *)
ResidentAnyExpert(s) == {a \in Held : tab[a].source = s /\ tab[a].filled}

(* The resident experts of s among this call's ids: what sb_mmid_prime     *)
(* stamps and snapshots.                                                   *)
Resident(s) ==
  {a \in Held : /\ tab[a].source = s /\ tab[a].filled
                /\ tab[a].expert \in ExpertsOf(idsRaw)}

(* Mutant of Stamp: recency is refreshed, the protecting epoch is not.     *)
StampTouchOnly(A) ==
  [a \in Addr |-> IF a \in A THEN [tab[a] EXCEPT !.touch = tick + 1] ELSE tab[a]]

(* The entries of A restamped in table order at the current epoch.         *)
Stamp(A) ==
  [a \in Addr |->
     IF a \notin A THEN tab[a]
     ELSE [tab[a] EXCEPT
             !.epoch = epoch,
             !.touch = tick + Cardinality({b \in A : tab[b].pos <= tab[a].pos})]]

Snapshot(s) ==
  {[expert |-> tab[a].expert, addr |-> a] :
     a \in {b \in Resident(s) :
             IsFirst(b, {c \in Resident(s) : tab[c].expert = tab[b].expert})}}

(* The links after the edge from the previous call to this one is closed.  *)
ClosedLinks ==
  IF prevSource \in {Nil, cur} THEN links
  ELSE [links EXCEPT ![prevSource] =
          [next |-> cur, shares |-> prevIds = Row(idsRaw)]]

Follows(s) == ClosedLinks[s] # Nil /\ ClosedLinks[s].shares

(* At most two tensors known to follow cur with the same ids.              *)
Followers ==
  IF ~Follows(cur) THEN <<>>
  ELSE LET f == ClosedLinks[cur].next
       IN  IF Follows(f) THEN <<f, ClosedLinks[f].next>> ELSE <<f>>

NoCall ==
  /\ cur' = Nil /\ handed' = <<>> /\ adjacent' = FALSE /\ reuse' = FALSE
  /\ doing' = Nil /\ following' = FALSE /\ rest' = <<>> /\ k' = 1
  /\ memo' = EmptyMemo /\ ptrs' = {} /\ miss' = <<>>

(* A call that returns nonzero: its locals are gone, its entries stay.     *)
Fail == pc' = (IF AbortOnError THEN "aborted" ELSE "idle") /\ NoCall

-----------------------------------------------------------------------------
(* Mutant of Adjacent: any ids tensor of the same length will do.          *)
AdjacentByLength(s, list) == PassIdsKey /\ lastLen = Len(list)

(* The call before this one was given the same ids tensor.                 *)
Adjacent(s, list) ==
  PassIdsKey /\ lastKey = LayerOf[s] /\ lastLen = Len(list)

(* Mutant of GroupIsOpen: one call too many goes without a drain.          *)
GroupOpenTooLong == ~IdCheck /\ groupLen <= GroupMax

(* The run of calls since the last drain may grow by one.                  *)
GroupIsOpen == ~IdCheck /\ groupLen < GroupMax

(* Entry to a call for tensor s, whose ids tensor holds list.              *)
Call(s, list) ==
  LET adj == Adjacent(s, list)
      use == adj /\ GroupIsOpen
  IN  /\ pc = "idle" /\ epoch < MaxCalls
      /\ epoch' = epoch + 1
      /\ cur' = s /\ handed' = list /\ adjacent' = adj /\ reuse' = use
      /\ groupLen' = IF use THEN groupLen + 1 ELSE 1
      /\ pc' = IF use THEN "prime" ELSE "drain"
      /\ UNCHANGED <<tier, idsRaw, lastKey, lastLen, chain, doing, following,
                     rest, k, memo, ptrs, miss, device, asked>>

(* A call refused after its epoch was taken: unsupported quantized row.    *)
Refuse ==
  /\ pc = "idle" /\ epoch < MaxCalls
  /\ epoch' = epoch + 1
  /\ Fail
  /\ UNCHANGED <<tier, ids, chain, device, asked>>

(* Mutant of StreamDrained: the ids are read without a synchronize.        *)
NotDrained == TRUE

(* cudaStreamSynchronize returns when the stream has no kernel left.       *)
StreamDrained == running = {}

(* The ids download, behind a drain of the compute stream.  Under IdCheck  *)
(* an adjacent call only compares, and keeps the ids it had.               *)
Drain ==
  /\ pc = "drain" /\ StreamDrained
  /\ idsRaw' = IF IdCheck /\ adjacent THEN idsRaw ELSE handed
  /\ lastKey' = IF PassIdsKey THEN LayerOf[cur] ELSE Nil
  /\ lastLen' = Len(handed)
  /\ handed' = <<>> /\ adjacent' = FALSE
  /\ pc' = "prime"
  /\ UNCHANGED <<tier, epoch, groupLen, chain, cur, reuse, doing, following,
                 rest, k, memo, ptrs, miss, device, asked>>

(* The download or the synchronize fails.                                  *)
DrainFails ==
  /\ pc = "drain"
  /\ Fail
  /\ UNCHANGED <<tier, epoch, ids, chain, device, asked>>

(* Learn the call sequence, then snapshot the residency of cur.            *)
Prime ==
  LET A == IF Small THEN Resident(cur) ELSE {}
  IN  /\ pc = "prime"
      /\ links' = ClosedLinks /\ prevSource' = cur /\ prevIds' = Row(idsRaw)
      /\ tab' = Stamp(A) /\ tick' = tick + Cardinality(A)
      /\ hits' = hits + Cardinality(A)
      /\ memo' = IF Small THEN [EmptyMemo EXCEPT ![cur] = Snapshot(cur)]
                 ELSE EmptyMemo
      /\ rest' = IF Small /\ ~reuse /\ MergeOn THEN Followers ELSE <<>>
      /\ doing' = cur /\ k' = 1
      /\ asked' = asked + (IF Small THEN Cardinality(ExpertsOf(idsRaw))
                           ELSE Len(idsRaw))
      /\ pc' = "slots"
      /\ UNCHANGED <<bytes, misses, epoch, ids, cur, handed, adjacent, reuse,
                     following, ptrs, miss, device>>

(* The merged layer fetch turns to the next follower.                      *)
PrimeFollower ==
  /\ pc = "slots" /\ k > Len(idsRaw) /\ rest # <<>>
  /\ doing' = Head(rest) /\ rest' = Tail(rest) /\ k' = 1
  /\ LET A == Resident(Head(rest))
     IN  tab' = Stamp(A) /\ tick' = tick + Cardinality(A)
  /\ memo' = [memo EXCEPT ![Head(rest)] = Snapshot(Head(rest))]
  /\ following' = TRUE
  /\ UNCHANGED <<bytes, hits, misses, epoch, ids, chain, pc, cur, handed,
                 adjacent, reuse, ptrs, miss, device, asked>>

-----------------------------------------------------------------------------
(* Pass 1: one device slot for every id of the list.                       *)
Looking == pc = "slots" /\ k <= Len(idsRaw)
Wanted  == idsRaw[k]

(* What sb_mmid_slot can answer without reserving: a snapshot is complete; *)
(* without one, a filled entry or one this very call reserved.             *)
Found ==
  IF Small
  THEN {h.addr : h \in {m \in memo[doing] : m.expert = Wanted}}
  ELSE {a \in Matches(doing, Wanted) : tab[a].filled \/ tab[a].epoch = epoch}

Point(a) ==
  /\ k' = k + 1
  /\ ptrs' = IF following THEN ptrs
             ELSE ptrs \cup {[source |-> doing, expert |-> Wanted, addr |-> a]}

BadExpert ==
  /\ Looking /\ Wanted \notin Expert
  /\ Fail
  /\ UNCHANGED <<tier, epoch, ids, chain, device, asked>>

Hit ==
  /\ Looking /\ Wanted \in Expert
  /\ \E a \in Found :
       /\ IsFirst(a, Found)
       /\ Point(a)
       /\ IF Small THEN UNCHANGED <<tab, tick, hits>>
          ELSE tab' = Stamp({a}) /\ tick' = tick + 1 /\ hits' = hits + 1
  /\ UNCHANGED <<bytes, misses, epoch, ids, chain, pc, cur, handed, adjacent,
                 reuse, doing, following, rest, memo, miss, device, asked>>

Reserving == Looking /\ Wanted \in Expert /\ Found = {}
OverBudget == bytes + Bytes[doing] > Capacity

(* Mutants of Evictable: the window is one call too short, or too long.    *)
EvictableTooEarly == {a \in Held : tab[a].epoch + GroupMax - 1 <= epoch}
EvictableTooLate  == {a \in Held : tab[a].epoch + GroupMax + 1 <= epoch}

(* The entries an eviction may take: those no call of the last GroupMax    *)
(* epochs referenced.                                                      *)
Evictable == {a \in Held : tab[a].epoch + GroupMax <= epoch}
IsVictim(v) == v \in Evictable /\ \A b \in Evictable : tab[v].touch <= tab[b].touch

(* Mutant of Freed: the size of the slot wanted, not of the slot evicted.  *)
FreedAsWanted(v) == Bytes[doing]

(* The bytes an eviction gives back.                                       *)
Freed(v) == Bytes[tab[v].source]

(* One turn of sb_mmid_evict_until; the last entry moves to the hole.      *)
Evict(v) ==
  /\ Reserving /\ OverBudget /\ IsVictim(v)
  /\ tab' = [a \in Addr |->
               IF a = v THEN Nil
               ELSE IF a \in Held /\ tab[a].pos = Cardinality(Held)
                    THEN [tab[a] EXCEPT !.pos = tab[v].pos]
                    ELSE tab[a]]
  /\ bytes' = bytes - Freed(v)
  /\ UNCHANGED <<tick, hits, misses, epoch, ids, chain, pc, local, device, asked>>

(* Mutant of SlabMayFail: a full slab is waited for.                       *)
SlabNeverFull == \E s, t \in Source : Bytes[s] # Bytes[t]

(* The slab cannot place a request when it is full, or, with more than one *)
(* size of slot, when it is fragmented.                                    *)
SlabMayFail ==
  \/ SlabAddr \subseteq Held
  \/ \E s, t \in Source : Bytes[s] # Bytes[t]

(* A new, still unfilled entry at a free address.                          *)
Reserve(a) ==
  /\ Reserving /\ (OverBudget => Evictable = {})
  /\ a \notin Held
  /\ a \in HeapAddr => SlabMayFail
  /\ tab' = [tab EXCEPT ![a] =
               [source |-> doing, expert |-> Wanted, touch |-> tick + 1,
                epoch |-> epoch, filled |-> FALSE, pos |-> Cardinality(Held) + 1]]
  /\ tick' = tick + 1 /\ bytes' = bytes + Bytes[doing] /\ misses' = misses + 1
  /\ miss' = Append(miss, [source |-> doing, expert |-> Wanted, addr |-> a])
  /\ memo' = IF Small
             THEN [memo EXCEPT ![doing] = @ \cup {[expert |-> Wanted, addr |-> a]}]
             ELSE memo
  /\ Point(a)
  /\ UNCHANGED <<hits, epoch, ids, chain, pc, cur, handed, adjacent, reuse,
                 doing, following, rest, device, asked>>

(* The over-budget cudaMalloc fails: the call's earlier entries stay in    *)
(* the table, reserved and unfilled.                                       *)
ReserveFails ==
  /\ Reserving /\ (OverBudget => Evictable = {}) /\ SlabMayFail
  /\ misses' = misses + 1
  /\ Fail
  /\ UNCHANGED <<tab, bytes, tick, hits, epoch, ids, chain, device, asked>>

-----------------------------------------------------------------------------
(* Pass 2: transfers, pointer table and kernel.                            *)
AllPlaced == pc = "slots" /\ k > Len(idsRaw) /\ rest = <<>>

(* Mutant of Issue: only the misses of the calling tensor are transferred. *)
IssueOwnOnly(n) ==
  /\ issued' = issued + n
  /\ last' = [a \in Addr |->
               IF \E i \in 1..n : miss[i].addr = a /\ miss[i].source = cur
               THEN LET i == CHOOSE j \in 1..n : miss[j].addr = a
                    IN  [source |-> miss[i].source, expert |-> miss[i].expert,
                         no |-> issued + i]
               ELSE last[a]]

(* The transfers of the first n misses are issued on the copy stream.      *)
Issue(n) ==
  /\ issued' = issued + n
  /\ last' = [a \in Addr |->
               IF \E i \in 1..n : miss[i].addr = a
               THEN LET i == CHOOSE j \in 1..n : miss[j].addr = a
                    IN  [source |-> miss[i].source, expert |-> miss[i].expert,
                         no |-> issued + i]
               ELSE last[a]]

(* Mutant of Marked: the last miss stays unfilled.                         *)
MarkedButLast(a) ==
  \E i \in 1..Len(miss) - 1 : IsFirst(a, Matches(miss[i].source, miss[i].expert))

(* The entries a fill declares filled: for each miss, the first entry of   *)
(* its expert.                                                             *)
Marked(a) ==
  \E i \in DOMAIN miss : IsFirst(a, Matches(miss[i].source, miss[i].expert))

Fill ==
  /\ AllPlaced
  /\ Issue(Len(miss))
  /\ tab' = [a \in Addr |->
               IF Marked(a) THEN [tab[a] EXCEPT !.filled = TRUE] ELSE tab[a]]
  /\ pc' = "launch"
  /\ UNCHANGED <<bytes, tick, hits, misses, epoch, ids, chain, local, running, asked>>

(* Neither the disk nor the mapped fallback could deliver miss n + 1.      *)
FillFails ==
  /\ AllPlaced
  /\ \E n \in 0..Len(miss) - 1 : Issue(n)
  /\ Fail
  /\ UNCHANGED <<tier, epoch, ids, chain, running, asked>>

(* Mutant of Awaited: the ready event is recorded before the transfers.    *)
AwaitedBeforeFill == issued - Len(miss)

(* g_ready_ev stands behind every transfer issued so far.                  *)
Awaited == issued

Launch ==
  /\ pc = "launch"
  /\ running' = running \cup {[epoch |-> epoch, ptrs |-> ptrs, waits |-> Awaited]}
  /\ pc' = "idle" /\ NoCall
  /\ UNCHANGED <<tier, epoch, ids, chain, issued, last, asked>>

LaunchFails ==
  /\ pc = "launch"
  /\ Fail
  /\ UNCHANGED <<tier, epoch, ids, chain, device, asked>>

(* The compute stream runs its kernels in launch order.                    *)
Retire ==
  /\ \E q \in running :
       /\ \A r \in running : q.epoch <= r.epoch
       /\ running' = running \ {q}
  /\ UNCHANGED <<tier, epoch, ids, chain, pc, local, issued, last, asked>>

(* sabah_rt_shutdown, then sabah_rt_init: the device is synchronised and   *)
(* the tier emptied; the statics of the call path keep their values.       *)
Restart ==
  /\ pc = "idle" /\ running' = {} /\ issued' = 0
  /\ last' = [a \in Addr |-> Nil] /\ tab' = [a \in Addr |-> Nil]
  /\ bytes' = 0 /\ tick' = 0 /\ epoch' = 0 /\ hits' = 0 /\ misses' = 0
  /\ asked' = 0
  /\ UNCHANGED <<ids, chain, pc, local>>

Init ==
  /\ tab = [a \in Addr |-> Nil] /\ last = [a \in Addr |-> Nil]
  /\ bytes = 0 /\ tick = 0 /\ epoch = 0 /\ hits = 0 /\ misses = 0
  /\ idsRaw = <<>> /\ lastKey = Nil /\ lastLen = 0 /\ groupLen = 0
  /\ links = [s \in Source |-> Nil] /\ prevSource = Nil /\ prevIds = <<>>
  /\ pc = "idle" /\ cur = Nil /\ handed = <<>> /\ adjacent = FALSE
  /\ reuse = FALSE /\ doing = Nil /\ following = FALSE /\ rest = <<>>
  /\ k = 1 /\ memo = EmptyMemo /\ ptrs = {} /\ miss = <<>>
  /\ running = {} /\ issued = 0 /\ asked = 0

(* The steps of the runtime; Call comes from a host.  DrainFails stands    *)
(* apart: no error is counted on to end the wait for the stream.           *)
Serve ==
  \/ Drain \/ Prime \/ PrimeFollower
  \/ BadExpert \/ Hit \/ (\E a \in Addr : Evict(a) \/ Reserve(a)) \/ ReserveFails
  \/ Fill \/ FillFails \/ Launch \/ LaunchFails

Next ==
  \/ \E s \in Source, list \in IdLists : Call(s, list)
  \/ Refuse \/ Serve \/ DrainFails \/ Retire \/ Restart

Spec == Init /\ [][Next]_vars

-----------------------------------------------------------------------------
(* Every variable has its type.                                            *)
TypeOK ==
  /\ tab \in [Addr -> Entry \cup {Nil}]
  /\ bytes \in Int /\ tick \in Nat /\ epoch \in Nat
  /\ hits \in Nat /\ misses \in Nat /\ asked \in Nat
  /\ idsRaw \in Seq(Expert \cup OutOfRange) /\ handed \in Seq(Expert \cup OutOfRange)
  /\ lastKey \in Layer \cup {Nil} /\ lastLen \in Nat /\ groupLen \in 0..GroupMax
  /\ links \in [Source -> [next : Source, shares : BOOLEAN] \cup {Nil}]
  /\ prevSource \in Source \cup {Nil} /\ prevIds \in Seq(Expert \cup OutOfRange)
  /\ pc \in {"idle", "drain", "prime", "slots", "launch", "aborted"}
  /\ cur \in IF pc \in {"idle", "aborted"} THEN {Nil} ELSE Source
  /\ doing \in IF pc \in {"slots", "launch"} THEN Source ELSE {Nil}
  /\ adjacent \in BOOLEAN /\ reuse \in BOOLEAN /\ following \in BOOLEAN
  /\ rest \in Seq(Source) /\ k \in Nat \ {0}
  /\ memo \in [Source -> SUBSET [expert : Expert, addr : Addr]]
  /\ ptrs \subseteq Pointer /\ miss \in Seq(Pointer)
  /\ running \subseteq [epoch : Nat, ptrs : SUBSET Pointer, waits : Nat]
  /\ issued \in Nat
  /\ last \in [Addr -> Transfer \cup {Nil}]

Holds(a, s, e) == a \in Matches(s, e)

(* The slots a launched, not yet finished kernel reads still belong to the *)
(* experts it was launched for: sb_mmid_evict_until, which synchronises    *)
(* with nothing, has not freed one of them.                                *)
RunningSlotsHeld ==
  \A q \in running : \A p \in q.ptrs : Holds(p.addr, p.source, p.expert)

(* So do the slots already in the pointer table of the call in progress,   *)
(* and those its residency snapshots answer with, however many evictions   *)
(* its later lookups cause.                                                *)
CallSlotsHeld ==
  pc \in {"slots", "launch"} =>
    /\ \A p \in ptrs : Holds(p.addr, p.source, p.expert)
    /\ \A s \in Source : \A h \in memo[s] : Holds(h.addr, s, h.expert)

(* A kernel reads the bytes of the experts it was launched for: the last   *)
(* transfer to each of its slots brought that expert and is one of those   *)
(* the kernel waits for on the device (g_ready_ev).                        *)
ServedBytes ==
  \A q \in running : \A p \in q.ptrs :
    /\ last[p.addr] # Nil
    /\ last[p.addr].source = p.source /\ last[p.addr].expert = p.expert
    /\ last[p.addr].no <= q.waits

(* An expert occupies one slot: no call reserves again what the tier has.  *)
OneSlotPerExpert ==
  \A s \in Source, e \in Expert : Cardinality(Matches(s, e)) <= 1

(* An entry marked filled holds its expert's bytes: what the field's own   *)
(* comment in sb_mmid_entry says ("true: the expert bytes are already in   *)
(* device"), read when the next call looks at it.                          *)
FilledSlotsHaveTheirBytes ==
  \A a \in Held : tab[a].filled =>
    /\ last[a] # Nil
    /\ last[a].source = tab[a].source /\ last[a].expert = tab[a].expert

(* The bytes of the slots in use, one by one.                              *)
HeldBytes == UNION {{a} \X (1..Bytes[tab[a].source]) : a \in Held}

(* The tier's byte counter is the sum of its entries: an entry leaves the  *)
(* budget exactly when its slot is freed.                                  *)
BytesAreHeld == bytes = Cardinality(HeldBytes)

(* However small the budget, the tier never grows beyond what the calls    *)
(* of one protection window can reference.                                 *)
OverBudgetBounded ==
  \/ bytes <= Capacity
  \/ \E list \in IdLists, s \in Source :
       bytes <= GroupMax * (Cardinality(ExpertsOf(list)) * Bytes[s])

(* The budget is kept in both senses.                                      *)
BudgetIsKept == BytesAreHeld /\ OverBudgetBounded

(* Each expert a call asks for is counted once, as a hit or as a miss.     *)
HitsAndMissesAddUp == pc = "idle" => hits + misses = asked

-----------------------------------------------------------------------------
(* The inductive strengthening of RunningSlotsHeld and CallSlotsHeld.      *)

HoldsNow(a, s, e) == Holds(a, s, e) /\ tab[a].epoch = epoch

(* No entry is from the future: stamping never lowers an epoch.            *)
EpochInv == \A a \in Held : tab[a].epoch <= epoch

(* What the call in progress points at carries the call's own epoch.       *)
CallInv ==
  /\ \A p \in ptrs : HoldsNow(p.addr, p.source, p.expert)
  /\ \A s \in Source : \A h \in memo[s] : HoldsNow(h.addr, s, h.expert)
  /\ pc \notin {"slots", "launch"} => ptrs = {} /\ memo = EmptyMemo

(* What a kernel reads has been stamped by its call or by a later one.     *)
KernelInv ==
  \A q \in running :
    /\ q.epoch <= epoch
    /\ \A p \in q.ptrs : /\ Holds(p.addr, p.source, p.expert)
                         /\ q.epoch <= tab[p.addr].epoch

(* The kernels that may be running are those of the calls since the last   *)
(* drain, and groupLen counts these calls.                                 *)
WindowInv ==
  /\ pc \in {"drain", "prime", "slots", "launch"} => groupLen >= 1
  /\ (pc \in {"prime", "slots", "launch"} \/ (pc = "idle" /\ PassIdsKey)) =>
       \A q \in running : epoch < q.epoch + groupLen

SlotInv == EpochInv /\ CallInv /\ KernelInv /\ WindowInv

(* And of ServedBytes, for a host that stops at the first error.           *)
Brought(a, s, e) ==
  last[a] # Nil /\ last[a].source = s /\ last[a].expert = e

MissAddrs == {miss[i].addr : i \in DOMAIN miss}

(* The misses of the call in progress are entries of this very call.       *)
MissInv ==
  /\ pc \notin {"slots", "launch"} => miss = <<>>
  /\ \A i \in DOMAIN miss : HoldsNow(miss[i].addr, miss[i].source, miss[i].expert)

(* An entry has its expert's bytes, or the call in progress will bring it. *)
BroughtInv ==
  /\ \A a \in Addr : last[a] # Nil => last[a].no <= issued
  /\ pc # "aborted" =>
       \A a \in Held : \/ Brought(a, tab[a].source, tab[a].expert)
                       \/ (pc = "slots" /\ a \in MissAddrs)

(* What the call will write, no kernel reads.                              *)
ApartInv == \A q \in running : \A p \in q.ptrs : p.addr \notin MissAddrs

BytesInv == MissInv /\ BroughtInv /\ ApartInv /\ ServedBytes
=============================================================================
