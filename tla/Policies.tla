------------------------------ MODULE Policies ------------------------------
(***************************************************************************)
(* The offline replays of a routing trace: the replacement policies of     *)
(* tools/slab_replay.py, the hit counts of tools/trace_locality.py and the *)
(* placements of sabah/tools/calib_check.py, all on one trace that grows   *)
(* an access at a time.  Every access is a key in 1..Keys; the key decides *)
(* the layer.                                                              *)
(***************************************************************************)
EXTENDS Integers, Sequences, FiniteSets, FiniteSetsExt, SequencesExt

CONSTANTS
  Keys, Layers,
  Slabs,                  \* capacities to replay at, in slots
  MaxAccesses             \* bound: length of a trace

ASSUME PoliciesAssumption ==
  /\ Keys \in Nat \ {0} /\ Layers \in 1..Keys /\ MaxAccesses \in Nat
  /\ Slabs \subseteq Nat \ {0}

Key == 1..Keys
LayerOfKey(k) == k % Layers
WeightOf(k) == 1 + LayerOfKey(k)      \* bytes of an expert, by layer

VARIABLES
  slots,                  \* capacity, 0 before a replay starts
  trace,
  lru, lruMore, lruHits, lruBytes,    \* keys, oldest first
  lfu,                    \* [keys, uses]
  twoQ,                   \* [in, out, main]
  arc,                    \* [t1, t2, b1, b2, p], or ArcRaised
  perLayer,               \* layer -> keys, oldest first
  misses                  \* of each policy

polVars == <<slots, trace, lru, lruMore, lruHits, lruBytes, lfu, twoQ, arc, perLayer, misses>>

In(k, q) == k \in ToSet(q)
Policy == {"lru", "lruMore", "lruHits", "lruBytes", "lfu", "2q", "arc", "perlayer"}

-----------------------------------------------------------------------------
(* Recency: OrderedDict, oldest first.                                     *)

Touched(q, k) == Append(Remove(q, k), k)

(* Mutant of LruAccess: a hit does not make its key the youngest.          *)
FifoAccess(q, k, cap) ==
  IF In(k, q) THEN q
  ELSE Append(IF Len(q) >= cap THEN Tail(q) ELSE q, k)

(* LRU.access: room is made before the key goes in.                        *)
LruAccess(q, k, cap) ==
  IF In(k, q) THEN Touched(q, k)
  ELSE Append(IF Len(q) >= cap THEN Tail(q) ELSE q, k)

(* lru_hits: the key goes in, then the oldest goes.                        *)
LruHitsAccess(q, k, cap) ==
  IF In(k, q) THEN Touched(q, k)
  ELSE LET r == Append(q, k) IN IF Len(r) > cap THEN Tail(r) ELSE r

SlabBytes(q) == FoldLeft(LAMBDA sum, k : sum + WeightOf(k), 0, q)

(* The oldest go until the budget holds, the newcomer itself if it must.   *)
Shrunk(q, budget) ==
  LET n == CHOOSE n \in 0..Len(q) :
             /\ SlabBytes(SubSeq(q, n + 1, Len(q))) <= budget
             /\ \A m \in 0..n - 1 : SlabBytes(SubSeq(q, m + 1, Len(q))) > budget
  IN  SubSeq(q, n + 1, Len(q))

(* lru_hits_bytes, with a byte budget.                                     *)
LruBytesAccess(q, k, budget) ==
  IF In(k, q) THEN Touched(q, k) ELSE Shrunk(Append(q, k), budget)

(* LFU.access: the least used goes, the smallest key among equals.         *)
LfuVictim(f) ==
  CHOOSE v \in f.keys : \A w \in f.keys :
    f.uses[v] < f.uses[w] \/ (f.uses[v] = f.uses[w] /\ v <= w)

LfuAccess(f, k, cap) ==
  IF k \in f.keys THEN [f EXCEPT !.uses[k] = @ + 1]
  ELSE LET kept == IF Cardinality(f.keys) >= cap THEN f.keys \ {LfuVictim(f)} ELSE f.keys
       IN  [keys |-> kept \cup {k}, uses |-> [f.uses EXCEPT ![k] = 1]]

PerLayerCap(cap) == LET n == cap \div Layers IN IF n < 1 THEN 1 ELSE n

(* TwoQ.access: a probation queue, its ghosts, and a main list.  A ghost   *)
(* is promoted into the main list without evicting from it.  Below four    *)
(* slots the queue has no room, and its popleft raises.                    *)
TwoQAccess(q, k, cap) ==
  IF cap < 4 THEN q ELSE
  LET kin == cap \div 4
      full == Len(q.in) >= kin
      out == IF full THEN Append(IF Len(q.out) >= cap THEN Tail(q.out) ELSE q.out, Head(q.in))
             ELSE q.out
      in == Append(IF full THEN Tail(q.in) ELSE q.in, k)
  IN  IF In(k, q.main) THEN [q EXCEPT !.main = Touched(@, k)]
      ELSE IF Len(q.main) < cap - kin \/ In(k, out)
      THEN [in |-> in, out |-> out, main |-> Append(q.main, k)]
      ELSE [in |-> in, out |-> out, main |-> Append(Tail(q.main), k)]

-----------------------------------------------------------------------------
(* ARC.access.                                                             *)

ArcRaised == [t1 |-> <<>>, t2 |-> <<>>, b1 |-> <<>>, b2 |-> <<>>, p |-> -1]

ArcCap(cap) == IF cap < 2 THEN 2 ELSE cap

(* ARC._replace; popitem of an empty list raises.                          *)
Replaced(a, inB2) ==
  IF a.t1 # <<>> /\ (Len(a.t1) > a.p \/ (inB2 /\ Len(a.t1) = a.p))
  THEN [a EXCEPT !.t1 = Tail(@), !.b1 = Append(@, Head(a.t1))]
  ELSE IF a.t2 = <<>> THEN ArcRaised
  ELSE [a EXCEPT !.t2 = Tail(@), !.b2 = Append(@, Head(a.t2))]

ArcGhost(a, k, cap) ==
  LET inB1 == In(k, a.b1)
      more == Len(a.b1) >= Len(a.b2)   less == Len(a.b2) >= Len(a.b1)
      p == IF inB1 THEN IF more /\ a.p < ArcCap(cap) THEN a.p + 1 ELSE a.p
           ELSE IF less /\ a.p > 0 THEN a.p - 1 ELSE a.p
      r == Replaced([a EXCEPT !.p = p], ~inB1)
  IN  IF r = ArcRaised THEN r
      ELSE [r EXCEPT !.b1 = Remove(@, k), !.b2 = Remove(@, k), !.t2 = Append(@, k)]

(* A key neither resident nor remembered.  ghosts and residents together   *)
(* are kept to the capacity itself.                                        *)
ArcRoom(a, cap) ==
  LET c == ArcCap(cap)
      total == Len(a.t1) + Len(a.b1) + Len(a.t2) + Len(a.b2)
  IN  IF Len(a.t1) + Len(a.b1) = c
      THEN IF Len(a.t1) < c THEN Replaced([a EXCEPT !.b1 = Tail(@)], FALSE)
           ELSE [a EXCEPT !.t1 = Tail(@)]
      ELSE IF total < c THEN a
      ELSE IF Len(a.t2) + Len(a.b2) < c THEN Replaced(a, FALSE)
      ELSE IF a.t2 = <<>> THEN ArcRaised ELSE [a EXCEPT !.t2 = Tail(@)]

ArcAccess(a, k, cap) ==
  IF a = ArcRaised THEN a
  ELSE IF In(k, a.t1) THEN [a EXCEPT !.t1 = Remove(@, k), !.t2 = Append(@, k)]
  ELSE IF In(k, a.t2) THEN [a EXCEPT !.t2 = Touched(@, k)]
  ELSE IF In(k, a.b1) \/ In(k, a.b2) THEN ArcGhost(a, k, cap)
  ELSE LET r == ArcRoom(a, cap)
       IN  IF r = ArcRaised THEN r ELSE [r EXCEPT !.t1 = Append(@, k)]

-----------------------------------------------------------------------------
(* Knowing the future.                                                     *)

NextUse(t, i) ==
  LET later == {j \in i + 1..Len(t) : t[j] = t[i]}
  IN  IF later = {} THEN Len(t) + 1 ELSE Min(later)

(* The heap's first entry that is not stale: furthest use, then least key. *)
Furthest(next) ==
  CHOOSE v \in DOMAIN next : \A w \in DOMAIN next :
    next[v] > next[w] \/ (next[v] = next[w] /\ v <= w)

BeladyStep(t, cap, b, i) ==
  LET k == t[i]
      hit == k \in DOMAIN b.next
      kept == IF hit \/ Cardinality(DOMAIN b.next) < cap THEN DOMAIN b.next
              ELSE DOMAIN b.next \ {Furthest(b.next)}
  IN  [next |-> [v \in kept \cup {k} |-> IF v = k THEN NextUse(t, i) ELSE b.next[v]],
       misses |-> IF hit THEN b.misses ELSE b.misses + 1]

(* belady, belady_hits: the misses of the offline optimum.                 *)
Belady(t, cap) ==
  FoldLeft(LAMBDA b, i : BeladyStep(t, cap, b, i), [next |-> <<>>, misses |-> 0],
           [i \in DOMAIN t |-> i]).misses

(* What the optimum is: the fewest misses over every choice of victims.    *)
Replays(t, cap) ==
  FoldLeft(LAMBDA all, k :
             UNION {IF k \in c.in THEN {c}
                    ELSE IF Cardinality(c.in) < cap
                    THEN {[in |-> c.in \cup {k}, misses |-> c.misses + 1]}
                    ELSE {[in |-> (c.in \ {v}) \cup {k}, misses |-> c.misses + 1] : v \in c.in}
                    : c \in all},
           {[in |-> {}, misses |-> 0]}, t)

FewestMisses(t, cap) == Min({c.misses : c \in Replays(t, cap)})

(* counts, and its order: most used first, the smaller expert first.       *)
Uses(t, k) == Cardinality({i \in DOMAIN t : t[i] = k})

Ranking(t) ==
  SetToSortSeq(Key, LAMBDA j, k : Uses(t, j) > Uses(t, k) \/ (Uses(t, j) = Uses(t, k) /\ j < k))

MostUsed(t, n) == ToSet(SubSeq(Ranking(t), 1, n))

(* byte_hit_static, static_topk_hits.                                      *)
StaticHits(t, placed) == Cardinality({i \in DOMAIN t : t[i] \in placed})

(* reuse_distances: accesses since the last one of this key, or -1.        *)
ReuseDistance(t, i) ==
  LET before == {j \in 1..i - 1 : t[j] = t[i]}
  IN  IF before = {} THEN -1 ELSE i - Max(before) - 1

-----------------------------------------------------------------------------
(* The tables of trace_locality.py and calib_check.py over a whole trace.  *)

HeldAfter(policy, q, k, cap) ==
  IF policy = "seeded" THEN LruAccess(q, k, cap) ELSE LruHitsAccess(q, k, cap)

CountMisses(policy, start, t, cap) ==
  FoldLeft(LAMBDA c, k : [held |-> HeldAfter(policy, c.held, k, cap),
                          misses |-> c.misses + (IF In(k, c.held) THEN 0 ELSE 1)],
           [held |-> start, misses |-> 0], t).misses

InLayer(t, l) == SelectSeq(t, LAMBDA k : LayerOfKey(k) = l)

(* "PARTITIONED": every block gets its share of the slab for itself.       *)
PartitionedMisses(t, cap) ==
  MapThenSumSet(LAMBDA l : CountMisses("partitioned", <<>>, InLayer(t, l), PerLayerCap(cap)),
                0..Layers - 1)

(* byte_hit_lru: the seed goes in most used first, hence as the oldest.    *)
SeededMisses(warm, rest, cap) ==
  CountMisses("seeded", SubSeq(Ranking(warm), 1, cap), rest, cap)

(* "DEPLOYABLE static top-K": ranks what the warm-up saw, the first seen   *)
(* before the others of its count.                                         *)
FirstSeen(t, k) == CHOOSE i \in DOMAIN t : t[i] = k /\ \A j \in 1..i - 1 : t[j] # k

SeenRanking(t) ==
  SetToSortSeq(ToSet(t), LAMBDA j, k :
    Uses(t, j) > Uses(t, k) \/ (Uses(t, j) = Uses(t, k) /\ FirstSeen(t, j) < FirstSeen(t, k)))

DeployedTop(t, n) ==
  LET ranked == SeenRanking(t) IN {ranked[i] : i \in {i \in DOMAIN ranked : i <= n}}

(* A block's share of accesses that its most used experts serve.           *)
Coverage(t, l, n) ==
  LET flat == InLayer(t, l)
      ranked == SortSeq([i \in 1..Cardinality(ToSet(flat)) |->
                           Uses(flat, SetToSeq(ToSet(flat))[i])], >)
  IN  FoldLeft(+, 0, SubSeq(ranked, 1, Min({n, Len(ranked)})))

(* Distinct experts of every pass of `batch` steps; a last part is dropped. *)
UnionTotal(t, batch) ==
  MapThenSumSet(LAMBDA p : Cardinality({t[p * batch + j] : j \in 1..batch}),
                0..Len(t) \div batch - 1)

-----------------------------------------------------------------------------
(* A replay.                                                               *)

StartReplay(cap) ==
  /\ slots = 0 /\ slots' = cap
  /\ UNCHANGED <<trace, lru, lruMore, lruHits, lruBytes, lfu, twoQ, arc, perLayer, misses>>

Missed(k) ==
  [p \in Policy |->
     CASE p = "lru" -> ~In(k, lru)            [] p = "lruMore" -> ~In(k, lruMore)
       [] p = "lruHits" -> ~In(k, lruHits)    [] p = "lruBytes" -> ~In(k, lruBytes)
       [] p = "lfu" -> k \notin lfu.keys      [] p = "2q" -> ~In(k, twoQ.main)
       [] p = "arc" -> ~In(k, arc.t1 \o arc.t2)
       [] p = "perlayer" -> ~In(k, perLayer[LayerOfKey(k)])]

Access(k) ==
  /\ slots > 0 /\ Len(trace) < MaxAccesses
  /\ trace' = Append(trace, k)
  /\ lru' = LruAccess(lru, k, slots)
  /\ lruMore' = LruAccess(lruMore, k, slots + 1)
  /\ lruHits' = LruHitsAccess(lruHits, k, slots)
  /\ lruBytes' = LruBytesAccess(lruBytes, k, slots)
  /\ lfu' = LfuAccess(lfu, k, slots)
  /\ twoQ' = TwoQAccess(twoQ, k, slots)
  /\ arc' = ArcAccess(arc, k, slots)
  /\ perLayer' = [perLayer EXCEPT ![LayerOfKey(k)] = LruAccess(@, k, PerLayerCap(slots))]
  /\ misses' = [p \in Policy |-> misses[p] + (IF Missed(k)[p] THEN 1 ELSE 0)]
  /\ UNCHANGED slots

PolInit ==
  /\ slots = 0 /\ trace = <<>>
  /\ lru = <<>> /\ lruMore = <<>> /\ lruHits = <<>> /\ lruBytes = <<>>
  /\ lfu = [keys |-> {}, uses |-> [k \in Key |-> 0]]
  /\ twoQ = [in |-> <<>>, out |-> <<>>, main |-> <<>>]
  /\ arc = [t1 |-> <<>>, t2 |-> <<>>, b1 |-> <<>>, b2 |-> <<>>, p |-> 0]
  /\ perLayer = [l \in 0..Layers - 1 |-> <<>>]
  /\ misses = [p \in Policy |-> 0]

PolNext == (\E cap \in Slabs : StartReplay(cap)) \/ (\E k \in Key : Access(k))

PolSpec == PolInit /\ [][PolNext]_polVars

-----------------------------------------------------------------------------
PolDone == slots > 0 /\ Len(trace) = MaxAccesses

(* "A fixed-size slab" (slab_replay.py:1): what a policy holds fits in it, *)
(* for the byte budget in bytes, and no key is held twice.                 *)
WithinSlab ==
  slots > 0 =>
    /\ Len(lru) <= slots /\ Len(lruHits) <= slots /\ SlabBytes(lruBytes) <= slots
    /\ Cardinality(lfu.keys) <= slots
    /\ Len(arc.t1) + Len(arc.t2) <= ArcCap(slots)
    /\ IsInjective(lru) /\ IsInjective(lruBytes) /\ IsInjective(arc.t1 \o arc.t2)

(* The same of 2Q's main list.                                             *)
TwoQWithinSlab == slots > 0 => Len(twoQ.main) <= slots

(* belady is the offline optimum: no choice of victims misses less.        *)
BeladyIsOptimal == PolDone => Belady(trace, slots) = FewestMisses(trace, slots)

(* "An upper bound for any policy" (trace_locality.py:125): every policy   *)
(* that holds one slab misses at least as often.                           *)
BeladyBounds ==
  PolDone => \A p \in {"lru", "lruHits", "lruBytes", "lfu"} :
               Belady(trace, slots) <= misses[p]

(* The two LRU replays of the two tools, one making room first and one     *)
(* after, are the same policy; and LRU never hits less in a larger slab.   *)
LruIsOnePolicy ==
  /\ lru = lruHits /\ misses["lru"] = misses["lruHits"]
  /\ ToSet(lru) \subseteq ToSet(lruMore) /\ misses["lruMore"] <= misses["lru"]

(* An access whose reuse distance is under the capacity is an LRU hit.     *)
ReuseIsHit ==
  slots > 0 => \A k \in Key :
    LET t == Append(trace, k)  d == ReuseDistance(t, Len(t))
    IN  0 <= d /\ d < slots => In(k, lru)

(* static-oracle "is the best a static placement could ever do"            *)
(* (calib_check.py:18).                                                    *)
OracleIsBest ==
  PolDone /\ slots <= Keys =>
    \A s \in kSubset(slots, Key) :
      StaticHits(trace, s) <= StaticHits(trace, MostUsed(trace, slots))

(* The partitioned LRU of trace_locality.py is the per-layer LRU of         *)
(* slab_replay.py.                                                          *)
PartitionIsPerLayer == PolDone => PartitionedMisses(trace, slots) = misses["perlayer"]

(* On the part of a trace after a warm-up of any length, no placement that  *)
(* was ranked on the warm-up beats the oracle; a seeded LRU saves at most   *)
(* its seed over the optimum, and does not lose from more slots.            *)
PlacementsAreScored ==
  PolDone /\ slots < Keys =>
    \A n \in 1..Len(trace) - 1 :
      LET warm == SubSeq(trace, 1, n)  rest == SubSeq(trace, n + 1, Len(trace))
          oracle == StaticHits(rest, MostUsed(rest, slots))
      IN  /\ StaticHits(rest, DeployedTop(warm, slots)) <= oracle
          /\ StaticHits(rest, MostUsed(warm, slots)) <= oracle
          /\ FewestMisses(rest, slots) <= SeededMisses(warm, rest, slots) + slots
          /\ SeededMisses(warm, rest, slots + 1) <= SeededMisses(warm, rest, slots)

(* The coverage table is what a static placement of those experts hits, and *)
(* twice the batch never fetches more distinct experts                      *)
(* (trace_locality.py:246-255, 342-350).                                    *)
TablesAgree ==
  PolDone =>
    /\ \A l \in 0..Layers - 1 :
         LET flat == InLayer(trace, l)
             top == SubSeq(Ranking(flat), 1, Min({slots, Keys}))
         IN  Coverage(trace, l, slots) = StaticHits(flat, ToSet(top))
    /\ \A b \in 1..Len(trace) \div 2 : UnionTotal(trace, 2 * b) <= UnionTotal(trace, b)

(* The policies the slab size was chosen by agree with one another and with *)
(* their definitions, on every short trace (slab_replay.py,                 *)
(* trace_locality.py, calib_check.py).                                      *)
PoliciesAgree ==
  /\ WithinSlab
  /\ BeladyIsOptimal
  /\ BeladyBounds
  /\ LruIsOnePolicy
  /\ ReuseIsHit
  /\ OracleIsBest
  /\ PartitionIsPerLayer
  /\ PlacementsAreScored
  /\ TablesAgree
=============================================================================
