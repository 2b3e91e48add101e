--------------------------- MODULE LayerGraphProofs ---------------------------
(***************************************************************************)
(* Proofs about LayerGraph, for every graph.  A step of the graph is a     *)
(* step of the tier, so what TierProofs shows of the tier holds; the graph *)
(* adds what the order of the calls is worth: which ids a call uses, and   *)
(* that a merged layer fetch never comes back to a tensor it has done.     *)
(***************************************************************************)
EXTENDS LayerGraph, TierProofs

(* The call after call i of the pass, and the one before it.               *)
Turn(i) == (i % Len(Graph)) + 1
Before(i) == IF i = 1 THEN Len(Graph) ELSE i - 1

InCall == pc \in {"drain", "prime", "slots", "launch"}

(* The graph's own variables, and the tensor of the call in progress.      *)
GraphType ==
  /\ at \in 1..Len(Graph) /\ routed \in [Layer -> IdLists \cup {<<>>}]
  /\ at > 1 => routed[LayerOf[Graph[at - 1]]] \in IdLists
  /\ InCall => cur = Graph[Before(at)]

(* The ids at hand are those of the layer of the last call.                *)
RoutedInv ==
  /\ pc = "drain" => handed = routed[LayerOf[cur]] /\ (adjacent => idsRaw = handed)
  /\ pc \in {"prime", "slots", "launch"} =>
       /\ idsRaw = routed[LayerOf[cur]]
       /\ PassIdsKey => lastKey = LayerOf[cur]
  /\ pc = "idle" /\ PassIdsKey /\ lastKey # Nil =>
       lastKey = LayerOf[Graph[Before(at)]] /\ idsRaw = routed[lastKey]

(* The links learned from the calls follow the graph.                      *)
LinkInv ==
  pc # "aborted" =>
    /\ \A i \in 1..Len(Graph) :
         links[Graph[i]] # Nil => links[Graph[i]].next = Graph[Turn(i)]
    /\ prevSource \in
         {Nil, Graph[IF pc \in {"drain", "prime"} THEN Before(Before(at)) ELSE Before(at)]}

(* The graph is a list of tensors, each of a layer.                        *)
LEMMA GraphFacts ==
  /\ Len(Graph) \in Nat \ {0}
  /\ \A i \in 1..Len(Graph) : Graph[i] \in Source /\ LayerOf[Graph[i]] \in Layer
  /\ Nil \notin Layer /\ Nil \notin Source
<1>1. Graph \in Seq(Source) /\ Graph # <<>>
  BY GraphAssumption
<1>2. Len(Graph) \in Nat \ {0}
  BY <1>1
<1>3. \A i \in 1..Len(Graph) : Graph[i] \in Source
  BY <1>1
<1>4. QED
  BY <1>2, <1>3, TierAssumption

(* The pass starts over after its last call.                               *)
LEMMA TurnIs ==
  ASSUME NEW i \in 1..Len(Graph)
  PROVE  /\ Turn(i) = IF i = Len(Graph) THEN 1 ELSE i + 1
         /\ Turn(i) \in 1..Len(Graph) /\ Before(i) \in 1..Len(Graph)
         /\ Before(Turn(i)) = i /\ Turn(Before(i)) = i
<1>1. PICK n \in Nat \ {0} : n = Len(Graph)
  BY GraphFacts
<1>2. \A j \in 1..n : j % n = IF j = n THEN 0 ELSE j
  <2> TAKE j \in 1..n
  <2>1. CASE j = n
    BY <2>1
  <2>2. CASE j # n
    BY <2>2
  <2>3. QED
    BY <2>1, <2>2
<1>3. \A j \in 1..Len(Graph) : Turn(j) = IF j = Len(Graph) THEN 1 ELSE j + 1
  BY <1>1, <1>2 DEF Turn
<1>4. Before(i) \in 1..Len(Graph)
  BY <1>1 DEF Before
<1>5. Before(Turn(i)) = i
  BY <1>1, <1>3 DEF Before
<1>6. Turn(Before(i)) = i
  BY <1>1, <1>3, <1>4 DEF Before
<1>7. QED
  BY <1>1, <1>3, <1>4, <1>5, <1>6

(* What the router of the next call writes is an id list of the model, and *)
(* a layer's later calls see what its first one saw.                       *)
LEMMA RouteIs ==
  ASSUME GraphType, GraphCall
  PROVE  /\ routed' \in [Layer -> IdLists \cup {<<>>}]
         /\ routed'[LayerOf[Graph[at]]] \in IdLists
         /\ ~FirstOfLayer => routed' = routed
<1>1. at \in 1..Len(Graph) /\ LayerOf[Graph[at]] \in Layer
  BY GraphFacts DEF GraphType
<1>2. Route(LayerOf[Graph[at]])
  BY DEF GraphCall
<1>3. CASE FirstOfLayer
  <2>1. PICK list \in IdLists : routed' = [routed EXCEPT ![LayerOf[Graph[at]]] = list]
    BY <1>2, <1>3 DEF Route
  <2>2. QED
    BY <1>1, <1>3, <2>1 DEF GraphType
<1>4. CASE ~FirstOfLayer
  <2>1. routed' = routed /\ at # 1 /\ LayerOf[Graph[at - 1]] = LayerOf[Graph[at]]
    BY <1>2, <1>4 DEF Route, FirstOfLayer
  <2>2. QED
    BY <1>1, <1>4, <2>1 DEF GraphType
<1>5. QED
  BY <1>3, <1>4

(* A step of the graph is a step of the tier.                              *)
LEMMA GraphStepIsTierStep ==
  ASSUME GraphType, [GraphNext]_gvars
  PROVE  [Next]_vars
<1>1. CASE GraphCall
  <2>1. Call(Graph[at], routed'[LayerOf[Graph[at]]])
    BY <1>1 DEF GraphCall
  <2>2. Graph[at] \in Source /\ routed'[LayerOf[Graph[at]]] \in IdLists
    BY <1>1, GraphFacts, RouteIs DEF GraphType
  <2>3. QED
    BY <2>1, <2>2 DEF Next
<1>2. CASE GraphRestart
  BY <1>2 DEF GraphRestart, Next
<1>3. CASE (Serve \/ DrainFails \/ Retire) /\ UNCHANGED <<at, routed>>
  BY <1>3 DEF Next
<1>4. CASE UNCHANGED gvars
  BY <1>4 DEF gvars
<1>5. QED
  BY <1>1, <1>2, <1>3, <1>4 DEF GraphNext

(* The steps inside a call, as the graph sees them: the call goes on with  *)
(* its tensor, returns, or fails.                                          *)
Goes(from, to) == pc \in from /\ pc' \in to /\ cur' = cur

LEMMA ServeGoes ==
  ASSUME Serve
  PROVE  \/ Drain /\ Goes({"drain"}, {"prime"}) /\ UNCHANGED chain
         \/ Prime /\ Goes({"prime"}, {"slots"}) /\ UNCHANGED ids
         \/ Goes({"slots"}, {"slots", "launch"}) /\ UNCHANGED <<ids, chain>>
         \/ pc = "launch" /\ pc' = "idle" /\ UNCHANGED <<ids, chain>>
         \/ InCall /\ Fail /\ UNCHANGED <<ids, chain>>
<1>1. CASE Drain
  BY <1>1 DEF Drain, Goes, chain
<1>2. CASE Prime
  BY <1>2 DEF Prime, Goes, ids
<1>3. CASE PrimeFollower \/ Hit
  BY <1>3 DEF PrimeFollower, Hit, Looking, Goes, ids, chain
<1>4. ASSUME NEW a \in Addr, Evict(a) \/ Reserve(a)
      PROVE  Goes({"slots"}, {"slots", "launch"}) /\ UNCHANGED <<ids, chain>>
  BY <1>4 DEF Evict, Reserve, Reserving, Looking, Goes, ids, chain, local
<1>5. CASE Fill
  BY <1>5 DEF Fill, AllPlaced, Goes, ids, chain, local
<1>6. CASE Launch
  BY <1>6 DEF Launch
<1>7. CASE BadExpert \/ ReserveFails \/ FillFails \/ LaunchFails
  BY <1>7 DEF BadExpert, ReserveFails, Reserving, Looking, FillFails, AllPlaced, LaunchFails, InCall
<1>8. QED
  BY <1>1, <1>2, <1>3, <1>4, <1>5, <1>6, <1>7 DEF Serve

(* The steps of the graph that are neither a call, nor a restart, nor one  *)
(* of those.                                                               *)
LEMMA OtherSteps ==
  ASSUME [GraphNext]_gvars, ~GraphCall, ~GraphRestart
  PROVE  /\ UNCHANGED <<at, routed>>
         /\ \/ Serve
            \/ InCall /\ Fail /\ UNCHANGED <<ids, chain>>
            \/ UNCHANGED <<pc, cur, handed, adjacent, ids, chain>>
BY DEF GraphNext, gvars, vars, DrainFails, Retire, local, InCall

(* Every step keeps the place in the graph and the routers' lists typed.   *)
LEMMA GraphTypeNext ==
  ASSUME TypeOK, GraphType, [GraphNext]_gvars
  PROVE  GraphType'
<1>0. at \in 1..Len(Graph)
  BY DEF GraphType
<1>1. CASE GraphCall
  <2>1. /\ at' = Turn(at) /\ cur' = Graph[at]
        /\ routed' \in [Layer -> IdLists \cup {<<>>}]
        /\ routed'[LayerOf[Graph[at]]] \in IdLists
    BY <1>1, RouteIs DEF GraphCall, Call, Turn
  <2>2. at' \in 1..Len(Graph) /\ Before(at') = at /\ (at' > 1 => at' - 1 = at)
    <3>1. PICK x \in 1..Len(Graph) : x = Turn(at) /\ Before(x) = at
      BY <1>0, TurnIs
    <3>2. x = IF at = Len(Graph) THEN 1 ELSE at + 1
      BY <1>0, <3>1, TurnIs
    <3>3. x > 1 => x - 1 = at
      BY <1>0, <3>2
    <3>4. QED
      BY <2>1, <3>1, <3>3
  <2>3. QED
    BY <2>1, <2>2 DEF GraphType, Before
<1>2. CASE GraphRestart
  BY <1>2 DEF GraphRestart, Restart, GraphType, InCall, local, Before
<1>3. CASE ~GraphCall /\ ~GraphRestart
  <2>1. /\ UNCHANGED <<at, routed>>
        /\ \/ Serve
           \/ InCall /\ Fail
           \/ UNCHANGED <<pc, cur>>
    BY <1>3, OtherSteps
  <2>2. CASE Serve
    BY <2>1, <2>2, ServeGoes DEF Goes, Fail, GraphType, InCall, Before
  <2>3. CASE Fail \/ UNCHANGED <<pc, cur>>
    BY <2>1, <2>3 DEF Fail, GraphType, InCall, Before
  <2>4. QED
    BY <2>1, <2>2, <2>3
<1>4. QED
  BY <1>1, <1>2, <1>3

(* So do the initial states.                                               *)
LEMMA GraphTypeInit == GraphInit => GraphType
BY GraphFacts DEF GraphInit, Init, GraphType, InCall

-----------------------------------------------------------------------------
(* The ids a call uses.                                                    *)

(* Every step keeps what is known of the call under way and of the ids     *)
(* held for it.                                                            *)
LEMMA RoutedNext ==
  ASSUME LayerOf[Graph[Len(Graph)]] # LayerOf[Graph[1]],
         TypeOK, GraphType, RoutedInv, [GraphNext]_gvars
  PROVE  RoutedInv'
<1>0. at \in 1..Len(Graph)
  BY DEF GraphType
<1>1. CASE GraphCall
  <2>1. PICK s, l, list : s = Graph[at] /\ l = LayerOf[s] /\ list = routed'[l]
    OBVIOUS
  <2>2. /\ pc = "idle" /\ cur' = s /\ handed' = list /\ UNCHANGED <<idsRaw, lastKey>>
        /\ adjacent' = Adjacent(s, list)
        /\ pc' = "drain" \/ (pc' = "prime" /\ Adjacent(s, list))
    BY <1>1, <2>1 DEF GraphCall, Call
  <2>3. ASSUME Adjacent(s, list)
        PROVE  PassIdsKey /\ lastKey = l /\ idsRaw = list
    <3>1. PassIdsKey /\ lastKey = l /\ l \in Layer /\ lastKey # Nil
      BY <1>0, <2>1, <2>3, GraphFacts DEF Adjacent
    <3>2. lastKey = LayerOf[Graph[Before(at)]] /\ idsRaw = routed[lastKey]
      BY <2>2, <3>1 DEF RoutedInv
    <3>3. at # 1 /\ LayerOf[Graph[at - 1]] = LayerOf[Graph[at]]
      BY <2>1, <3>1, <3>2 DEF Before
    <3>4. routed' = routed
      BY <1>1, <3>3, RouteIs DEF FirstOfLayer
    <3>5. QED
      BY <2>1, <3>1, <3>2, <3>4
  <2>4. LayerOf[cur'] = l
    BY <2>1, <2>2
  <2>5. QED
    BY <2>1, <2>2, <2>3, <2>4 DEF RoutedInv
<1>2. CASE GraphRestart
  BY <1>2 DEF GraphRestart, Restart, RoutedInv, ids, local, Before
<1>3. CASE ~GraphCall /\ ~GraphRestart
  <2>1. /\ UNCHANGED <<at, routed>>
        /\ \/ Serve
           \/ InCall /\ Fail
           \/ UNCHANGED <<pc, cur, handed, adjacent, ids>>
    BY <1>3, OtherSteps
  <2>2. CASE Fail
    BY <2>2, HostAssumption DEF Fail, RoutedInv
  <2>3. CASE UNCHANGED <<pc, cur, handed, adjacent, ids>>
    BY <2>1, <2>3 DEF RoutedInv, ids, Before
  <2>4. CASE Drain
    <3>1. /\ pc = "drain" /\ pc' = "prime" /\ cur' = cur
          /\ idsRaw' = IF IdCheck /\ adjacent THEN idsRaw ELSE handed
          /\ PassIdsKey => lastKey' = LayerOf[cur]
      BY <2>4 DEF Drain
    <3>2. QED
      BY <2>1, <3>1 DEF RoutedInv
  <2>5. CASE /\ \/ Goes({"prime"}, {"slots"}) \/ Goes({"slots"}, {"slots", "launch"})
             /\ UNCHANGED ids
    BY <2>1, <2>5 DEF Goes, ids, RoutedInv
  <2>6. CASE pc = "launch" /\ pc' = "idle" /\ UNCHANGED ids
    BY <2>1, <2>6 DEF ids, RoutedInv, GraphType, InCall, Before
  <2>7. QED
    BY <2>1, <2>2, <2>3, <2>4, <2>5, <2>6, ServeGoes
<1>4. QED
  BY <1>1, <1>2, <1>3

(* In a pass whose last and first calls are of different layers, the ids   *)
(* of every call, downloaded or taken over from the call before, are those *)
(* its own layer's router wrote.                                           *)
THEOREM CallsUseTheirRoutersIds ==
  ASSUME LayerOf[Graph[Len(Graph)]] # LayerOf[Graph[1]]
  PROVE  GraphSpec => []IdsAreTheRouters
<1> DEFINE I == TypeOK /\ GraphType /\ RoutedInv
<1>1. GraphInit => I
  BY TypeInit, GraphTypeInit DEF GraphInit, Init, RoutedInv
<1>2. I /\ [GraphNext]_gvars => I'
  <2>1. I /\ [GraphNext]_gvars => TypeOK'
    BY GraphStepIsTierStep, TypeNext
  <2>2. QED
    BY <2>1, GraphTypeNext, RoutedNext
<1>3. I => IdsAreTheRouters
  BY DEF RoutedInv, IdsAreTheRouters
<1>4. QED
  BY <1>1, <1>2, <1>3, PTL DEF GraphSpec

-----------------------------------------------------------------------------
(* The merged layer fetch.                                                 *)

(* Every expert tensor is called once per pass, and a pass has three.      *)
GraphIsPass ==
  /\ \A i, j \in 1..Len(Graph) : Graph[i] = Graph[j] => i = j
  /\ Len(Graph) >= 3

(* Closing the edge from the previous call keeps the links on the graph.   *)
LEMMA ClosedFollowGraph ==
  ASSUME GraphIsPass, TypeOK, GraphType, LinkInv, pc = "prime"
  PROVE  \A i \in 1..Len(Graph) :
           ClosedLinks[Graph[i]] # Nil => ClosedLinks[Graph[i]].next = Graph[Turn(i)]
<1>1. PICK b \in 1..Len(Graph) : b = Before(at) /\ cur = Graph[b]
  BY TurnIs DEF GraphType, InCall
<1>2. PICK p \in 1..Len(Graph) : p = Before(b) /\ Turn(p) = b
  BY TurnIs
<1>3. prevSource \in {Nil, Graph[p]}
  BY <1>1, <1>2 DEF LinkInv
<1>4. CASE prevSource \in {Nil, cur}
  BY <1>4 DEF ClosedLinks, LinkInv
<1>5. CASE prevSource \notin {Nil, cur}
  <2>1. PICK edge : edge = [next |-> cur, shares |-> prevIds = Row(idsRaw)]
    OBVIOUS
  <2>2. ClosedLinks = [links EXCEPT ![Graph[p]] = edge] /\ edge.next = Graph[Turn(p)]
    BY <1>1, <1>2, <1>3, <1>5, <2>1 DEF ClosedLinks
  <2>3. \A i \in 1..Len(Graph) : Graph[i] \in DOMAIN links /\ (i # p => Graph[i] # Graph[p])
    BY GraphFacts DEF TypeOK, GraphIsPass
  <2>4. QED
    BY <2>2, <2>3 DEF LinkInv
<1>6. QED
  BY <1>4, <1>5

(* The followers of a call are the next one or two of the pass.            *)
LEMMA FollowersAreFresh ==
  ASSUME GraphIsPass, TypeOK, GraphType, LinkInv, pc = "prime"
  PROVE  FreshFollowers
<1>1. PICK b \in 1..Len(Graph) : cur = Graph[b]
  BY TurnIs DEF GraphType, InCall
<1>2. PICK n \in 1..Len(Graph) : n = Turn(b)
  BY TurnIs
<1>3. PICK m \in 1..Len(Graph) : m = Turn(n)
  BY TurnIs
<1>4. n # b /\ m # b /\ m # n
  <2>1. PICK len \in Nat : len = Len(Graph) /\ len >= 3
    BY GraphFacts DEF GraphIsPass
  <2>2. /\ n = IF b = len THEN 1 ELSE b + 1
        /\ m = IF n = len THEN 1 ELSE n + 1
    BY <1>2, <1>3, <2>1, TurnIs
  <2>3. QED
    BY <2>1, <2>2
<1>5. Graph[n] # cur /\ Graph[m] # cur /\ Graph[m] # Graph[n]
  BY <1>1, <1>4 DEF GraphIsPass
<1>6. Follows(cur) => ClosedLinks[cur].next = Graph[n]
  BY <1>1, <1>2, ClosedFollowGraph DEF Follows
<1>7. Follows(Graph[n]) => ClosedLinks[Graph[n]].next = Graph[m]
  BY <1>3, ClosedFollowGraph DEF Follows
<1>8. Followers \in {<<>>, <<Graph[n]>>, <<Graph[n], Graph[m]>>}
  BY <1>6, <1>7 DEF Followers
<1>9. QED
  BY <1>5, <1>8 DEF FreshFollowers

(* Every link recorded is one the graph makes, in every step.              *)
LEMMA LinkNext ==
  ASSUME GraphIsPass, AbortOnError, TypeOK, GraphType, LinkInv, [GraphNext]_gvars
  PROVE  LinkInv'
<1>0. at \in 1..Len(Graph)
  BY DEF GraphType
<1>1. CASE GraphCall
  <2>1. /\ pc = "idle" /\ pc' \in {"drain", "prime"} /\ at' = Turn(at)
        /\ UNCHANGED <<links, prevSource>>
    BY <1>1 DEF GraphCall, Call, Turn, chain
  <2>2. Before(at') = at
    BY <1>0, <2>1, TurnIs
  <2>3. QED
    BY <2>1, <2>2 DEF LinkInv, Turn, Before
<1>2. CASE GraphRestart
  BY <1>2 DEF GraphRestart, Restart, LinkInv, chain, Turn, Before
<1>3. CASE ~GraphCall /\ ~GraphRestart
  <2>1. /\ UNCHANGED <<at, routed>>
        /\ \/ Serve
           \/ InCall /\ Fail
           \/ UNCHANGED <<pc, chain>>
    BY <1>3, OtherSteps
  <2>2. CASE Fail
    BY <2>2 DEF Fail, LinkInv
  <2>3. CASE UNCHANGED <<pc, chain>>
    BY <2>1, <2>3 DEF LinkInv, chain, Turn, Before
  <2>4. CASE Goes({"drain"}, {"prime"}) /\ UNCHANGED chain
    BY <2>1, <2>4 DEF LinkInv, Goes, chain, Turn, Before
  <2>5. CASE Prime
    <3>1. /\ pc = "prime" /\ pc' = "slots" /\ links' = ClosedLinks /\ prevSource' = cur
          /\ cur = Graph[Before(at)]
      BY <2>5 DEF Prime, GraphType, InCall
    <3>2. QED
      BY <2>1, <3>1, ClosedFollowGraph DEF LinkInv, Turn, Before
  <2>6. CASE /\ \/ Goes({"slots"}, {"slots", "launch"})
                \/ pc = "launch" /\ pc' = "idle"
             /\ UNCHANGED chain
    BY <2>1, <2>6 DEF Goes, chain, LinkInv, Turn, Before
  <2>7. QED
    BY <2>1, <2>2, <2>3, <2>4, <2>5, <2>6, ServeGoes
<1>4. QED
  BY <1>1, <1>2, <1>3

(* What a pass keeps, merged layer fetch or not.                           *)
GraphInv ==
  TypeOK /\ SlotInv /\ BytesInv /\ UniqueInv /\ GraphType /\ LinkInv

(* The whole invariant is inductive.                                       *)
LEMMA GraphNextInv ==
  ASSUME GraphIsPass, AbortOnError, GraphInv, [GraphNext]_gvars
  PROVE  GraphInv'
<1> USE DEF GraphInv
<1>1. [Next]_vars
  BY GraphStepIsTierStep
<1>2. TypeOK' /\ SlotInv' /\ BytesInv'
  BY <1>1, TypeNext, SlotNext, BytesNext
<1>3. UniqueInv'
  BY <1>1, FollowersAreFresh, UniqueNext
<1>4. GraphType' /\ LinkInv'
  BY GraphTypeNext, LinkNext
<1>5. QED
  BY <1>2, <1>3, <1>4

(* In a pass that calls each of three or more tensors once, by a host that *)
(* stops at the first error, the slots the kernels read stay their         *)
(* experts' and hold their bytes, and no expert gets a second slot, merged *)
(* layer fetch or not.                                                     *)
THEOREM MergedIsAlwaysServed ==
  ASSUME GraphIsPass, AbortOnError
  PROVE  GraphSpec => []MergedIsServed
<1>1. GraphInit => GraphInv
  <2>1. GraphInit => LinkInv
    BY GraphFacts DEF GraphInit, Init, LinkInv
  <2>2. QED
    BY <2>1, TypeInit, SlotInit, BytesInit, UniqueInit, GraphTypeInit DEF GraphInit, GraphInv
<1>2. GraphInv /\ [GraphNext]_gvars => GraphInv'
  BY GraphNextInv
<1>3. GraphInv => MergedIsServed
  <2>1. SlotInv => RunningSlotsHeld
    BY DEF SlotInv, KernelInv, RunningSlotsHeld
  <2>2. QED
    BY <2>1, SlotsAreSingle DEF GraphInv, BytesInv, MergedIsServed
<1>4. QED
  BY <1>1, <1>2, <1>3, PTL DEF GraphSpec
=============================================================================
