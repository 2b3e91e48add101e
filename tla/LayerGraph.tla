----------------------------- MODULE LayerGraph -----------------------------
(***************************************************************************)
(* The tier as a static compute graph drives it: llama.cpp issues the      *)
(* MUL_MAT_ID calls of a forward pass in one fixed order, the calls of a   *)
(* layer one after the other, and the layer's router writes the layer's    *)
(* ids tensor anew before the first of them.                               *)
(***************************************************************************)
EXTENDS Tier

CONSTANT Graph      \* the expert tensors of one forward pass, in call order

ASSUME GraphAssumption == Graph \in Seq(Source) /\ Graph # <<>>

VARIABLES
  at,               \* the next call of the pass
  routed            \* the contents of each layer's ids tensor

gvars == <<vars, at, routed>>

FirstOfLayer == at = 1 \/ LayerOf[Graph[at - 1]] # LayerOf[Graph[at]]

(* The routed experts of a layer are chosen once per pass.                 *)
Route(l) ==
  IF FirstOfLayer
  THEN \E list \in IdLists : routed' = [routed EXCEPT ![l] = list]
  ELSE UNCHANGED routed

GraphCall ==
  /\ pc = "idle"
  /\ Route(LayerOf[Graph[at]])
  /\ Call(Graph[at], routed'[LayerOf[Graph[at]]])
  /\ at' = (at % Len(Graph)) + 1

(* A model is unloaded between passes.                                     *)
GraphRestart == at = 1 /\ Restart /\ UNCHANGED <<at, routed>>

GraphInit == Init /\ at = 1 /\ routed = [l \in Layer |-> <<>>]

GraphNext ==
  \/ GraphCall \/ GraphRestart
  \/ (Serve \/ DrainFails \/ Retire) /\ UNCHANGED <<at, routed>>

(* The host thread keeps running inside a call, and the device finishes    *)
(* the kernels it was given; no fairness makes the host issue calls.       *)
GraphSpec ==
  /\ GraphInit /\ [][GraphNext]_gvars
  /\ WF_gvars(Serve /\ UNCHANGED <<at, routed>>)
  /\ WF_gvars(Retire /\ UNCHANGED <<at, routed>>)

-----------------------------------------------------------------------------
(* The ids a call turns into slots are those its layer's ids tensor holds  *)
(* when the call's kernel is launched, downloaded or reused (the rule      *)
(* stated at SB_ID_GROUP_MAX).                                             *)
IdsAreTheRouters ==
  pc \in {"prime", "slots", "launch"} => idsRaw = routed[LayerOf[cur]]

(* A layer's merged reservations are there, filled and single when its      *)
(* later tensors call.                                                      *)
MergedIsServed ==
  /\ RunningSlotsHeld
  /\ ServedBytes
  /\ OneSlotPerExpert

(* Every call returns, whatever it has to evict and wait for.              *)
CallReturns == (pc # "idle") ~> (pc \in {"idle", "aborted"})
=============================================================================
