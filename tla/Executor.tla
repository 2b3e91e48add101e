------------------------------ MODULE Executor ------------------------------
(* One token's blocks on the device (sabah/runtime/executor.py) with the   *)
(* next token's experts warmed behind them (mtp_prefetch.py).  The host    *)
(* uploads the pointers and the weights of a block into buffers that every *)
(* block uses, and launches its two kernels on the compute stream.         *)
(*                                                                         *)
(* cudaMemcpy runs on the legacy stream, and g_compute and g_copy are made *)
(* with cudaStreamCreate: an upload or a download starts when both are     *)
(* empty (sabah_rt.cu:3192-3193, 3297-3302).                               *)
EXTENDS Integers, Sequences, FiniteSets, SequencesExt

CONSTANTS Layer,      \* blocks, in the order the plan runs them: 1..n
          Routed,     \* experts
          Widths,     \* how many ids a block of the plan may have
          MaxUsed,    \* rows of d_h, d_w and d_ptr
          TopCand,    \* top_k of the FrequencyPredictor
          MaxTokens   \* bound: tokens run

ASSUME ExecutorAssumption ==
  /\ IsFiniteSet(Layer) /\ Layer # {} /\ Layer = 1..Cardinality(Layer)
  /\ IsFiniteSet(Routed) /\ Widths \subseteq Nat
  /\ {MaxUsed, TopCand, MaxTokens} \subseteq Nat

VARIABLES exPc, layer, token,    \* the call: run_blocks_with_prefetch
          chosen,                \* the router's ids of the block being run
          dX, dH, dPtr, dW, dOut,  \* device buffers: what was last put in them
          computeQ,              \* kernels enqueued: [kind, token, layer, waits]
          copyQ,                 \* copies enqueued: [layer, expert]
          inTier,              \* experts admitted or warmed, per block
          counts,                \* FrequencyPredictor._counts
          outs                   \* what download_out returned, per token

exVars == <<exPc, layer, token, chosen, dX, dH, dPtr, dW, dOut, computeQ, copyQ, inTier,
            counts, outs>>

Nothing == <<>>
Tag(t, l) == <<t, l>>

ExInit ==
  /\ exPc = "idle" /\ layer = 0 /\ token = 0 /\ chosen = {}
  /\ dX = Nothing /\ dH = Nothing /\ dPtr = Nothing /\ dW = Nothing /\ dOut = Nothing
  /\ computeQ = <<>> /\ copyQ = <<>>
  /\ inTier = [l \in Layer |-> {}]
  /\ counts = [l \in Layer |-> [e \in Routed |-> 0]]
  /\ outs = <<>>

(* Not this: streams made with cudaStreamNonBlocking, which the legacy     *)
(* stream does not wait for.                                               *)
StreamsDoNotWait == TRUE
StreamsWait == computeQ = <<>> /\ copyQ = <<>>

(* upload_x, then the blocks one after another.                            *)
UploadX ==
  /\ exPc = "idle" /\ token < MaxTokens
  /\ StreamsWait
  /\ token' = token + 1 /\ layer' = 1 /\ exPc' = "block"
  /\ dX' = Tag(token + 1, 0)
  /\ UNCHANGED <<chosen, dH, dPtr, dW, dOut, computeQ, copyQ, inTier, counts, outs>>

(* run_block: a plan that does not fit the buffers is refused before the   *)
(* tier is asked; then ensure admits exactly the router's ids.  It copies  *)
(* what is not resident, and tells the compute stream to wait.             *)
RefuseBlock ==
  /\ exPc = "block"
  /\ \E n \in Widths : n > MaxUsed
  /\ exPc' = "raised"
  /\ UNCHANGED <<layer, token, chosen, dX, dH, dPtr, dW, dOut, computeQ, copyQ, inTier,
                 counts, outs>>

EnsureIds ==
  /\ exPc = "block"
  /\ \E ids \in SUBSET Routed : \E evicted \in SUBSET (inTier[layer] \ ids) :
       /\ Cardinality(ids) \in Widths /\ Cardinality(ids) <= MaxUsed
       /\ chosen' = ids
       /\ copyQ' = copyQ \o [i \in 1..Cardinality(ids \ inTier[layer]) |->
                               [token |-> token, layer |-> layer, why |-> "miss"]]
       /\ inTier' = [inTier EXCEPT ![layer] = (@ \ evicted) \union ids]
  /\ exPc' = "pointers"
  /\ UNCHANGED <<layer, token, dX, dH, dPtr, dW, dOut, computeQ, counts, outs>>

UploadPointers ==
  /\ exPc = "pointers" /\ StreamsWait
  /\ dPtr' = Tag(token, layer)
  /\ exPc' = "weights"
  /\ UNCHANGED <<layer, token, chosen, dX, dH, dW, dOut, computeQ, copyQ, inTier, counts, outs>>

UploadWeights ==
  /\ exPc = "weights" /\ StreamsWait
  /\ dW' = Tag(token, layer)
  /\ exPc' = "launch"
  /\ UNCHANGED <<layer, token, chosen, dX, dH, dPtr, dOut, computeQ, copyQ, inTier, counts, outs>>

(* sabah_moe_block: k_gate_up and k_down; the call returns at once.  A     *)
(* launch that fails raises, and mark_submitted is not called.             *)
LaunchBlock ==
  /\ exPc = "launch"
  /\ \/ /\ computeQ' = computeQ \o [i \in 1..2 |-> [kind |-> i, token |-> token, layer |-> layer]]
        /\ exPc' = "observe"
     \/ exPc' = "raised" /\ UNCHANGED computeQ
  /\ UNCHANGED <<layer, token, chosen, dX, dH, dPtr, dW, dOut, copyQ, inTier, counts, outs>>

(* FrequencyPredictor.observe, with no decay.                              *)
Observe ==
  /\ exPc = "observe"
  /\ counts' = [counts EXCEPT ![layer] = [e \in Routed |-> @[e] + (IF e \in chosen THEN 1 ELSE 0)]]
  /\ exPc' = "warm"
  /\ UNCHANGED <<layer, token, chosen, dX, dH, dPtr, dW, dOut, computeQ, copyQ, inTier, outs>>

(* candidates: the top_k experts of the block that were counted most.      *)
Candidates(l) ==
  LET counted == {e \in Routed : counts[l][e] > 0}
  IN {S \in SUBSET counted :
        /\ Cardinality(S) = TopCand \/ (S = counted /\ Cardinality(S) < TopCand)
        /\ \A e \in S, f \in Routed \ S : counts[l][e] >= counts[l][f]}

(* warm_ahead: the tier starts copies for some of the candidates that are  *)
(* not resident, as many as it has free slots for.                         *)
WarmAhead ==
  /\ exPc = "warm"
  /\ \E cand \in Candidates(layer) : \E S \in SUBSET (cand \ inTier[layer]) :
       /\ copyQ' = copyQ \o [i \in 1..Cardinality(S) |->
                               [token |-> token, layer |-> layer, why |-> "warm"]]
       /\ inTier' = [inTier EXCEPT ![layer] = @ \union S]
  /\ IF layer + 1 \in Layer THEN exPc' = "block" /\ layer' = layer + 1
     ELSE exPc' = "download" /\ UNCHANGED layer
  /\ UNCHANGED <<token, chosen, dX, dH, dPtr, dW, dOut, computeQ, counts, outs>>

DownloadOut ==
  /\ exPc = "download" /\ StreamsWait
  /\ outs' = Append(outs, dOut)
  /\ exPc' = "idle"
  /\ UNCHANGED <<layer, token, chosen, dX, dH, dPtr, dW, dOut, computeQ, copyQ, inTier,
                 counts>>

(* The compute stream: k_gate_up leaves silu(gate x) * up x in d_h, k_down *)
(* writes d_out from it (accumulate is false: d_out is overwritten).       *)
GateUp ==
  /\ computeQ # <<>> /\ Head(computeQ).kind = 1
  /\ dH' = [x |-> dX, gateUp |-> dPtr]
  /\ computeQ' = Tail(computeQ)
  /\ UNCHANGED <<exPc, layer, token, chosen, dX, dPtr, dW, dOut, copyQ, inTier, counts, outs>>

Down ==
  /\ computeQ # <<>> /\ Head(computeQ).kind = 2
  /\ dOut' = [h |-> dH, down |-> dPtr, weights |-> dW]
  /\ computeQ' = Tail(computeQ)
  /\ UNCHANGED <<exPc, layer, token, chosen, dX, dH, dPtr, dW, copyQ, inTier, counts, outs>>

ExpertCopied ==
  /\ copyQ # <<>>
  /\ copyQ' = Tail(copyQ)
  /\ UNCHANGED <<exPc, layer, token, chosen, dX, dH, dPtr, dW, dOut, computeQ, inTier,
                 counts, outs>>

RunsBlock == UploadX \/ EnsureIds \/ UploadPointers \/ UploadWeights \/ LaunchBlock
               \/ Observe \/ WarmAhead \/ DownloadOut
Streams == GateUp \/ Down \/ ExpertCopied

ExNext == RunsBlock \/ RefuseBlock \/ Streams
ExSpec == ExInit /\ [][ExNext]_exVars

-----------------------------------------------------------------------------
ExTypeOK ==
  /\ exPc \in {"idle", "block", "pointers", "weights", "launch", "observe", "warm",
               "download", "raised"}
  /\ token \in 0..MaxTokens /\ layer \in Layer \union {0}
  /\ Len(computeQ) <= 2
  /\ Cardinality(chosen) <= MaxUsed

(* Every block uses the same d_x, d_ptr and d_w: while a kernel is still   *)
(* to run, they hold its block's, although the host is ahead of the device *)
(* (executor.py:65-93).                                                    *)
BuffersAreTheirBlocks ==
  \A i \in DOMAIN computeQ :
    LET k == computeQ[i] IN dPtr = Tag(k.token, k.layer) /\ dW = Tag(k.token, k.layer)

(* The output of a token is the last block of its plan on the token's own  *)
(* input, with the pointers and weights of that block, whatever was warmed *)
(* ahead: "prefetch changes timing, never values" (mtp_prefetch.py:167).    *)
(* Which input a later block gets is the question of InputIsUpdated.       *)
OutputIsExact ==
  \A t \in DOMAIN outs :
    LET last == Tag(t, Cardinality(Layer))
    IN /\ outs[t].h.x[1] = t /\ outs[t].h.gateUp = last
       /\ outs[t].down = last /\ outs[t].weights = last

(* run_model says that x "is updated in place on the device between        *)
(* blocks" (executor.py:104-107): a block that is not the first runs on    *)
(* something else than what upload_x put there.  No code does: d_out is    *)
(* written by the kernels and never becomes d_x.                           *)
InputIsUpdated ==
  exPc \in {"observe", "warm"} /\ layer > 1 /\ computeQ # <<>> => dX # Tag(token, 0)

(* mtp_prefetch.py:163-165 says the copies ride the copy stream "while the *)
(* remaining blocks compute".  In no run: the next block's upload waits for *)
(* them (rt.py:140-147 through sabah_rt.cu:3297), so none is in flight     *)
(* when a later block's kernels are enqueued.                              *)
WarmEndsBeforeTheNext ==
  exPc \in {"weights", "launch"} => copyQ = <<>>

(* One set of device buffers serves every block in turn: a kernel and a     *)
(* download see the block they belong to (executor.py:41-99).               *)
BlocksAreExact ==
  /\ ExTypeOK
  /\ BuffersAreTheirBlocks
  /\ OutputIsExact
=============================================================================
