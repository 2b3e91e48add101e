------------------------------ MODULE HostProofs ------------------------------
(***************************************************************************)
(* Proofs about the parts of a process that runs a model from Python: the  *)
(* blocks of a token on the device, for plans of any length and experts of *)
(* any number; the rows of the n-gram table; the proxy in front of the     *)
(* backend; the pool of pinned memory under its users; the tensors pinned  *)
(* on the device, for any sizes and budgets; and the bank, for any blocks, *)
(* roles, experts and readers.                                             *)
(***************************************************************************)
EXTENDS MCHost, SequenceTheorems, FiniteSetTheorems, TLAPS

-----------------------------------------------------------------------------
(* Executor.                                                               *)

Kernel(i, t, l) == [kind |-> i, token |-> t, layer |-> l]
Copied == [token : Nat, layer : Nat, why : {"miss", "warm"}]

(* What k_down leaves of block l of a token.                               *)
BlockOut(t, l) ==
  [h |-> [x |-> Tag(t, 0), gateUp |-> Tag(t, l)], down |-> Tag(t, l), weights |-> Tag(t, l)]

ExType ==
  /\ exPc \in {"idle", "block", "pointers", "weights", "launch", "observe", "warm",
               "download", "raised"}
  /\ token \in 0..MaxTokens /\ layer \in Layer \cup {0}
  /\ exPc # "idle" => token > 0 /\ layer \in Layer
  /\ inTier \in [Layer -> SUBSET Routed]
  /\ chosen \subseteq Routed /\ Cardinality(chosen) <= MaxUsed
  /\ copyQ \in Seq(Copied) /\ outs \in Seq({BlockOut(t, Cardinality(Layer)) : t \in Nat})

(* The kernels still to run, and the copies that were advice, are those of *)
(* one block, whose pointers and weights the device's buffers hold.        *)
Kernels(l) == {<<>>, <<Kernel(1, token, l), Kernel(2, token, l)>>, <<Kernel(2, token, l)>>}

DeviceRuns(l) ==
  /\ computeQ \in Kernels(l)
  /\ computeQ # <<>> => dPtr = Tag(token, l) /\ dW = Tag(token, l) /\ dX = Tag(token, 0)
  /\ computeQ = <<Kernel(2, token, l)>> => dH = [x |-> Tag(token, 0), gateUp |-> Tag(token, l)]
  /\ \A i \in DOMAIN copyQ :
       copyQ[i].why = "warm" => copyQ[i].token = token /\ copyQ[i].layer = l

(* The host is at most one block ahead of the device.                      *)
AheadInv ==
  /\ exPc \in {"idle", "weights", "launch"} => computeQ = <<>> /\ copyQ = <<>>
  /\ exPc \in {"block", "pointers", "raised"} => \E l \in Nat : DeviceRuns(l)
  /\ exPc \in {"observe", "warm", "download"} =>
       /\ DeviceRuns(layer)
       /\ computeQ = <<>> => dOut = BlockOut(token, layer)
  /\ exPc \in {"observe", "warm"} => copyQ = <<>>

BufferInv ==
  /\ exPc # "idle" => dX = Tag(token, 0)
  /\ exPc \in {"weights", "launch"} => dPtr = Tag(token, layer)
  /\ exPc = "launch" => dW = Tag(token, layer)

(* Each token that was downloaded is its last block's.                     *)
OutsInv ==
  /\ exPc = "download" => layer = Cardinality(Layer)
  /\ Len(outs) = IF exPc = "idle" THEN token ELSE token - 1
  /\ \A t \in DOMAIN outs : outs[t] = BlockOut(t, Cardinality(Layer))

ExInv == ExType /\ AheadInv /\ BufferInv /\ OutsInv

(* The layers are the numbers from 1 to how many there are.                *)
LEMMA Layers ==
  /\ Cardinality(Layer) \in Nat \ {0} /\ Layer = 1..Cardinality(Layer) /\ Layer \subseteq Nat
<1>1. Layer = 1..Cardinality(Layer) /\ Cardinality(Layer) \in Nat
  BY ExecutorAssumption, FS_CardinalityType
<1>2. Cardinality(Layer) # 0
  BY ExecutorAssumption, FS_EmptySet
<1>3. QED
  BY <1>1, <1>2

(* A set of routed experts has a size.                                     *)
LEMMA RoutedCount == \A S \in SUBSET Routed : IsFiniteSet(S) /\ Cardinality(S) \in Nat
BY ExecutorAssumption, FS_Subset, FS_CardinalityType

(* Copies joined to the stream: those that were there, and new ones, alike. *)
LEMMA JoinCopies ==
  ASSUME NEW n \in Nat, NEW c \in Copied, copyQ \in Seq(Copied),
         copyQ' = copyQ \o [i \in 1..n |-> c]
  PROVE  /\ copyQ' \in Seq(Copied)
         /\ \A i \in DOMAIN copyQ' : copyQ'[i] = c \/ \E j \in DOMAIN copyQ : copyQ'[i] = copyQ[j]
<1>1. PICK new \in Seq(Copied) : new = [i \in 1..n |-> c]
  <2>1. PICK new : new = [i \in 1..n |-> c]
    OBVIOUS
  <2>2. DOMAIN new = 1..n /\ Len(new) = n /\ \A i \in 1..n : new[i] \in Copied
    BY <2>1
  <2>3. new \in [1..n -> Copied]
    BY <2>1
  <2>4. new \in Seq(Copied)
    BY <2>2, <2>3
  <2>5. QED
    BY <2>1, <2>4
<1>2. /\ copyQ' \in Seq(Copied) /\ Len(copyQ') = Len(copyQ) + Len(new)
      /\ \A i \in 1..Len(copyQ) + Len(new) :
           copyQ'[i] = IF i <= Len(copyQ) THEN copyQ[i] ELSE new[i - Len(copyQ)]
  BY <1>1, ConcatProperties
<1>3. Len(new) = n /\ \A i \in 1..n : new[i] = c
  BY <1>1
<1>4. Len(copyQ) \in Nat /\ DOMAIN copyQ = 1..Len(copyQ) /\ DOMAIN copyQ' = 1..Len(copyQ')
  BY <1>2
<1>5. ASSUME NEW i \in DOMAIN copyQ'
      PROVE  copyQ'[i] = c \/ \E j \in DOMAIN copyQ : copyQ'[i] = copyQ[j]
  <2>1. i \in 1..Len(copyQ) + Len(new)
    BY <1>2, <1>4, <1>5
  <2>2. CASE i <= Len(copyQ)
    <3>1. i \in DOMAIN copyQ /\ copyQ'[i] = copyQ[i]
      BY <1>2, <1>4, <2>1, <2>2
    <3>2. QED
      BY <3>1
  <2>3. CASE ~(i <= Len(copyQ))
    <3>1. i - Len(copyQ) \in 1..n /\ copyQ'[i] = new[i - Len(copyQ)]
      BY <1>2, <1>3, <1>4, <2>1, <2>3
    <3>2. QED
      BY <1>3, <3>1
  <2>4. QED
    BY <2>2, <2>3
<1>6. QED
  BY <1>2, <1>5

(* A kernel that leaves the queue was the first of its block's.            *)
LEMMA KernelRuns ==
  ASSUME NEW l, computeQ \in Kernels(l), computeQ # <<>>
  PROVE  /\ Head(computeQ).kind = 1 =>
              computeQ # <<Kernel(2, token, l)>> /\ Tail(computeQ) = <<Kernel(2, token, l)>>
         /\ Head(computeQ).kind = 2 =>
              computeQ = <<Kernel(2, token, l)>> /\ Tail(computeQ) = <<>>
<1>1. PICK a, b : a = Kernel(1, token, l) /\ b = Kernel(2, token, l)
  OBVIOUS
<1>5. a.kind = 1 /\ b.kind = 2
  BY <1>1 DEF Kernel
<1>2. CASE computeQ = <<a, b>>
  <2>1. Head(computeQ) = a /\ Tail(computeQ) = <<b>>
    BY <1>2
  <2>2. QED
    BY <1>1, <1>2, <1>5, <2>1
<1>3. CASE computeQ = <<b>>
  <2>1. Head(computeQ) = b /\ Tail(computeQ) = <<>>
    BY <1>3
  <2>2. QED
    BY <1>1, <1>3, <1>5, <2>1
<1>4. QED
  BY <1>1, <1>2, <1>3 DEF Kernels

(* The executor before its first token.                                    *)
LEMMA ExInitInv == ExInit => ExInv
<1> SUFFICES ASSUME ExInit
             PROVE  ExInv
  OBVIOUS
<1>1. Cardinality({}) = 0 /\ MaxUsed \in Nat /\ MaxTokens \in Nat
  BY FS_EmptySet, ExecutorAssumption
<1>2. ExType
  BY <1>1 DEF ExInit, ExType
<1>3. QED
  BY <1>2 DEF ExInit, ExInv, AheadInv, BufferInv, OutsInv

(* Every step of the executor and of its two streams keeps the invariant.  *)
LEMMA ExNextInv == ExInv /\ [ExNext]_exVars => ExInv'
<1> SUFFICES ASSUME ExInv, [ExNext]_exVars
             PROVE  ExInv'
  OBVIOUS
<1> USE DEF ExInv
<1>0. /\ MaxTokens \in Nat /\ token \in Nat /\ layer \in Nat /\ Len(outs) \in Nat
      /\ DOMAIN outs = 1..Len(outs)
  BY Layers, ExecutorAssumption DEF ExType
<1>1. CASE UploadX
  <2>1. /\ exPc = "idle" /\ computeQ = <<>> /\ copyQ = <<>> /\ token' = token + 1
        /\ layer' = 1 /\ exPc' = "block" /\ dX' = Tag(token + 1, 0) /\ token < MaxTokens
        /\ UNCHANGED <<chosen, computeQ, copyQ, inTier, outs>>
    BY <1>1 DEF UploadX, StreamsWait
  <2>2. ExType'
    BY <1>0, <2>1, Layers DEF ExType
  <2>3. DeviceRuns(1)'
    BY <2>1 DEF DeviceRuns, Kernels
  <2>4. QED
    BY <1>0, <2>1, <2>2, <2>3 DEF AheadInv, BufferInv, OutsInv
<1>2. CASE RefuseBlock
  BY <1>2 DEF RefuseBlock, ExType, AheadInv, DeviceRuns, Kernels, BufferInv, OutsInv
<1>3. CASE EnsureIds
  <2>1. PICK ids \in SUBSET Routed, n \in Nat, c \in Copied :
          /\ Cardinality(ids) <= MaxUsed /\ chosen' = ids
          /\ c = [token |-> token, layer |-> layer, why |-> "miss"]
          /\ copyQ' = copyQ \o [i \in 1..n |-> c]
          /\ \E evicted : inTier' = [inTier EXCEPT ![layer] = (@ \ evicted) \union ids]
    <3>1. PICK ids \in SUBSET Routed :
            /\ Cardinality(ids) <= MaxUsed /\ chosen' = ids
            /\ copyQ' = copyQ \o [i \in 1..Cardinality(ids \ inTier[layer]) |->
                                    [token |-> token, layer |-> layer, why |-> "miss"]]
            /\ \E evicted : inTier' = [inTier EXCEPT ![layer] = (@ \ evicted) \union ids]
      BY <1>3 DEF EnsureIds
    <3>2. Cardinality(ids \ inTier[layer]) \in Nat
      BY RoutedCount
    <3>3. [token |-> token, layer |-> layer, why |-> "miss"] \in Copied
      BY <1>0 DEF Copied
    <3>4. QED
      BY <3>1, <3>2, <3>3
  <2>2. /\ exPc = "block" /\ exPc' = "pointers"
        /\ UNCHANGED <<layer, token, dX, dH, dPtr, dW, dOut, computeQ, outs>>
    BY <1>3 DEF EnsureIds
  <2>3. /\ copyQ' \in Seq(Copied)
        /\ \A i \in DOMAIN copyQ' : copyQ'[i] = c \/ \E j \in DOMAIN copyQ : copyQ'[i] = copyQ[j]
    BY <2>1, JoinCopies DEF ExType
  <2>4. inTier' \in [Layer -> SUBSET Routed]
    BY <2>1, <2>2 DEF ExType
  <2>5. ExType'
    BY <2>1, <2>2, <2>3, <2>4 DEF ExType
  <2>6. PICK l \in Nat : DeviceRuns(l)
    BY <2>2 DEF AheadInv
  <2>7. DeviceRuns(l)'
    <3>1. c.why # "warm"
      BY <2>1
    <3>2. ASSUME NEW i \in DOMAIN copyQ', copyQ'[i].why = "warm"
          PROVE  copyQ'[i].token = token /\ copyQ'[i].layer = l
      <4>1. PICK j \in DOMAIN copyQ : copyQ'[i] = copyQ[j]
        BY <2>3, <3>1, <3>2
      <4>2. copyQ[j].token = token /\ copyQ[j].layer = l
        BY <2>6, <3>2, <4>1 DEF DeviceRuns
      <4>3. QED
        BY <4>1, <4>2
    <3>3. QED
      BY <2>2, <2>6, <3>2 DEF DeviceRuns, Kernels
  <2>8. QED
    BY <2>2, <2>5, <2>7 DEF AheadInv, BufferInv, OutsInv
<1>4. CASE UploadPointers
  BY <1>4 DEF UploadPointers, StreamsWait, ExType, AheadInv, BufferInv, OutsInv
<1>5. CASE UploadWeights
  BY <1>5 DEF UploadWeights, StreamsWait, ExType, AheadInv, BufferInv, OutsInv
<1>6. CASE LaunchBlock
  <2>1. /\ exPc = "launch" /\ computeQ = <<>> /\ copyQ = <<>>
        /\ dX = Tag(token, 0) /\ dPtr = Tag(token, layer) /\ dW = Tag(token, layer)
        /\ UNCHANGED <<layer, token, chosen, dX, dH, dPtr, dW, dOut, copyQ, inTier, outs>>
    BY <1>6 DEF LaunchBlock, AheadInv, BufferInv
  <2>2. CASE exPc' = "raised" /\ UNCHANGED computeQ
    <3>1. DeviceRuns(layer)'
      BY <2>1, <2>2 DEF DeviceRuns, Kernels
    <3>2. QED
      BY <1>0, <2>1, <2>2, <3>1 DEF ExType, AheadInv, BufferInv, OutsInv
  <2>3. CASE exPc' = "observe" /\ computeQ' # computeQ
    <3>1. computeQ' = <<Kernel(1, token, layer), Kernel(2, token, layer)>>
      <4>1. computeQ' = <<>> \o [i \in 1..2 |-> [kind |-> i, token |-> token, layer |-> layer]]
        BY <1>6, <2>1, <2>3 DEF LaunchBlock
      <4>2. [i \in 1..2 |-> [kind |-> i, token |-> token, layer |-> layer]]
              = <<Kernel(1, token, layer), Kernel(2, token, layer)>>
        BY DEF Kernel
      <4>3. QED
        BY <4>1, <4>2
    <3>2. DeviceRuns(layer)'
      BY <2>1, <3>1 DEF DeviceRuns, Kernels, Kernel
    <3>3. QED
      BY <1>0, <2>1, <2>3, <3>1, <3>2 DEF ExType, AheadInv, BufferInv, OutsInv
  <2>4. QED
    <3>1. [i \in 1..2 |-> [kind |-> i, token |-> token, layer |-> layer]]
              = <<Kernel(1, token, layer), Kernel(2, token, layer)>>
      BY DEF Kernel
    <3>2. \/ exPc' = "raised" /\ UNCHANGED computeQ
          \/ exPc' = "observe" /\ computeQ' = <<Kernel(1, token, layer), Kernel(2, token, layer)>>
      BY <1>6, <2>1, <3>1 DEF LaunchBlock
    <3>3. QED
      BY <2>1, <2>2, <2>3, <3>2
<1>7. CASE Observe
  BY <1>7 DEF Observe, ExType, AheadInv, DeviceRuns, Kernels, BufferInv, OutsInv
<1>8. CASE WarmAhead
  <2>1. PICK S \in SUBSET Routed, n \in Nat, c \in Copied :
          /\ c = [token |-> token, layer |-> layer, why |-> "warm"]
          /\ copyQ' = copyQ \o [i \in 1..n |-> c]
          /\ inTier' = [inTier EXCEPT ![layer] = @ \union S]
    <3>0. PICK cand \in Candidates(layer) : \E S \in SUBSET (cand \ inTier[layer]) :
            /\ copyQ' = copyQ \o [i \in 1..Cardinality(S) |->
                               [token |-> token, layer |-> layer, why |-> "warm"]]
            /\ inTier' = [inTier EXCEPT ![layer] = @ \union S]
      BY <1>8 DEF WarmAhead
    <3>1. PICK S \in SUBSET (cand \ inTier[layer]) :
            /\ copyQ' = copyQ \o [i \in 1..Cardinality(S) |->
                               [token |-> token, layer |-> layer, why |-> "warm"]]
            /\ inTier' = [inTier EXCEPT ![layer] = @ \union S]
      BY <3>0
    <3>2. S \in SUBSET Routed
      BY <3>1 DEF Candidates
    <3>3. Cardinality(S) \in Nat
      BY <3>2, RoutedCount
    <3>4. [token |-> token, layer |-> layer, why |-> "warm"] \in Copied
      BY <1>0 DEF Copied
    <3>5. QED
      BY <3>1, <3>2, <3>3, <3>4
  <2>2. /\ exPc = "warm" /\ copyQ = <<>> /\ DeviceRuns(layer)
        /\ computeQ = <<>> => dOut = BlockOut(token, layer)
        /\ UNCHANGED <<token, chosen, dX, dH, dPtr, dW, dOut, computeQ, outs>>
        /\ \/ layer + 1 \in Layer /\ exPc' = "block" /\ layer' = layer + 1
           \/ layer + 1 \notin Layer /\ exPc' = "download" /\ layer' = layer
    BY <1>8 DEF WarmAhead, AheadInv
  <2>3. /\ copyQ' \in Seq(Copied)
        /\ \A i \in DOMAIN copyQ' : copyQ'[i] = c
    BY <2>1, <2>2, JoinCopies DEF ExType
  <2>4. inTier' \in [Layer -> SUBSET Routed]
    BY <2>1, <2>2 DEF ExType
  <2>5. ExType'
    BY <2>2, <2>3, <2>4 DEF ExType
  <2>6. PICK l \in Nat : l = layer /\ DeviceRuns(l)
    BY <1>0, <2>2
  <2>7. DeviceRuns(l)'
    BY <2>1, <2>2, <2>3, <2>6 DEF DeviceRuns, Kernels
  <2>8. AheadInv'
    BY <2>2, <2>6, <2>7 DEF AheadInv
  <2>9. OutsInv'
    <3>1. exPc' = "download" => layer' = Cardinality(Layer)
      BY <1>0, <2>2, Layers DEF ExType
    <3>2. QED
      BY <2>2, <3>1 DEF OutsInv
  <2>10. QED
    BY <2>2, <2>5, <2>8, <2>9 DEF BufferInv
<1>9. CASE DownloadOut
  <2>1. /\ exPc = "download" /\ exPc' = "idle" /\ computeQ = <<>> /\ copyQ = <<>>
        /\ outs' = Append(outs, dOut) /\ dOut = BlockOut(token, Cardinality(Layer))
        /\ UNCHANGED <<layer, token, chosen, inTier, computeQ, copyQ>>
        /\ Len(outs) = token - 1
    BY <1>9 DEF DownloadOut, StreamsWait, AheadInv, OutsInv
  <2>2. PICK b \in {BlockOut(t, Cardinality(Layer)) : t \in Nat} :
          b = dOut /\ b = BlockOut(token, Cardinality(Layer))
    BY <1>0, <2>1
  <2>3. /\ outs' \in Seq({BlockOut(t, Cardinality(Layer)) : t \in Nat})
        /\ Len(outs') = Len(outs) + 1
        /\ \A i \in 1..Len(outs) : outs'[i] = outs[i]
        /\ outs'[Len(outs) + 1] = b
    BY <2>1, <2>2, AppendProperties DEF ExType
  <2>4. Len(outs') = token /\ DOMAIN outs' = 1..token
    BY <1>0, <2>1, <2>3
  <2>5. \A t \in DOMAIN outs' : outs'[t] = BlockOut(t, Cardinality(Layer))
    BY <1>0, <2>1, <2>2, <2>3, <2>4 DEF OutsInv
  <2>6. QED
    BY <2>1, <2>3, <2>4, <2>5 DEF ExType, AheadInv, BufferInv, OutsInv
<1>10. CASE GateUp
  <2>1. /\ computeQ # <<>> /\ Head(computeQ).kind = 1 /\ computeQ' = Tail(computeQ)
        /\ dH' = [x |-> dX, gateUp |-> dPtr]
        /\ UNCHANGED <<exPc, layer, token, chosen, dX, dPtr, dW, dOut, copyQ, inTier, outs>>
    BY <1>10 DEF GateUp
  <2>2. ASSUME NEW l \in Nat, DeviceRuns(l)
        PROVE  DeviceRuns(l)' /\ computeQ' # <<>>
    <3>1. computeQ' = <<Kernel(2, token, l)>>
      BY <2>1, <2>2, KernelRuns DEF DeviceRuns
    <3>2. computeQ' \in Kernels(l)' /\ computeQ' # <<>>
      <4>1. <<Kernel(2, token, l)>> # <<>>
        OBVIOUS
      <4>2. QED
        BY <2>1, <3>1, <4>1 DEF Kernels
    <3>3. dH' = [x |-> Tag(token, 0), gateUp |-> Tag(token, l)]
      BY <2>1, <2>2 DEF DeviceRuns
    <3>4. QED
      BY <2>1, <2>2, <3>2, <3>3 DEF DeviceRuns
  <2>3. AheadInv'
    BY <1>0, <2>1, <2>2 DEF AheadInv
  <2>4. QED
    BY <2>1, <2>3 DEF ExType, BufferInv, OutsInv
<1>11. CASE Down
  <2>1. /\ computeQ # <<>> /\ Head(computeQ).kind = 2 /\ computeQ' = Tail(computeQ)
        /\ dOut' = [h |-> dH, down |-> dPtr, weights |-> dW]
        /\ UNCHANGED <<exPc, layer, token, chosen, dX, dH, dPtr, dW, copyQ, inTier, outs>>
    BY <1>11 DEF Down
  <2>2. ASSUME NEW l \in Nat, DeviceRuns(l)
        PROVE  DeviceRuns(l)' /\ computeQ' = <<>> /\ dOut' = BlockOut(token, l)
    <3>1. computeQ = <<Kernel(2, token, l)>> /\ computeQ' = <<>>
      BY <2>1, <2>2, KernelRuns DEF DeviceRuns
    <3>2. DeviceRuns(l)'
      BY <2>1, <2>2, <3>1 DEF DeviceRuns, Kernels
    <3>3. dOut' = BlockOut(token, l)
      BY <2>1, <2>2, <3>1 DEF DeviceRuns, BlockOut
    <3>4. QED
      BY <3>1, <3>2, <3>3
  <2>3. AheadInv'
    BY <1>0, <2>1, <2>2 DEF AheadInv
  <2>4. QED
    BY <2>1, <2>3 DEF ExType, BufferInv, OutsInv
<1>12. CASE ExpertCopied
  <2>1. /\ copyQ # <<>> /\ copyQ' = Tail(copyQ)
        /\ UNCHANGED <<exPc, layer, token, chosen, dX, dH, dPtr, dW, dOut, computeQ, inTier, outs>>
    BY <1>12 DEF ExpertCopied
  <2>2. /\ copyQ' \in Seq(Copied)
        /\ \A i \in DOMAIN copyQ' : \E j \in DOMAIN copyQ : copyQ'[i] = copyQ[j]
    <3>1. /\ copyQ' \in Seq(Copied) /\ Len(copyQ') = Len(copyQ) - 1
          /\ \A i \in 1..Len(copyQ') : copyQ'[i] = copyQ[i + 1]
      BY <2>1, HeadTailProperties DEF ExType
    <3>2. \A i \in 1..Len(copyQ') : i + 1 \in DOMAIN copyQ
      BY <3>1 DEF ExType
    <3>3. DOMAIN copyQ' = 1..Len(copyQ')
      BY <3>1
    <3>4. QED
      BY <3>1, <3>2, <3>3
  <2>3. ASSUME NEW l \in Nat, DeviceRuns(l)
        PROVE  DeviceRuns(l)'
    BY <2>1, <2>2, <2>3 DEF DeviceRuns, Kernels
  <2>4. QED
    BY <1>0, <2>1, <2>2, <2>3 DEF ExType, AheadInv, BufferInv, OutsInv
<1>13. CASE UNCHANGED exVars
  BY <1>13 DEF exVars, ExType, AheadInv, DeviceRuns, Kernels, BufferInv, OutsInv
<1>14. QED
  BY <1>1, <1>2, <1>3, <1>4, <1>5, <1>6, <1>7, <1>8, <1>9, <1>10, <1>11, <1>12, <1>13
     DEF ExNext, RunsBlock, Streams

(* Every block runs with its own pointers and weights and every output is  *)
(* of its own token, although all blocks use one set of device buffers and *)
(* the host runs ahead of the device, with copies queued as advice.        *)
THEOREM BlocksAreAlwaysExact == ExSpec => []BlocksAreExact
<1>1. ExInv => BlocksAreExact
  <2> SUFFICES ASSUME ExInv
               PROVE  BlocksAreExact
    OBVIOUS
  <2> USE DEF ExInv
  <2>1. PICK l : DeviceRuns(l)
    <3>1. computeQ = <<>> /\ copyQ = <<>> => DeviceRuns(0)
      BY DEF DeviceRuns, Kernels
    <3>2. QED
      BY <3>1 DEF AheadInv, ExType
  <2>2. ExTypeOK
    <3>1. Len(computeQ) <= 2
      <4>1. PICK a, b : computeQ \in {<<>>, <<a, b>>, <<b>>}
        BY <2>1 DEF DeviceRuns, Kernels
      <4>2. Len(<<>>) = 0 /\ Len(<<a, b>>) = 2 /\ Len(<<b>>) = 1
        OBVIOUS
      <4>3. computeQ = <<>> \/ computeQ = <<a, b>> \/ computeQ = <<b>>
        BY <4>1
      <4>4. PICK n \in {0, 1, 2} : n = Len(computeQ)
        BY <4>2, <4>3, Zenon
      <4>5. n <= 2
        OBVIOUS
      <4>6. QED
        BY <4>4, <4>5, Zenon
    <3>2. QED
      BY <3>1 DEF ExType, ExTypeOK
  <2>3. BuffersAreTheirBlocks
    BY <2>1 DEF BuffersAreTheirBlocks, DeviceRuns, Kernels, Kernel
  <2>4. OutputIsExact
    BY DEF OutsInv, OutputIsExact, BlockOut, Tag
  <2>5. QED
    BY <2>2, <2>3, <2>4 DEF BlocksAreExact
<1>2. QED
  BY <1>1, ExInitInv, ExNextInv, PTL DEF ExSpec

-----------------------------------------------------------------------------
(* Proxy.                                                                  *)

Part == {"head", "data", "end", "error"}

(* The head of an answer and some of its data.                             *)
Body(a) == a # <<>> /\ a[1] = "head" /\ \A i \in 2..Len(a) : a[i] = "data"

(* An answer that looks complete is.                                       *)
Honest(a, v) ==
  /\ a # <<>> /\ a[Len(a)] = "end" =>
       v = "ended" /\ a[1] = "head" /\ \A i \in 2..Len(a) - 1 : a[i] = "data"
  /\ \A i \in 1..Len(a) - 1 : a[i] \notin {"end", "error"}

AnswersInv ==
  /\ req \in [Client -> {"idle", "open", "stream", "done"}]
  /\ via \in [Client -> {"sized", "chunked", "ended"}]
  /\ answer \in [Client -> Seq(Part)]
  /\ \A c \in Client :
       /\ req[c] \in {"idle", "open"} => answer[c] = <<>>
       /\ req[c] = "stream" => Body(answer[c]) /\ via[c] = "chunked"
       /\ Honest(answer[c], via[c])

(* What the server and its backend are, and what /health was told.         *)
ServerInv ==
  /\ srv \in {"start", "launch", "wait", "serving", "stopping", "gone"}
  /\ backend \in {"none", "loading", "ready", "dead"}
  /\ srv \in {"start", "launch"} => told = NotTold /\ ~statusPath /\ backend = "none"
  /\ kind = "reference" => ~statusPath /\ told.counters = "null"
  /\ statusFile \in {"none", "old", "torn", "own"}
  /\ ~squatter => told.counters \in {"null", "own"} /\ (statusPath => statusFile # "old")
  /\ srv = "serving" /\ ~squatter => backend \in {"ready", "dead"}
  /\ srv = "gone" => backend \in {"none", "dead"}

(* One more part after a body, and nothing after one.                      *)
LEMMA BodyGrows ==
  ASSUME NEW a \in Seq(Part), Body(a), NEW p \in Part, NEW v
  PROVE  /\ a \o <<>> = a /\ Honest(a, v)
         /\ a \o <<p>> \in Seq(Part)
         /\ p = "data" => Body(a \o <<p>>)
         /\ (p = "end" => v = "ended") => Honest(a \o <<p>>, v)
<1>1. <<p>> \in Seq(Part) /\ Len(<<p>>) = 1 /\ <<p>>[1] = p
  OBVIOUS
<1>2. PICK b : b = a \o <<p>>
  OBVIOUS
<1>3. PICK n \in Nat : n = Len(a)
  OBVIOUS
<1>4. /\ b \in Seq(Part) /\ Len(b) = n + 1
      /\ \A i \in 1..n + 1 : b[i] = IF i <= n THEN a[i] ELSE <<p>>[i - n]
  BY <1>1, <1>2, <1>3, ConcatProperties
<1>5. n >= 1
  BY <1>3, EmptySeq DEF Body
<1>6. b[n + 1] = p /\ \A i \in 1..n : b[i] = a[i]
  <2>1. b[n + 1] = p
    BY <1>1, <1>4
  <2>2. QED
    BY <1>4, <2>1
<1>7. b # <<>>
  BY <1>4
<1>8. b[1] = "head" /\ \A i \in 2..n : b[i] = "data"
  BY <1>3, <1>5, <1>6 DEF Body
<1>9. p = "data" => Body(b)
  <2>1. \A i \in 2..Len(b) : i \in 2..n \/ i = n + 1
    BY <1>4
  <2>2. QED
    BY <1>6, <1>7, <1>8, <2>1 DEF Body
<1>10. \A i \in 1..n : b[i] \in {"head", "data"}
  <2>1. \A i \in 1..n : i = 1 \/ i \in 2..n
    OBVIOUS
  <2>2. QED
    BY <1>8, <2>1
<1>11. (p = "end" => v = "ended") => Honest(b, v)
  <2>1. Len(b) - 1 = n /\ b[Len(b)] = p
    BY <1>4, <1>6
  <2>2. QED
    BY <1>8, <1>10, <2>1 DEF Honest
<1>12. Honest(a, v)
  <2>1. \A i \in 1..n : a[i] \in {"head", "data"}
    BY <1>6, <1>10
  <2>2. QED
    BY <1>3, <1>5, <2>1 DEF Honest
<1>13. a \o <<>> = a
  BY ConcatEmptySeq
<1>14. QED
  BY <1>2, <1>4, <1>9, <1>11, <1>12, <1>13

(* The answers that come whole, and none at all.                           *)
LEMMA WholeAnswers ==
  /\ \A v : Honest(<<>>, v) /\ Honest(<<"error">>, v)
  /\ Honest(<<"head", "data", "end">>, "ended")
  /\ Body(<<"head">>)
<1>1. \A v : Honest(<<>>, v)
  BY DEF Honest
<1>2. \A v : Honest(<<"error">>, v)
  BY DEF Honest
<1>3. Honest(<<"head", "data", "end">>, "ended")
  BY DEF Honest
<1>4. Body(<<"head">>)
  BY DEF Body
<1>5. QED
  BY <1>1, <1>2, <1>3, <1>4

(* A thread that says something says it to its own client.                 *)
LEMMA SaysOne ==
  ASSUME AnswersInv, NEW c \in Client, NEW what \in Seq(Part),
         NEW next \in {"stream", "done"},
         Says(c, what, next), via' \in [Client -> {"sized", "chunked", "ended"}],
         \A d \in Client : d # c => via'[d] = via[d],
         answer[c] \o what \in Seq(Part), Honest(answer[c] \o what, via'[c]),
         next = "stream" => Body(answer[c] \o what) /\ via'[c] = "chunked"
  PROVE  AnswersInv'
<1>1. PICK a \in Seq(Part) : a = answer[c] \o what
  OBVIOUS
<1>2. /\ req' = [req EXCEPT ![c] = next] /\ answer' = [answer EXCEPT ![c] = a]
  BY <1>1 DEF Says
<1>3. /\ req' \in [Client -> {"idle", "open", "stream", "done"}]
      /\ answer' \in [Client -> Seq(Part)]
      /\ req'[c] = next /\ answer'[c] = a
      /\ \A d \in Client : d # c => req'[d] = req[d] /\ answer'[d] = answer[d]
  BY <1>2 DEF AnswersInv
<1>4. ASSUME NEW d \in Client
      PROVE  /\ req'[d] \in {"idle", "open"} => answer'[d] = <<>>
             /\ req'[d] = "stream" => Body(answer'[d]) /\ via'[d] = "chunked"
             /\ Honest(answer'[d], via'[d])
  <2>1. CASE d = c
    BY <1>1, <1>3, <2>1
  <2>2. CASE d # c
    BY <1>3, <2>2 DEF AnswersInv
  <2>3. QED
    BY <2>1, <2>2
<1>5. QED
  BY <1>3, <1>4 DEF AnswersInv

(* What a client's own request does to the answers.                        *)
LEMMA ClientStep ==
  ASSUME AnswersInv, NEW c \in Client,
         Handle(c) \/ ClientGone(c) \/ \E v \in {"sized", "chunked"} : Forward(c, v)
  PROVE  AnswersInv'
<1>0. /\ answer[c] \in Seq(Part) /\ DOMAIN via = Client
      /\ <<>> \in Seq(Part) /\ <<"error">> \in Seq(Part) /\ <<"head">> \in Seq(Part)
      /\ <<"data">> \in Seq(Part) /\ <<"end">> \in Seq(Part)
      /\ <<"head", "data", "end">> \in Seq(Part)
  BY DEF AnswersInv, Part
<1>1. \A w \in Seq(Part) : <<>> \o w = w
  BY ConcatEmptySeq
<1>v. via \in [Client -> {"sized", "chunked", "ended"}]
  BY DEF AnswersInv
(* Nothing more, or an error, to a client that had nothing.                *)
<1>n. ASSUME NEW w \in {<<>>, <<"error">>}, req[c] \in {"idle", "open"},
             Says(c, w, "done"), via' = via
      PROVE  AnswersInv'
  <2>1. answer[c] = <<>>
    BY <1>n DEF AnswersInv
  <2>2. answer[c] \o w = w /\ w \in Seq(Part) /\ Honest(w, via'[c])
    BY <1>0, <1>1, <1>n, <2>1, WholeAnswers
  <2>3. QED
    BY <1>n, <1>v, <2>2, SaysOne
(* Nothing more, or one part, to a client that has a body.                 *)
<1>b. ASSUME req[c] = "stream"
      PROVE  /\ \A v : Honest(answer[c] \o <<>>, v) /\ answer[c] \o <<>> \in Seq(Part)
             /\ \A p \in Part : answer[c] \o <<p>> \in Seq(Part)
             /\ \A v : Honest(answer[c] \o <<"error">>, v)
             /\ \A v : Honest(answer[c] \o <<"data">>, v)
             /\ Honest(answer[c] \o <<"end">>, "ended")
             /\ Body(answer[c] \o <<"data">>)
  <2>1. Body(answer[c]) /\ {"error", "data", "end"} \subseteq Part
    BY <1>b DEF AnswersInv, Part
  <2>2. PICK a \in Seq(Part) : a = answer[c]
    BY <1>0
  <2>3. \A v : a \o <<>> = a /\ Honest(a, v) /\ \A p \in Part : a \o <<p>> \in Seq(Part)
    BY <2>1, <2>2, BodyGrows
  <2>4. \A v : Honest(a \o <<"error">>, v) /\ Honest(a \o <<"data">>, v)
    BY <2>1, <2>2, BodyGrows
  <2>5. Honest(a \o <<"end">>, "ended") /\ Body(a \o <<"data">>)
    BY <2>1, <2>2, BodyGrows
  <2>6. QED
    BY <2>2, <2>3, <2>4, <2>5
<1>2. ASSUME NEW v \in {"sized", "chunked"}, Forward(c, v)
      PROVE  AnswersInv'
  <2>1. CASE Upstream
    <3>1. /\ req[c] = "idle" /\ req' = [req EXCEPT ![c] = "open"]
          /\ via' = [via EXCEPT ![c] = v] /\ answer' = answer
      BY <1>2, <2>1 DEF Forward
    <3>2. answer[c] = <<>>
      BY <3>1 DEF AnswersInv
    <3>3. QED
      BY <3>1, <3>2, WholeAnswers DEF AnswersInv
  <2>2. CASE ~Upstream
    BY <1>2, <1>n, <2>2 DEF Forward
  <2>3. QED
    BY <2>1, <2>2
<1>3. CASE InOneRead(c)
  <2>1. CASE /\ via' = [via EXCEPT ![c] = "ended"]
             /\ Says(c, <<"head", "data", "end">>, "done")
    <3>1. req[c] = "open" /\ answer[c] = <<>>
      BY <1>3 DEF InOneRead, AnswersInv
    <3>2. answer[c] \o <<"head", "data", "end">> = <<"head", "data", "end">>
      BY <1>0, <1>1, <3>1
    <3>3. /\ via' \in [Client -> {"sized", "chunked", "ended"}] /\ via'[c] = "ended"
          /\ \A d \in Client : d # c => via'[d] = via[d]
      BY <1>v, <2>1
    <3>4. QED
      BY <1>0, <2>1, <3>2, <3>3, WholeAnswers, SaysOne
  <2>2. CASE via' = via /\ (Says(c, <<"error">>, "done") \/ Says(c, <<>>, "done"))
    <3>1. req[c] = "open"
      BY <1>3 DEF InOneRead
    <3>2. QED
      BY <1>n, <2>2, <3>1
  <2>3. QED
    BY <1>3, <2>1, <2>2 DEF InOneRead
<1>4. CASE StreamHead(c)
  <2>1. /\ req[c] = "open" /\ via[c] = "chunked" /\ via' = via
        /\ Says(c, <<"head">>, "stream") /\ answer[c] = <<>>
    BY <1>4 DEF StreamHead, AnswersInv
  <2>2. answer[c] \o <<"head">> = <<"head">>
    BY <1>0, <1>1, <2>1
  <2>3. Honest(<<"head">>, via'[c])
    BY <1>0, WholeAnswers, BodyGrows DEF Part
  <2>4. QED
    BY <1>0, <1>v, <2>1, <2>2, <2>3, WholeAnswers, SaysOne
<1>5. CASE StreamChunk(c)
  <2>1. /\ req[c] = "stream" /\ via[c] = "chunked" /\ via' = via
        /\ Says(c, <<"data">>, "stream")
    BY <1>5 DEF StreamChunk, AnswersInv
  <2>2. "data" \in Part
    BY DEF Part
  <2>3. QED
    BY <1>0, <1>v, <1>b, <2>1, <2>2, SaysOne
<1>6. CASE StreamEnd(c)
  <2>1. /\ req[c] = "stream" /\ via' = [via EXCEPT ![c] = "ended"]
        /\ Says(c, <<"end">>, "done")
    BY <1>6 DEF StreamEnd
  <2>2. /\ via' \in [Client -> {"sized", "chunked", "ended"}] /\ via'[c] = "ended"
        /\ \A d \in Client : d # c => via'[d] = via[d]
    BY <1>v, <2>1
  <2>3. "end" \in Part
    BY DEF Part
  <2>4. QED
    BY <1>0, <1>b, <2>1, <2>2, <2>3, SaysOne
<1>7. CASE StreamBreaks(c)
  <2>1. req[c] = "stream" /\ via' = via
        /\ (Says(c, <<"error">>, "done") \/ Says(c, <<>>, "done"))
    BY <1>7 DEF StreamBreaks
  <2>2. "error" \in Part
    BY DEF Part
  <2>3. QED
    BY <1>0, <1>v, <1>b, <2>1, <2>2, SaysOne
<1>8. CASE ClientGone(c)
  <2>1. req[c] \in {"open", "stream"} /\ via' = via /\ Says(c, <<>>, "done")
    BY <1>8 DEF ClientGone
  <2>2. CASE req[c] = "open"
    BY <1>n, <2>1, <2>2
  <2>3. CASE req[c] = "stream"
    BY <1>0, <1>v, <1>b, <2>1, <2>3, SaysOne
  <2>4. QED
    BY <2>1, <2>2, <2>3
<1>9. QED
  BY <1>2, <1>3, <1>4, <1>5, <1>6, <1>7, <1>8 DEF Handle

(* Every step of the proxy, the backend and the clients.                   *)
LEMMA ProxyNextInv == AnswersInv /\ ServerInv /\ [ProxyNext]_proxyVars => (AnswersInv /\ ServerInv)'
<1> SUFFICES ASSUME AnswersInv, ServerInv, [ProxyNext]_proxyVars
             PROVE  AnswersInv' /\ ServerInv'
  OBVIOUS
<1>a. ASSUME UNCHANGED proxyClients
      PROVE  AnswersInv'
  BY <1>a DEF proxyClients, AnswersInv
<1>1. ASSUME NEW k \in {"sabah", "reference"}, NEW other \in BOOLEAN, NEW file \in {"none", "old"},
             ServeReady(k, other, file)
      PROVE  AnswersInv' /\ ServerInv'
  BY <1>1, <1>a DEF ServeReady, ServerInv, NotTold
<1>2. CASE ServeRefuses \/ BackendUp \/ BackendNotUp \/ ServeInterrupted
  BY <1>2, <1>a DEF ServeRefuses, BackendUp, BackendNotUp, ServeInterrupted, HealthAnswers200, ServerInv
<1>3. CASE Launch
  BY <1>3, <1>a DEF Launch, ServerInv, NotTold
<1>4. CASE StopBackend
  <2>1. ServerInv'
    BY <1>4 DEF StopBackend, ServerInv
  <2>2. /\ UNCHANGED <<via, answer>>
        /\ req' \in [Client -> {"idle", "open", "stream", "done"}]
        /\ \A c \in Client : req'[c] = (IF req[c] = "idle" THEN "idle" ELSE "done")
    BY <1>4 DEF StopBackend
  <2>3. QED
    BY <2>1, <2>2 DEF AnswersInv
<1>5. CASE BackendLoads \/ BackendDies \/ WriteStatus \/ SquatterWrites
  BY <1>5, <1>a DEF BackendLoads, BackendDies, WriteStatus, SquatterWrites, ServerInv
<1>6. CASE Health
  <2>1. told'.counters = Counters
    BY <1>6 DEF Health
  <2>2. QED
    BY <1>6, <1>a, <2>1 DEF Health, Counters, ServerInv
<1>7. ASSUME NEW c \in Client,
             Handle(c) \/ ClientGone(c) \/ \E v \in {"sized", "chunked"} : Forward(c, v)
      PROVE  AnswersInv' /\ ServerInv'
  <2>1. UNCHANGED proxyServer
    BY <1>7 DEF Handle, InOneRead, StreamHead, StreamChunk, StreamEnd, StreamBreaks, ClientGone, Forward
  <2>2. ServerInv'
    BY <2>1 DEF proxyServer, ServerInv
  <2>3. QED
    BY <1>7, <2>2, ClientStep
<1>8. CASE UNCHANGED proxyVars
  BY <1>8, <1>a DEF proxyVars, proxyServer, ServerInv
<1>9. QED
  BY <1>1, <1>2, <1>3, <1>4, <1>5, <1>6, <1>7, <1>8 DEF ProxyNext

(* Whatever breaks, an answer that a client takes for complete is the      *)
(* backend's whole answer or one 502, the counters shown are this          *)
(* backend's, clients are served from a loaded model, and no way out of    *)
(* serve leaves the backend running.                                       *)
THEOREM ProxyStaysTruthful == ProxySpec => []ProxyIsTruthful
<1>1. ProxyInit => AnswersInv /\ ServerInv
  BY WholeAnswers, EmptySeq DEF ProxyInit, AnswersInv, ServerInv, NotTold
<1>2. AnswersInv /\ ServerInv => ProxyIsTruthful
  BY DEF AnswersInv, ServerInv, Honest, ProxyIsTruthful, ProxyTypeOK, CompleteIsWhole,
         CountersAreOurs, ServesLoadedModel, GoneMeansStopped
<1>3. QED
  BY <1>1, <1>2, ProxyNextInv, PTL DEF ProxySpec

-----------------------------------------------------------------------------
(* Ngram.                                                                  *)

(* What quotient and remainder are.                                        *)
LEMMA Division ==
  ASSUME NEW d \in Nat \ {0}, NEW a \in Int
  PROVE  a % d \in 0..d - 1 /\ a \div d \in Int /\ a = d * (a \div d) + (a % d)
OBVIOUS

(* One product at a time is all the arithmetic of rows and pages needs.    *)
LEMMA Products ==
  ASSUME NEW d \in Nat \ {0}, NEW a \in Int, NEW b \in Int
  PROVE  /\ a * d \in Int /\ (a + 1) * d = a * d + d
         /\ a < b => a * d < b * d
         /\ a <= b => a * d <= b * d
<1>1. (a + 1) * d = a * d + d
  OBVIOUS
<1>2. b * d - a * d = (b - a) * d
  OBVIOUS
<1>3. b - a >= 1 => (b - a) * d >= d
  OBVIOUS
<1>4. a < b => a * d < b * d
  BY <1>2, <1>3
<1>5. QED
  BY <1>1, <1>4

(* The page of a byte.                                                     *)
LEMMA PageOf ==
  ASSUME NEW d \in Nat \ {0}, NEW x \in Nat
  PROVE  /\ x \div d \in Nat /\ (x \div d) * d <= x /\ x < (x \div d + 1) * d
         /\ \A p \in Int : p * d <= x => p <= x \div d
<1>1. PICK q \in Int, r \in 0..d - 1 : q = x \div d /\ r = x % d /\ x = d * q + r
  BY Division
<1>2. q >= 0
  <2>1. CASE q <= -1
    <3>1. d * q <= -d
      BY <2>1
    <3>2. QED
      BY <1>1, <3>1
  <2>2. QED
    BY <2>1
<1>3. q * d <= x /\ x < (q + 1) * d
  BY <1>1, Products
<1>4. ASSUME NEW p \in Int, p * d <= x
      PROVE  p <= q
  <2>1. CASE p >= q + 1
    <3>1. (q + 1) * d <= p * d
      BY <2>1, Products
    <3>2. QED
      BY <1>3, <1>4, <3>1, Products
  <2>2. QED
    BY <2>1
<1>5. QED
  BY <1>1, <1>2, <1>3, <1>4

(* Addresses rounded to pages.                                             *)
LEMMA Rounding ==
  ASSUME NEW x \in Nat
  PROVE  /\ DownToPage(x) \in Nat /\ DownToPage(x) <= x /\ DownToPage(x) % Page = 0
         /\ UpToPage(x) \in Int /\ x <= UpToPage(x)
<1>1. PICK d \in Nat \ {0} : d = Page
  BY NgramAssumption
<1>2. PICK q \in Int, r \in 0..d - 1 : q = x \div d /\ r = x % d /\ x = d * q + r
  BY Division
<1>3. q >= 0 /\ d * q \in Nat /\ x - r = d * q
  <2>1. q \in Nat
    BY <1>2, PageOf
  <2>2. QED
    BY <1>2, <2>1
<1>4. PICK y \in Nat : y = d * q
  BY <1>3
<1>5. y % d = 0
  <2>1. PICK p \in Int, s \in 0..d - 1 : p = y \div d /\ s = y % d /\ y = d * p + s
    BY Division
  <2>2. d * (q - p) = s
    BY <1>4, <2>1
  <2>3. q - p >= 1 => d * (q - p) >= d
    OBVIOUS
  <2>4. q - p <= -1 => d * (q - p) <= -d
    OBVIOUS
  <2>5. q = p
    BY <2>2, <2>3, <2>4
  <2>6. QED
    BY <2>1, <2>2, <2>5
<1>6. DownToPage(x) = y
  BY <1>1, <1>2, <1>3, <1>4 DEF DownToPage
<1>7. /\ UpToPage(x) \in Int /\ x <= UpToPage(x)
  <2>1. PICK p \in Int, s \in 0..d - 1 : p = (x + d - 1) \div d /\ x + d - 1 = d * p + s
    <3>1. PICK z \in Int : z = x + d - 1
      OBVIOUS
    <3>2. QED
      BY <3>1, Division
  <2>2. p * d >= x /\ p * d \in Int
    BY <2>1
  <2>3. UpToPage(x) = p * d
    BY <1>1, <2>1 DEF UpToPage
  <2>4. QED
    BY <2>2, <2>3
<1>8. QED
  BY <1>1, <1>2, <1>3, <1>4, <1>5, <1>6, <1>7

(* The rows lie in the mapping one after the other.                        *)
LEMMA RowBytesAre ==
  ASSUME NEW i \in 0..Rows, NEW j \in 0..Rows
  PROVE  /\ RowLo(i) \in Nat /\ RowLo(i) <= MapBytes
         /\ i < j => RowLo(i) < RowLo(j)
         /\ i <= j => RowLo(i) <= RowLo(j)
<1>1. PICK d \in Nat \ {0}, n \in Nat, t \in Nat, m \in Nat :
        d = RowBytes /\ n = Rows /\ t = TableAt /\ m = MapBytes /\ t + n * d <= m
  BY NgramAssumption
<1>2. i \in Nat /\ j \in Nat /\ i <= n
  BY <1>1
<1>3. 0 * d <= i * d /\ i * d <= n * d /\ 0 * d = 0
  BY <1>1, <1>2, Products
<1>4. (i < j => i * d < j * d) /\ (i <= j => i * d <= j * d)
  BY <1>1, <1>2, Products
<1>5. RowLo(i) = t + i * d /\ RowLo(j) = t + j * d
  BY <1>1 DEF RowLo
<1>6. i * d \in Int /\ j * d \in Int /\ n * d \in Int
  BY <1>1, <1>2
<1>7. QED
  BY <1>1, <1>3, <1>4, <1>5, <1>6

(* A run of rows: where its pages begin and end.                           *)
LEMMA RunIs ==
  ASSUME NEW S \in SUBSET (0..Rows - 1), NEW run \in Runs(S)
  PROVE  /\ run[1] \in Nat /\ run[2] \in Nat \ {0} /\ run[1] + run[2] <= MapBytes
         /\ run[1] % Page = 0
<1>1. PICK r \in RowRuns(S) :
        LET lo == DownToPage(RowLo(r[1]))
            hi == UpToPage(RowLo(r[1] + r[2]))
        IN  run = <<lo, (IF hi < MapBytes THEN hi ELSE MapBytes) - lo>> /\ run[1] < MapBytes
  BY DEF Runs
<1>2. PICK a \in S, b \in S : a <= b /\ r = <<a, b - a + 1>>
  BY DEF RowRuns
<1>3. PICK n \in Nat : n = Rows
  BY NgramAssumption
<1>4. a \in 0..Rows /\ b + 1 \in 0..Rows /\ a < b + 1 /\ r[1] = a /\ r[1] + r[2] = b + 1
  BY <1>2, <1>3
<1>5. PICK x \in Nat, y \in Nat : x = RowLo(a) /\ y = RowLo(b + 1) /\ x < y
  <2>1. RowLo(a) \in Nat /\ RowLo(b + 1) \in Nat /\ RowLo(a) < RowLo(b + 1)
    BY <1>4, RowBytesAre
  <2>2. QED
    BY <2>1
<1>6. PICK lo \in Nat, hi \in Int : /\ lo = DownToPage(x) /\ hi = UpToPage(y)
                                    /\ lo <= x /\ y <= hi /\ lo % Page = 0
  BY Rounding
<1>7. PICK m \in Nat : m = MapBytes
  BY NgramAssumption
<1>8. run = <<lo, (IF hi < m THEN hi ELSE m) - lo>> /\ lo < m
  BY <1>1, <1>4, <1>5, <1>6, <1>7
<1>9. QED
  BY <1>5, <1>6, <1>7, <1>8

(* The least element of a set of naturals, and the greatest below a bound. *)
LEMMA Least ==
  ASSUME NEW T \in SUBSET Nat, T # {}
  PROVE  \E x \in T : \A y \in T : x <= y
<1>1. PICK x \in T : \A y \in T : ~ (<<y, x>> \in OpToRel(<, Nat))
  BY WFMin, NatLessThanWellFounded
<1>2. \A y \in T : ~ (y < x)
  BY <1>1 DEF OpToRel
<1>3. QED
  BY <1>2

(* A bounded set of numbers that is not empty has a greatest one.          *)
LEMMA Greatest ==
  ASSUME NEW n \in Nat, NEW T \in SUBSET (0..n), T # {}
  PROVE  \E x \in T : \A y \in T : y <= x
<1>1. PICK z \in {n - y : y \in T} : \A w \in {n - y : y \in T} : z <= w
  <2>1. {n - y : y \in T} \in SUBSET Nat
    <3>1. \A y \in T : n - y \in Nat
      OBVIOUS
    <3>2. QED
      BY <3>1
  <2>3. {n - y : y \in T} # {}
    OBVIOUS
  <2>2. QED
    BY <2>1, <2>3, Least
<1>2. PICK x \in T : z = n - x
  OBVIOUS
<1>3. ASSUME NEW y \in T
      PROVE  y <= x
  <2>1. n - x <= n - y
    BY <1>1, <1>2
  <2>2. QED
    BY <2>1
<1>4. QED
  BY <1>3

(* Each row of a set is in one of its runs.                                *)
LEMMA RowIsInARun ==
  ASSUME NEW S \in SUBSET (0..Rows - 1), NEW i \in S
  PROVE  \E a, b \in S : a <= i /\ i <= b /\ <<a, b - a + 1>> \in RowRuns(S)
<1>1. PICK n \in Nat : n = Rows - 1
  BY NgramAssumption
<1>2. S \in SUBSET (0..n) /\ S \in SUBSET Nat /\ i \in Nat
  BY <1>1
<1>3. i..i \subseteq S
  BY <1>2
<1>4. PICK a \in S : a <= i /\ a..i \subseteq S /\ \A y \in S : y <= i /\ y..i \subseteq S => a <= y
  <2>1. {y \in S : y <= i /\ y..i \subseteq S} # {}
    BY <1>2, <1>3
  <2>2. PICK a \in {y \in S : y <= i /\ y..i \subseteq S} :
          \A y \in {z \in S : z <= i /\ z..i \subseteq S} : a <= y
    BY <1>2, <2>1, Least
  <2>3. QED
    BY <2>2
<1>5. PICK b \in S : i <= b /\ i..b \subseteq S /\ \A y \in S : i <= y /\ i..y \subseteq S => y <= b
  <2>1. {y \in S : i <= y /\ i..y \subseteq S} # {}
    BY <1>2, <1>3
  <2>2. PICK b \in {y \in S : i <= y /\ i..y \subseteq S} :
          \A y \in {z \in S : i <= z /\ i..z \subseteq S} : y <= b
    BY <1>2, <2>1, Greatest
  <2>3. QED
    BY <2>2
<1>6. a \in Nat /\ b \in Nat /\ a <= b
  BY <1>2, <1>4, <1>5
<1>7. a..b \subseteq S
  <2>1. \A y \in a..b : y \in a..i \/ y \in i..b
    BY <1>2, <1>6
  <2>2. QED
    BY <1>4, <1>5, <2>1
<1>8. a - 1 \notin S
  <2>1. ASSUME a - 1 \in S
        PROVE  FALSE
    <3>1. \A y \in a - 1..i : y = a - 1 \/ y \in a..i
      BY <1>2, <1>6
    <3>2. (a - 1)..i \subseteq S /\ a - 1 <= i
      BY <1>2, <1>4, <1>6, <2>1, <3>1
    <3>3. a <= a - 1
      BY <1>4, <2>1, <3>2
    <3>4. QED
      BY <1>6, <3>3
  <2>2. QED
    BY <2>1
<1>9. b + 1 \notin S
  <2>1. ASSUME b + 1 \in S
        PROVE  FALSE
    <3>1. \A y \in i..b + 1 : y = b + 1 \/ y \in i..b
      BY <1>2, <1>6
    <3>2. i..(b + 1) \subseteq S /\ i <= b + 1
      BY <1>2, <1>5, <1>6, <2>1, <3>1
    <3>3. b + 1 <= b
      BY <1>5, <2>1, <3>2
    <3>4. QED
      BY <1>6, <3>3
  <2>2. QED
    BY <2>1
<1>10. PICK q : q = <<a, b>>
  OBVIOUS
<1>11. q \in S \X S /\ q[1] = a /\ q[2] = b
  BY <1>10
<1>12. <<q[1], q[2] - q[1] + 1>> \in RowRuns(S)
  BY <1>6, <1>7, <1>8, <1>9, <1>11 DEF RowRuns
<1>13. QED
  BY <1>4, <1>5, <1>11, <1>12

(* Every byte of a wanted row is in one of the pages that are advised.     *)
LEMMA RowsArePaged ==
  ASSUME NEW S \in SUBSET (0..Rows - 1), NEW i \in S,
         NEW x \in Nat, RowLo(i) <= x, x < RowLo(i + 1)
  PROVE  x \div Page \in PagesOf(S)
<1>1. PICK a \in S, b \in S : a <= i /\ i <= b /\ <<a, b - a + 1>> \in RowRuns(S)
  BY RowIsInARun
<1>2. PICK n \in Nat, m \in Nat, d \in Nat \ {0} : n = Rows /\ m = MapBytes /\ d = Page
  BY NgramAssumption
<1>3. a \in 0..Rows /\ i \in 0..Rows /\ i + 1 \in 0..Rows /\ b + 1 \in 0..Rows /\ i + 1 <= b + 1
  BY <1>1, <1>2
<1>4. PICK u \in Nat, v \in Nat : /\ u = RowLo(a) /\ v = RowLo(b + 1)
                                  /\ u <= x /\ x < v /\ v <= m
  <2>1. RowLo(a) \in Nat /\ RowLo(i) \in Nat /\ RowLo(a) <= RowLo(i)
    BY <1>1, <1>3, RowBytesAre
  <2>2. /\ RowLo(i + 1) \in Nat /\ RowLo(b + 1) \in Nat /\ RowLo(i + 1) <= RowLo(b + 1)
        /\ RowLo(b + 1) <= MapBytes
    BY <1>3, RowBytesAre
  <2>3. QED
    BY <1>2, <2>1, <2>2
<1>5. PICK lo \in Nat, hi \in Int : /\ lo = DownToPage(u) /\ hi = UpToPage(v)
                                    /\ lo <= u /\ v <= hi
  BY Rounding
<1>6. PICK top \in Int : top = (IF hi < m THEN hi ELSE m) /\ x < top
  BY <1>4, <1>5
<1>7. PICK run : run = <<lo, top - lo>>
  OBVIOUS
<1>8. run[1] = lo /\ run[2] = top - lo /\ run[1] + run[2] = top
  BY <1>7
<1>9. run \in Runs(S)
  <2>1. PICK r \in RowRuns(S) : r[1] = a /\ r[1] + r[2] = b + 1
    <3>1. PICK r : r = <<a, b - a + 1>>
      OBVIOUS
    <3>2. r[1] = a /\ r[2] = b - a + 1 /\ a \in Int /\ b \in Int
      BY <1>2, <3>1
    <3>3. QED
      BY <1>1, <3>1, <3>2
  <2>2. run = LET lo_ == DownToPage(RowLo(r[1]))
                  hi_ == UpToPage(RowLo(r[1] + r[2]))
              IN <<lo_, (IF hi_ < MapBytes THEN hi_ ELSE MapBytes) - lo_>>
    BY <1>2, <1>4, <1>5, <1>6, <1>7, <2>1
  <2>3. run[1] < MapBytes
    BY <1>2, <1>4, <1>5, <1>8
  <2>4. QED
    BY <2>1, <2>2, <2>3 DEF Runs
<1>10. PICK p \in Nat : p = x \div d /\ p * d <= x /\ x < (p + 1) * d
  BY PageOf
<1>11. p <= m \div d
  <2>1. p * d <= m /\ p * d \in Int
    BY <1>4, <1>10
  <2>2. QED
    BY <2>1, PageOf
<1>12. p * d \in Int /\ (p + 1) * d \in Int
  OBVIOUS
<1>13. p \in 0..(MapBytes \div Page) /\ (p + 1) * Page > run[1] /\ p * Page < run[1] + run[2]
  <2>1. m \div d \in Nat
    BY PageOf
  <2>2. (p + 1) * d > lo /\ p * d < top
    BY <1>4, <1>5, <1>6, <1>10, <1>12
  <2>3. QED
    BY <1>2, <1>8, <1>11, <2>1, <2>2
<1>14. QED
  BY <1>2, <1>9, <1>10, <1>13 DEF PagesOf

(* Pages that are advised lie in the mapping.                              *)
LEMMA PagesAreMapped ==
  ASSUME NEW S \in SUBSET (0..Rows - 1)
  PROVE  PagesOf(S) \subseteq 0..((MapBytes - 1) \div Page)
<1>1. PICK m \in Nat \ {0}, d \in Nat \ {0} : m = MapBytes /\ d = Page
  BY NgramAssumption
<1>2. ASSUME NEW p \in PagesOf(S)
      PROVE  p \in 0..((MapBytes - 1) \div Page)
  <2>1. PICK run \in Runs(S) : p \in 0..(MapBytes \div Page) /\ p * Page < run[1] + run[2]
    BY DEF PagesOf
  <2>2. run[1] \in Nat /\ run[2] \in Nat /\ run[1] + run[2] <= m
    BY <1>1, RunIs
  <2>3. p \in Nat /\ p * d \in Int /\ p * d < run[1] + run[2]
    <3>1. p \in Nat
      BY <2>1
    <3>2. QED
      BY <1>1, <2>1, <3>1
  <2>4. p * d <= m - 1 /\ m - 1 \in Nat
    BY <2>2, <2>3
  <2>5. p <= (m - 1) \div d /\ (m - 1) \div d \in Nat
    BY <2>3, <2>4, PageOf
  <2>6. QED
    BY <1>1, <2>3, <2>5
<1>3. QED
  BY <1>2

(* While no step has begun to give rows back, those of the last one are    *)
(* warm.                                                                   *)
PrevInv ==
  /\ NgramTypeOK /\ mapped \in BOOLEAN
  /\ ngPc \in {"idle", "gather"} /\ mapped => PagesOf(prev) \subseteq warmPages

(* Every step keeps the rows of the step before warm.                      *)
LEMMA NgramNextInv == PrevInv /\ [NgramNext]_ngramVars => PrevInv'
<1> SUFFICES ASSUME PrevInv, [NgramNext]_ngramVars
             PROVE  PrevInv'
  OBVIOUS
<1>0. /\ prev \in SUBSET (0..Rows - 1) /\ rows \in SUBSET (0..Rows - 1)
  BY DEF PrevInv, NgramTypeOK
<1>1. CASE StepBegins
  <2>1. /\ ngPc = "idle" /\ ngPc' \in {"release", "gather"} /\ rows' \in SUBSET (0..Rows - 1)
        /\ gathered' = {} /\ UNCHANGED <<prev, warmPages, mapped>>
    BY <1>1, NgramAssumption DEF StepBegins
  <2>2. QED
    BY <2>1 DEF PrevInv, NgramTypeOK, PagesOf
<1>2. CASE ReleasePrevious
  <2>1. /\ ngPc' = "prefetch" /\ warmPages' \subseteq warmPages
        /\ UNCHANGED <<prev, rows, mapped, gathered>>
    BY <1>2 DEF ReleasePrevious
  <2>2. QED
    BY <2>1 DEF PrevInv, NgramTypeOK
<1>3. CASE PrefetchRows
  <2>1. /\ ngPc' = "gather" /\ prev' = rows /\ UNCHANGED <<rows, mapped, gathered>>
        /\ \/ mapped /\ warmPages' = warmPages \union PagesOf(rows)
           \/ ~mapped /\ warmPages' = warmPages
    BY <1>3 DEF PrefetchRows
  <2>2. PagesOf(rows) \subseteq 0..((MapBytes - 1) \div Page)
    BY <1>0, PagesAreMapped
  <2>3. PagesOf(prev)' = PagesOf(rows)
    BY <2>1 DEF PagesOf
  <2>4. QED
    BY <2>1, <2>2, <2>3 DEF PrevInv, NgramTypeOK
<1>4. CASE GatherRows
  BY <1>4 DEF GatherRows, PrevInv, NgramTypeOK, PagesOf
<1>5. CASE Switch
  BY <1>5 DEF Switch, PrevInv, NgramTypeOK, PagesOf
<1>6. CASE CloseTable
  BY <1>6 DEF CloseTable, PrevInv, NgramTypeOK
<1>7. CASE UNCHANGED ngramVars
  BY <1>7 DEF ngramVars, PrevInv, NgramTypeOK, PagesOf
<1>8. QED
  BY <1>1, <1>2, <1>3, <1>4, <1>5, <1>6, <1>7 DEF NgramNext

(* For every row size, page size and place of the table, the hints stay in *)
(* the mapping, and the rows of a step are warm when they are read, those  *)
(* that share a page with rows just given back as well.                    *)
THEOREM AdviceStaysSound == NgramSpec => []AdviceIsSound
<1>1. NgramInit => PrevInv
  BY DEF NgramInit, PrevInv, NgramTypeOK, PagesOf, Runs, RowRuns
<1>2. PrevInv => AdviceIsSound
  <2> SUFFICES ASSUME PrevInv
               PROVE  AdviceIsSound
    OBVIOUS
  <2>1. NgramTypeOK /\ rows \in SUBSET (0..Rows - 1)
    BY DEF PrevInv, NgramTypeOK
  <2>2. RowsAreWarm
    <3>1. ASSUME ngPc = "gather", mapped, prev = rows, NEW i \in rows,
                 NEW x \in {RowLo(i), RowLo(i + 1) - 1}
          PROVE  x \div Page \in warmPages
      <4>1. PICK n \in Nat : n = Rows
        BY NgramAssumption
      <4>2. i \in 0..Rows /\ i + 1 \in 0..Rows /\ i < i + 1
        BY <2>1, <4>1
      <4>3. RowLo(i) \in Nat /\ RowLo(i + 1) \in Nat /\ RowLo(i) < RowLo(i + 1)
        BY <4>2, RowBytesAre
      <4>4. x \in Nat /\ RowLo(i) <= x /\ x < RowLo(i + 1)
        BY <3>1, <4>3
      <4>5. x \div Page \in PagesOf(rows)
        BY <2>1, <4>4, RowsArePaged
      <4>6. QED
        BY <3>1, <4>5 DEF PrevInv
    <3>2. QED
      BY <3>1 DEF RowsAreWarm
  <2>3. RunsAreInTheMap
    BY <2>1, RunIs DEF RunsAreInTheMap
  <2>4. QED
    BY <2>1, <2>2, <2>3 DEF AdviceIsSound
<1>3. QED
  BY <1>1, <1>2, NgramNextInv, PTL DEF NgramSpec

-----------------------------------------------------------------------------
(* PinnedPool.                                                             *)

Block == [bytes : PinSizes, refcount : {0, 1}]
DmaCopy == [from : Nat, spoilt : BOOLEAN]

PinType ==
  /\ pinPool \in Seq(Block) /\ stages \in Seq(Nat)
  /\ tierAt \in {"none", "building", "built", "freeing"}
  /\ stageAt \in 1..StageSlots /\ users \in 0..MaxUsers
  /\ ToSet(stages) \cup warmBlocks \cup lost \subseteq PinBlock
  /\ fixBlock \in PinBlock \cup {0}

(* Who may hold blocks at one time, and how many.                          *)
HoldersInv ==
  /\ tierAt = "none" => stages = <<>>
  /\ tierAt = "building" => stageSize \in PinSizes
  /\ tierAt = "built" => Len(stages) = StageSlots
  /\ fixBlock # 0 => tierAt = "none"
  /\ Len(stages) <= StageSlots
  /\ IsFiniteSet(warmBlocks) /\ Cardinality(warmBlocks) <= WarmExperts

(* A block has at most one owner, and is in use when it has one.           *)
OwnersInv ==
  /\ IsInjective(stages)
  /\ ToSet(stages) \cap warmBlocks = {} /\ (ToSet(stages) \cup warmBlocks) \cap lost = {}
  /\ fixBlock \notin ToSet(stages) \cup warmBlocks \cup lost
  /\ \A i \in PinBlock :
       pinPool[i].refcount = 1 <=> i \in ToSet(stages) \cup warmBlocks \cup lost \cup {fixBlock}

(* Copies are under way only under a built tier, out of its ring and the   *)
(* warm experts.                                                           *)
DmaInv ==
  /\ dma \in Seq(DmaCopy)
  /\ dma # <<>> => tierAt = "built"
  /\ \A j \in DOMAIN dma : ~dma[j].spoilt /\ dma[j].from \in ToSet(stages) \cup warmBlocks

PinInv == PinType /\ HoldersInv /\ OwnersInv /\ DmaInv /\ PoolGoesRound

(* The blocks of the pool are finitely many and typed.                     *)
LEMMA PoolFacts ==
  ASSUME PinType
  PROVE  /\ Len(pinPool) \in Nat /\ PinBlock = 1..Len(pinPool) /\ IsFiniteSet(PinBlock)
         /\ \A i \in PinBlock : pinPool[i] \in Block /\ i \in Nat \ {0}
         /\ Len(stages) \in Nat
<1>1. PICK n \in Nat : n = Len(pinPool)
  BY DEF PinType
<1>2. PinBlock = 1..n
  BY <1>1 DEF PinType, PinBlock
<1>3. IsFiniteSet(1..n)
  BY FS_Interval
<1>4. \A i \in 1..n : pinPool[i] \in Block
  BY <1>1 DEF PinType
<1>5. QED
  BY <1>1, <1>2, <1>3, <1>4 DEF PinType

(* sabah_host_alloc gives a block nobody has: an old one that was free, or *)
(* a new one when every block that is large enough is in use.              *)
LEMMA Allocated ==
  ASSUME PinType, NEW n \in PinSizes, HostAlloc(n), NEW g, g = PinGiven(n)
  PROVE  /\ pinPool' \in Seq(Block) /\ PinBlock' = PinBlock \cup {g} /\ g \in Nat \ {0}
         /\ pinPool'[g].refcount = 1
         /\ \A i \in PinBlock : /\ pinPool'[i].bytes = pinPool[i].bytes
                                /\ i # g => pinPool'[i] = pinPool[i]
         /\ g \in PinBlock => pinPool[g].refcount = 0
         /\ g \notin PinBlock =>
              /\ pinPool'[g].bytes = n
              /\ \A i \in PinBlock : pinPool[i].bytes = n => pinPool[i].refcount = 1
<1>0. PinSizes \subseteq Nat
  BY PinnedAssumption
<1>1. PICK len \in Nat : len = Len(pinPool) /\ PinBlock = 1..len
  BY PoolFacts
<1>2. \A i \in PinBlock : /\ pinPool[i] \in Block /\ i \in Nat \ {0}
                          /\ pinPool[i].bytes \in Nat /\ pinPool[i].refcount \in {0, 1}
  BY <1>0, PoolFacts DEF Block
<1>3. CASE PinFits(n) = {}
  <2>1. PICK b \in Block : b = [bytes |-> n, refcount |-> 1]
    BY DEF Block
  <2>2. b.bytes = n /\ b.refcount = 1
    BY <2>1
  <2>3. pinPool' = Append(pinPool, b) /\ g = len + 1
    BY <1>1, <1>3, <2>1 DEF HostAlloc, PinGiven
  <2>4. /\ pinPool' \in Seq(Block) /\ Len(pinPool') = len + 1
        /\ \A i \in 1..len : pinPool'[i] = pinPool[i]
        /\ pinPool'[len + 1] = b
    BY <1>1, <2>3, AppendProperties DEF PinType
  <2>5. PinBlock' = 1..(len + 1)
    BY <2>4 DEF PinBlock
  <2>6. 1..(len + 1) = 1..len \cup {len + 1} /\ len + 1 \notin 1..len
    OBVIOUS
  <2>7. \A i \in PinBlock : pinPool[i].bytes = n => pinPool[i].refcount = 1
    BY <1>0, <1>2, <1>3 DEF PinFits, PinBlock
  <2>8. QED
    BY <1>1, <1>2, <2>2, <2>3, <2>4, <2>5, <2>6, <2>7
<1>4. CASE PinFits(n) # {}
  <2>1. PinFits(n) \in SUBSET Nat
    BY <1>2 DEF PinFits, PinBlock
  <2>2. g \in PinFits(n)
    <3>1. g = Min(PinFits(n))
      BY <1>4 DEF PinGiven
    <3>2. \E x \in PinFits(n) : \A y \in PinFits(n) : x <= y
      BY <1>4, <2>1, Least
    <3>3. QED
      BY <3>1, <3>2 DEF Min
  <2>3. g \in PinBlock /\ pinPool[g].refcount = 0
    BY <2>2 DEF PinFits, PinBlock
  <2>4. pinPool' = [pinPool EXCEPT ![g].refcount = 1]
    BY <1>4 DEF HostAlloc, PinGiven
  <2>5. PICK old \in Block, b \in Block :
          /\ old = pinPool[g] /\ b = [old EXCEPT !.refcount = 1]
          /\ b.refcount = 1 /\ b.bytes = old.bytes
    <3>1. PICK old \in Block : old = pinPool[g]
      BY <1>2, <2>3
    <3>2. /\ [old EXCEPT !.refcount = 1] \in Block /\ [old EXCEPT !.refcount = 1].refcount = 1
          /\ [old EXCEPT !.refcount = 1].bytes = old.bytes
      BY DEF Block
    <3>3. QED
      BY <3>1, <3>2
  <2>6. pinPool' = [pinPool EXCEPT ![g] = b]
    BY <2>4, <2>5
  <2>7. /\ pinPool' \in Seq(Block) /\ DOMAIN pinPool' = DOMAIN pinPool
        /\ pinPool'[g] = b /\ \A i \in PinBlock : i # g => pinPool'[i] = pinPool[i]
    BY <2>3, <2>6 DEF PinType, PinBlock
  <2>8. PinBlock' = PinBlock \cup {g}
    BY <2>3, <2>7 DEF PinBlock
  <2>9. b.refcount = 1 /\ b.bytes = pinPool[g].bytes
    BY <2>5
  <2>10. \A i \in PinBlock : /\ pinPool'[i].bytes = pinPool[i].bytes
                             /\ i # g => pinPool'[i] = pinPool[i]
    BY <2>7, <2>9
  <2>11. g \in Nat \ {0} /\ pinPool'[g].refcount = 1
    BY <1>2, <2>3, <2>7, <2>9
  <2>12. QED
    BY <2>3, <2>7, <2>8, <2>10, <2>11
<1>5. QED
  BY <1>3, <1>4

(* sabah_host_free of blocks in use: they stay, and are free.              *)
LEMMA Released ==
  ASSUME PinType, NEW blocks, HostFree(blocks)
  PROVE  /\ pinPool' \in Seq(Block) /\ PinBlock' = PinBlock
         /\ \A i \in PinBlock :
              /\ pinPool'[i].bytes = pinPool[i].bytes
              /\ pinPool'[i].refcount = IF i \in blocks THEN 0 ELSE pinPool[i].refcount
<1>1. PICK n \in Nat : n = Len(pinPool) /\ PinBlock = 1..n /\ DOMAIN pinPool = 1..n
  BY PoolFacts DEF PinBlock
<1>2. \A i \in 1..n : pinPool[i] \in Block
  BY <1>1, PoolFacts
<1>3. pinPool' = [i \in 1..n |->
                    IF i \in blocks /\ pinPool[i].refcount > 0
                    THEN [pinPool[i] EXCEPT !.refcount = @ - 1] ELSE pinPool[i]]
  BY <1>1 DEF HostFree
<1>4. ASSUME NEW i \in 1..n
      PROVE  /\ pinPool'[i] \in Block /\ pinPool'[i].bytes = pinPool[i].bytes
             /\ pinPool'[i].refcount = IF i \in blocks THEN 0 ELSE pinPool[i].refcount
  <2>1. PICK b \in Block : b = pinPool[i] /\ b.refcount \in {0, 1}
    BY <1>2 DEF Block
  <2>2. CASE i \in blocks /\ b.refcount > 0
    <3>1. pinPool'[i] = [b EXCEPT !.refcount = @ - 1] /\ b.refcount = 1
      BY <1>3, <2>1, <2>2
    <3>2. QED
      BY <2>1, <2>2, <3>1 DEF Block
  <2>3. CASE ~(i \in blocks /\ b.refcount > 0)
    <3>1. pinPool'[i] = b
      BY <1>3, <2>1, <2>3
    <3>2. i \in blocks => b.refcount = 0
      BY <2>1, <2>3
    <3>3. QED
      BY <2>1, <3>1, <3>2
  <2>4. QED
    BY <2>2, <2>3
<1>5. pinPool' \in Seq(Block)
  <2>1. PICK q : q = pinPool'
    OBVIOUS
  <2>2. DOMAIN q = 1..n /\ q \in [1..n -> Block] /\ Len(q) = n
    BY <1>3, <1>4, <2>1
  <2>3. q \in Seq(Block)
    BY <2>2
  <2>4. QED
    BY <2>1, <2>3
<1>6. PinBlock' = 1..n
  BY <1>3 DEF PinBlock
<1>7. QED
  BY <1>1, <1>4, <1>5, <1>6

(* An empty ring has no blocks.                                            *)
LEMMA EmptyRing ==
  ToSet(<<>>) = {} /\ IsInjective(<<>>) /\ Len(<<>>) = 0 /\ <<>> \in Seq(Nat)
BY DEF ToSet, IsInjective

(* The blocks of a ring.                                                   *)
LEMMA RingSet ==
  ASSUME NEW s \in Seq(Nat)
  PROVE  /\ IsFiniteSet(ToSet(s)) /\ Cardinality(ToSet(s)) \in Nat /\ Cardinality(ToSet(s)) <= Len(s)
         /\ \A g \in Nat : /\ ToSet(Append(s, g)) = ToSet(s) \cup {g}
                           /\ g \notin ToSet(s) /\ IsInjective(s) => IsInjective(Append(s, g))
<1>1. PICK n \in Nat : n = Len(s) /\ DOMAIN s = 1..n /\ s \in [1..n -> Nat]
  OBVIOUS
<1>2. ToSet(s) = {s[i] : i \in 1..n}
  BY <1>1 DEF ToSet
<1>3. s \in Surjection(1..n, ToSet(s))
  BY <1>1, <1>2 DEF Surjection
<1>4. IsFiniteSet(1..n) /\ Cardinality(1..n) = n
  BY FS_Interval
<1>5. IsFiniteSet(ToSet(s)) /\ Cardinality(ToSet(s)) <= n
  BY <1>3, <1>4, FS_Surjection
<1>6. Cardinality(ToSet(s)) \in Nat
  BY <1>5, FS_CardinalityType
<1>7. ASSUME NEW g \in Nat
      PROVE  /\ ToSet(Append(s, g)) = ToSet(s) \cup {g}
             /\ g \notin ToSet(s) /\ IsInjective(s) => IsInjective(Append(s, g))
  <2>1. PICK t : t = Append(s, g)
    OBVIOUS
  <2>2. /\ t \in Seq(Nat) /\ Len(t) = n + 1 /\ t[n + 1] = g
        /\ \A i \in 1..n : t[i] = s[i]
    BY <1>1, <2>1, AppendProperties
  <2>3. DOMAIN t = 1..(n + 1) /\ \A i \in 1..(n + 1) : i \in 1..n \/ i = n + 1
    BY <2>2
  <2>4. ToSet(t) = {t[i] : i \in 1..(n + 1)}
    BY <2>3 DEF ToSet
  <2>5. ToSet(t) = ToSet(s) \cup {g}
    <3>1. ASSUME NEW x \in ToSet(t)
          PROVE  x \in ToSet(s) \cup {g}
      <4>1. PICK i \in 1..(n + 1) : x = t[i]
        BY <2>4
      <4>2. QED
        BY <1>2, <2>2, <2>3, <4>1
    <3>2. ASSUME NEW x \in ToSet(s)
          PROVE  x \in ToSet(t)
      <4>1. PICK i \in 1..n : x = s[i]
        BY <1>2
      <4>2. i \in 1..(n + 1) /\ x = t[i]
        BY <2>2, <4>1
      <4>3. QED
        BY <2>4, <4>2
    <3>3. n + 1 \in 1..(n + 1)
      OBVIOUS
    <3>4. g \in ToSet(t)
      BY <2>2, <2>4, <3>3
    <3>5. QED
      BY <3>1, <3>2, <3>4
  <2>6. ASSUME g \notin ToSet(s), IsInjective(s)
        PROVE  IsInjective(t)
    <3>1. ASSUME NEW i \in 1..(n + 1), NEW j \in 1..(n + 1), t[i] = t[j]
          PROVE  i = j
      <4>1. \A k \in 1..n : t[k] # g
        BY <1>2, <2>2, <2>6
      <4>2. CASE i \in 1..n /\ j \in 1..n
        BY <1>1, <2>2, <2>6, <3>1, <4>2 DEF IsInjective
      <4>3. QED
        BY <2>2, <2>3, <3>1, <4>1, <4>2
    <3>2. QED
      BY <2>3, <3>1 DEF IsInjective
  <2>7. QED
    BY <2>1, <2>5, <2>6
<1>8. QED
  BY <1>1, <1>5, <1>6, <1>7

(* What the host writes into a block no copy reads, spoils none.           *)
LEMMA NothingSpoilt ==
  ASSUME DmaInv, NEW i, \A j \in DOMAIN dma : dma[j].from # i
  PROVE  Overwritten(i) = dma
<1>1. ASSUME NEW j \in DOMAIN dma
      PROVE  [dma[j] EXCEPT !.spoilt = @ \/ dma[j].from = i] = dma[j]
  <2>1. PICK c \in DmaCopy : c = dma[j] /\ c.spoilt = FALSE /\ c.from # i
    <3>1. dma[j] \in DmaCopy
      BY DEF DmaInv
    <3>2. dma[j].spoilt \in BOOLEAN /\ ~dma[j].spoilt
      BY <3>1 DEF DmaInv, DmaCopy
    <3>3. QED
      BY <3>1, <3>2
  <2>2. (c.spoilt \/ c.from = i) = FALSE
    BY <2>1
  <2>3. [c EXCEPT !.spoilt = FALSE] = c
    BY <2>1 DEF DmaCopy
  <2>4. QED
    BY <2>1, <2>2, <2>3
<1>2. dma = [j \in DOMAIN dma |-> dma[j]]
  BY DEF DmaInv
<1>3. QED
  BY <1>1, <1>2 DEF Overwritten

(* A pool that only loses blocks goes round as before.                     *)
LEMMA RoundKept ==
  ASSUME PinType, PoolGoesRound, PinBlock' = PinBlock, lost \subseteq lost',
         \A i \in PinBlock : pinPool'[i].bytes = pinPool[i].bytes
  PROVE  PoolGoesRound'
<1>0. StageSlots \in Nat /\ WarmExperts \in Nat
  BY PinnedAssumption
<1>1. ASSUME NEW m \in PinSizes
      PROVE  Cardinality({i \in PinBlock' \ lost' : pinPool'[i].bytes = m})
               <= StageSlots + WarmExperts
  <2>1. PICK A, B : /\ A = {i \in PinBlock \ lost : pinPool[i].bytes = m}
                    /\ B = {i \in PinBlock' \ lost' : pinPool'[i].bytes = m}
    OBVIOUS
  <2>2. B \subseteq A /\ A \subseteq PinBlock
    BY <2>1
  <2>3. IsFiniteSet(A)
    BY <2>2, PoolFacts, FS_Subset
  <2>4. Cardinality(B) <= Cardinality(A) /\ Cardinality(A) \in Nat /\ Cardinality(B) \in Nat
    BY <2>2, <2>3, FS_Subset, FS_CardinalityType
  <2>5. Cardinality(A) <= StageSlots + WarmExperts
    BY <2>1 DEF PoolGoesRound
  <2>6. PICK x, y \in Nat : x = Cardinality(A) /\ y = Cardinality(B)
    BY <2>4
  <2>7. y <= StageSlots + WarmExperts
    BY <1>0, <2>4, <2>5, <2>6
  <2>8. QED
    BY <2>1, <2>6, <2>7
<1>2. QED
  BY <1>1 DEF PoolGoesRound

(* A block taken by a user that stays in its bounds.                       *)
LEMMA TakenBlock ==
  ASSUME PinInv, NEW n \in PinSizes, HostAlloc(n), NEW g, g = PinGiven(n), lost' = lost,
         fixBlock = 0, Len(stages) + Cardinality(warmBlocks) < StageSlots + WarmExperts
  PROVE  /\ g \notin ToSet(stages) \cup warmBlocks \cup lost /\ g # 0
         /\ PoolGoesRound'
<1> USE DEF PinInv
<1>1. g \notin ToSet(stages) \cup warmBlocks \cup lost
  <2>1. CASE g \in PinBlock
    <3>1. pinPool[g].refcount = 0
      BY <2>1, Allocated
    <3>2. QED
      BY <2>1, <3>1 DEF OwnersInv
  <2>2. CASE g \notin PinBlock
    BY <2>2 DEF PinType
  <2>3. QED
    BY <2>1, <2>2
<1>2. g # 0
  BY Allocated
<1>3. CASE g \in PinBlock
  <2>1. PinBlock' = PinBlock /\ \A i \in PinBlock : pinPool'[i].bytes = pinPool[i].bytes
    <3>1. PinBlock' = PinBlock \cup {g} /\ \A i \in PinBlock : pinPool'[i].bytes = pinPool[i].bytes
      BY Allocated
    <3>2. QED
      BY <1>3, <3>1
  <2>2. QED
    BY <1>1, <1>2, <2>1, RoundKept
<1>4. CASE g \notin PinBlock
  <2>0. StageSlots \in Nat /\ WarmExperts \in Nat
    BY PinnedAssumption
  <2>1. ASSUME NEW m \in PinSizes
        PROVE  Cardinality({i \in PinBlock' \ lost' : pinPool'[i].bytes = m})
                 <= StageSlots + WarmExperts
    <3>1. PICK A, B : /\ A = {i \in PinBlock \ lost : pinPool[i].bytes = m}
                      /\ B = {i \in PinBlock' \ lost' : pinPool'[i].bytes = m}
      OBVIOUS
    <3>2. /\ PinBlock' = PinBlock \cup {g} /\ pinPool'[g].bytes = n
          /\ \A i \in PinBlock : pinPool'[i].bytes = pinPool[i].bytes
          /\ \A i \in PinBlock : pinPool[i].bytes = n => pinPool[i].refcount = 1
      BY <1>4, Allocated
    <3>3. CASE m # n
      <4>1. B = A
        BY <3>1, <3>2, <3>3
      <4>2. QED
        BY <3>1, <4>1 DEF PoolGoesRound
    <3>4. CASE m = n
      <4>1. PICK O : O = ToSet(stages) \cup warmBlocks
        OBVIOUS
      <4>2. \A i \in A : i \in O
        <5>1. ASSUME NEW i \in A
              PROVE  i \in O
          <6>1. i \in PinBlock /\ i \notin lost /\ pinPool[i].refcount = 1 /\ i # fixBlock
            BY <3>1, <3>2, <3>4, PoolFacts
          <6>2. QED
            BY <4>1, <6>1 DEF OwnersInv
        <5>2. QED
          BY <5>1
      <4>3. B \subseteq O \cup {g}
        BY <3>1, <3>2, <4>2
      <4>4. PICK s, w \in Nat : /\ s = Cardinality(ToSet(stages)) /\ w = Cardinality(warmBlocks)
                                /\ s <= Len(stages) /\ IsFiniteSet(ToSet(stages))
        BY RingSet, FS_CardinalityType DEF PinType, HoldersInv
      <4>5. IsFiniteSet(O) /\ Cardinality(O) = s + w
        <5>1. /\ IsFiniteSet(O)
              /\ Cardinality(O) = s + w - Cardinality(ToSet(stages) \cap warmBlocks)
          BY <4>1, <4>4, FS_Union DEF HoldersInv
        <5>2. Cardinality(ToSet(stages) \cap warmBlocks) = 0
          BY FS_EmptySet DEF OwnersInv
        <5>3. QED
          BY <5>1, <5>2
      <4>6. IsFiniteSet(O \cup {g}) /\ Cardinality(O \cup {g}) <= s + w + 1
        <5>1. PICK c \in Nat : c = Cardinality(O) /\ c = s + w
          BY <4>4, <4>5
        <5>2. IsFiniteSet(O)
          BY <4>5
        <5>3. /\ IsFiniteSet(O \cup {g})
              /\ Cardinality(O \cup {g})
                   = IF g \in O THEN Cardinality(O) ELSE Cardinality(O) + 1
          BY <5>2, FS_AddElement
        <5>4. Cardinality(O \cup {g}) \in {c, c + 1}
          BY <5>1, <5>3
        <5>5. QED
          BY <5>1, <5>3, <5>4
      <4>7. PICK b, o \in Nat : b = Cardinality(B) /\ o = Cardinality(O \cup {g}) /\ b <= o
        BY <4>3, <4>6, FS_Subset, FS_CardinalityType
      <4>8. PICK len \in Nat : len = Len(stages)
        BY PoolFacts
      <4>9. b <= StageSlots + WarmExperts
        BY <2>0, <4>4, <4>6, <4>7, <4>8
      <4>10. QED
        BY <3>1, <4>7, <4>9
    <3>5. QED
      BY <3>3, <3>4
  <2>2. QED
    BY <1>1, <1>2, <2>1 DEF PoolGoesRound
<1>5. QED
  BY <1>3, <1>4


(* A user that takes a block owns it alone.                                *)
LEMMA TakenOwners ==
  ASSUME PinInv, NEW n \in PinSizes, HostAlloc(n), NEW g, g = PinGiven(n), fixBlock = 0
  PROVE  /\ PinBlock' = PinBlock \cup {g} /\ g \in Nat \ {0} /\ pinPool' \in Seq(Block)
         /\ \A i \in PinBlock' :
              pinPool'[i].refcount = 1 <=> i \in ToSet(stages) \cup warmBlocks \cup lost \cup {g}
<1> USE DEF PinInv
<1>1. /\ PinBlock' = PinBlock \cup {g} /\ g \in Nat \ {0} /\ pinPool' \in Seq(Block)
      /\ pinPool'[g].refcount = 1 /\ \A i \in PinBlock : i # g => pinPool'[i] = pinPool[i]
  BY Allocated
<1>2. ASSUME NEW i \in PinBlock, i # g
      PROVE  pinPool'[i].refcount = 1 <=> i \in ToSet(stages) \cup warmBlocks \cup lost \cup {g}
  <2>1. i # 0 /\ pinPool'[i] = pinPool[i]
    BY <1>1, <1>2, PoolFacts
  <2>2. pinPool[i].refcount = 1 <=> i \in ToSet(stages) \cup warmBlocks \cup lost \cup {fixBlock}
    BY DEF OwnersInv
  <2>3. QED
    BY <1>2, <2>1, <2>2
<1>3. QED
  BY <1>1, <1>2

(* A user that gives its blocks back leaves them free, and no others.      *)
LEMMA GivenBlocks ==
  ASSUME PinInv, NEW gone, HostFree(gone), lost' = lost
  PROVE  /\ PinBlock' = PinBlock /\ pinPool' \in Seq(Block) /\ PoolGoesRound'
         /\ \A i \in PinBlock :
              pinPool'[i].refcount = 1
                <=> i \in (ToSet(stages) \cup warmBlocks \cup lost \cup {fixBlock}) \ gone
<1> USE DEF PinInv
<1>1. /\ PinBlock' = PinBlock /\ pinPool' \in Seq(Block)
      /\ \A i \in PinBlock :
           /\ pinPool'[i].bytes = pinPool[i].bytes
           /\ pinPool'[i].refcount = IF i \in gone THEN 0 ELSE pinPool[i].refcount
  BY Released
<1>2. PoolGoesRound'
  BY <1>1, RoundKept
<1>3. QED
  BY <1>1, <1>2 DEF OwnersInv

(* Nothing is said anew of a pool that stays as it is.                     *)
LEMMA PoolStays ==
  ASSUME PinInv, pinPool' = pinPool, lost \subseteq lost'
  PROVE  PinBlock' = PinBlock /\ pinPool' \in Seq(Block) /\ PoolGoesRound'
<1>1. PinBlock' = PinBlock /\ pinPool' \in Seq(Block)
  BY DEF PinInv, PinType, PinBlock
<1>2. QED
  BY <1>1, RoundKept DEF PinInv

(* A copy that is queued joins copies that read blocks which stay.         *)
LEMMA QueuedCopy ==
  ASSUME PinInv, tierAt = "built", NEW i \in ToSet(stages) \cup warmBlocks, i \in Nat,
         Queued(dma, i), UNCHANGED <<tierAt, stages, warmBlocks>>
  PROVE  DmaInv'
<1>1. PICK c : c = [from |-> i, spoilt |-> FALSE]
  OBVIOUS
<1>2. c \in DmaCopy /\ c.from = i /\ c.spoilt = FALSE
  BY <1>1 DEF DmaCopy
<1>3. PICK n \in Nat : n = Len(dma) /\ DOMAIN dma = 1..n
  BY DEF PinInv, DmaInv
<1>4. PICK q : q = Append(dma, c)
  OBVIOUS
<1>5. /\ q \in Seq(DmaCopy) /\ Len(q) = n + 1 /\ q[n + 1] = c /\ \A j \in 1..n : q[j] = dma[j]
  BY <1>2, <1>3, <1>4, AppendProperties DEF PinInv, DmaInv
<1>6. \A j \in DOMAIN q : j \in 1..n \/ j = n + 1
  BY <1>3, <1>5
<1>7. \A j \in DOMAIN q : ~q[j].spoilt /\ q[j].from \in ToSet(stages) \cup warmBlocks
  BY <1>2, <1>3, <1>5, <1>6 DEF PinInv, DmaInv
<1>8. dma' = q
  BY <1>1, <1>4 DEF Queued
<1>9. QED
  BY <1>5, <1>7, <1>8 DEF DmaInv

(* The empty pool keeps the invariant.                                     *)
LEMMA PinInitInv == PinInit => PinInv
<1> SUFFICES ASSUME PinInit PROVE PinInv
  OBVIOUS
<1> USE PinnedAssumption DEF PinInit
<1>1. PinBlock = {} /\ ToSet(stages) = {}
  <2>1. DOMAIN <<>> = {}
    OBVIOUS
  <2>2. QED
    BY <2>1, EmptyRing DEF PinBlock
<1>2. PinType
  BY <1>1 DEF PinType
<1>3. HoldersInv
  BY FS_EmptySet DEF HoldersInv
<1>4. OwnersInv
  BY <1>1 DEF OwnersInv, IsInjective
<1>5. DmaInv
  BY DEF DmaInv
<1>6. PoolGoesRound
  <2>1. ASSUME NEW n \in PinSizes
        PROVE  Cardinality({i \in PinBlock \ lost : pinPool[i].bytes = n})
                 <= StageSlots + WarmExperts
    <3>1. PICK A : A = {i \in PinBlock \ lost : pinPool[i].bytes = n} /\ A = {}
      BY <1>1
    <3>2. Cardinality(A) = 0
      BY <3>1, FS_EmptySet
    <3>3. Cardinality(A) <= StageSlots + WarmExperts
      BY <3>2, PinnedAssumption
    <3>4. QED
      BY <3>1, <3>3
  <2>2. QED
    BY <2>1 DEF PoolGoesRound
<1>7. QED
  BY <1>2, <1>3, <1>4, <1>5, <1>6 DEF PinInv

(* Every step of a user, of the pool or of the copy stream keeps it.       *)
LEMMA PinNextInv == PinInv /\ [PinNext]_pinVars => PinInv'
<1> SUFFICES ASSUME PinInv, [PinNext]_pinVars PROVE PinInv'
  OBVIOUS
<1>0. /\ StageSlots \in Nat \ {0} /\ WarmExperts \in Nat /\ MaxUsers \in Nat
      /\ PinSizes \subseteq Nat \ {0}
  BY PinnedAssumption
<1>a. PICK len \in Nat : len = Len(stages)
  BY PoolFacts DEF PinInv
<1>b. PICK warm \in Nat : warm = Cardinality(warmBlocks)
  BY FS_CardinalityType DEF PinInv, HoldersInv
<1>c. stages = <<>> => len = 0 /\ ToSet(stages) = {}
  BY <1>a, EmptyRing
<1>d. ToSet(<<>>) = {} /\ IsInjective(<<>>) /\ Len(<<>>) = 0 /\ <<>> \in Seq(Nat)
  BY EmptyRing
<1>e. \A i \in PinBlock : i \in Nat \ {0}
  BY PoolFacts DEF PinInv
<1>1. ASSUME NEW n \in PinSizes, NewTier(n)
      PROVE  PinInv'
  <2>1. PinBlock' = PinBlock /\ pinPool' \in Seq(Block) /\ PoolGoesRound'
    BY <1>1, PoolStays DEF NewTier
  <2>2. QED
    BY <1>0, <1>1, <1>c, <2>1 DEF NewTier, PinInv, PinType, HoldersInv, OwnersInv, DmaInv
<1>2. ASSUME NEW n \in PinSizes, WarmExpert(n)
      PROVE  PinInv'
  <2>1. PICK g : g = PinGiven(n)
    OBVIOUS
  <2>2. /\ PinBlock' = PinBlock \cup {g} /\ g \in Nat \ {0} /\ pinPool' \in Seq(Block)
        /\ \A i \in PinBlock' :
             pinPool'[i].refcount = 1 <=> i \in ToSet(stages) \cup warmBlocks \cup lost \cup {g}
    BY <1>2, <2>1, TakenOwners DEF WarmExpert
  <2>3. len + warm < StageSlots + WarmExperts
    BY <1>0, <1>2, <1>a, <1>b DEF WarmExpert, PinInv, HoldersInv
  <2>4. g \notin ToSet(stages) \cup warmBlocks \cup lost /\ PoolGoesRound'
    BY <1>2, <1>a, <1>b, <2>1, <2>3, TakenBlock DEF WarmExpert
  <2>5. dma' = dma
    BY <1>2, <2>1, <2>4, NothingSpoilt DEF WarmExpert, PinInv, DmaInv
  <2>6. IsFiniteSet(warmBlocks') /\ Cardinality(warmBlocks') <= WarmExperts
    <3>1. IsFiniteSet(warmBlocks) /\ warm < WarmExperts /\ warmBlocks' = warmBlocks \cup {g}
      BY <1>2, <1>b, <2>1 DEF WarmExpert, PinInv, HoldersInv
    <3>2. IsFiniteSet(warmBlocks \cup {g}) /\ Cardinality(warmBlocks \cup {g}) = warm + 1
      BY <1>b, <2>4, <3>1, FS_AddElement
    <3>3. QED
      BY <1>0, <3>1, <3>2
  <2>7. UNCHANGED <<tierAt, stageSize, stages, stageAt, fixBlock, lost, users>>
        /\ warmBlocks' = warmBlocks \cup {g} /\ fixBlock = 0
    BY <1>2, <2>1 DEF WarmExpert
  <2>8. PinType'
    BY <2>2, <2>7 DEF PinInv, PinType
  <2>9. HoldersInv'
    BY <2>6, <2>7 DEF PinInv, HoldersInv
  <2>10. OwnersInv'
    BY <1>e, <2>2, <2>4, <2>7 DEF PinInv, OwnersInv
  <2>11. DmaInv'
    BY <2>5, <2>7 DEF PinInv, DmaInv
  <2>12. QED
    BY <2>4, <2>8, <2>9, <2>10, <2>11 DEF PinInv
<1>3. ASSUME NEW n \in PinSizes, FixTakes(n)
      PROVE  PinInv'
  <2>1. PICK g : g = PinGiven(n)
    OBVIOUS
  <2>2. /\ PinBlock' = PinBlock \cup {g} /\ g \in Nat \ {0} /\ pinPool' \in Seq(Block)
        /\ \A i \in PinBlock' :
             pinPool'[i].refcount = 1 <=> i \in ToSet(stages) \cup warmBlocks \cup lost \cup {g}
    BY <1>3, <2>1, TakenOwners DEF FixTakes
  <2>3. len + warm < StageSlots + WarmExperts
    BY <1>0, <1>3, <1>a, <1>b, <1>c DEF FixTakes, PinInv, HoldersInv
  <2>4. g \notin ToSet(stages) \cup warmBlocks \cup lost /\ PoolGoesRound'
    BY <1>3, <1>a, <1>b, <2>1, <2>3, TakenBlock DEF FixTakes
  <2>5. /\ UNCHANGED <<tierAt, stageSize, stages, stageAt, warmBlocks, dma, lost>>
        /\ users' = users + 1 /\ users < MaxUsers /\ fixBlock' = g /\ tierAt = "none"
    BY <1>3, <2>1 DEF FixTakes
  <2>6. PinType'
    BY <1>0, <2>2, <2>5 DEF PinInv, PinType
  <2>7. HoldersInv'
    BY <2>5 DEF PinInv, HoldersInv
  <2>8. OwnersInv'
    BY <2>2, <2>4, <2>5 DEF PinInv, OwnersInv
  <2>9. DmaInv'
    BY <2>5 DEF PinInv, DmaInv
  <2>10. QED
    BY <2>4, <2>6, <2>7, <2>8, <2>9 DEF PinInv
<1>4. CASE TakeStage
  <2>0. stageSize \in PinSizes /\ fixBlock = 0 /\ dma = <<>>
    BY <1>4 DEF TakeStage, PinInv, HoldersInv, DmaInv
  <2>a. PICK n \in PinSizes : n = stageSize
    BY <2>0
  <2>1. PICK g : n = stageSize /\ g = PinGiven(n)
    BY <2>a
  <2>2. HostAlloc(n) /\ lost' = lost /\ stages' = Append(stages, g) /\ len < StageSlots
    BY <1>4, <1>a, <2>1 DEF TakeStage
  <2>3. /\ PinBlock' = PinBlock \cup {g} /\ g \in Nat \ {0} /\ pinPool' \in Seq(Block)
        /\ \A i \in PinBlock' :
             pinPool'[i].refcount = 1 <=> i \in ToSet(stages) \cup warmBlocks \cup lost \cup {g}
    BY <2>0, <2>1, <2>2, TakenOwners
  <2>4. len + warm < StageSlots + WarmExperts
    BY <1>0, <1>b, <2>2 DEF PinInv, HoldersInv
  <2>5. g \notin ToSet(stages) \cup warmBlocks \cup lost /\ PoolGoesRound'
    BY <1>a, <1>b, <2>0, <2>1, <2>2, <2>4, TakenBlock
  <2>6. /\ stages' \in Seq(Nat) /\ Len(stages') = len + 1
        /\ ToSet(stages') = ToSet(stages) \cup {g} /\ IsInjective(stages')
    <3>1. stages \in Seq(Nat) /\ IsInjective(stages)
      BY DEF PinInv, PinType, OwnersInv
    <3>2. /\ ToSet(Append(stages, g)) = ToSet(stages) \cup {g}
          /\ IsInjective(Append(stages, g))
      BY <2>3, <2>5, <3>1, RingSet
    <3>3. Append(stages, g) \in Seq(Nat) /\ Len(Append(stages, g)) = len + 1
      BY <1>a, <2>3, <3>1, AppendProperties
    <3>4. QED
      BY <2>2, <3>2, <3>3
  <2>7. /\ UNCHANGED <<tierAt, stageSize, stageAt, warmBlocks, fixBlock, dma, lost, users>>
        /\ tierAt = "building"
    BY <1>4 DEF TakeStage
  <2>8. PinType'
    BY <2>3, <2>6, <2>7 DEF PinInv, PinType
  <2>9. HoldersInv'
    BY <1>0, <2>0, <2>2, <2>6, <2>7 DEF PinInv, HoldersInv
  <2>10. OwnersInv'
    BY <1>e, <2>0, <2>3, <2>5, <2>6, <2>7 DEF PinInv, OwnersInv
  <2>11. DmaInv'
    BY <2>0, <2>7 DEF PinInv, DmaInv
  <2>12. QED
    BY <2>5, <2>8, <2>9, <2>10, <2>11 DEF PinInv
<1>5. CASE TierRaises
  <2>1. /\ UNCHANGED <<pinPool, stageAt, warmBlocks, fixBlock, dma, users>>
        /\ tierAt = "building" /\ tierAt' = "none" /\ lost' = lost \cup ToSet(stages)
        /\ stages' = <<>>
    BY <1>5 DEF TierRaises
  <2>2. PinBlock' = PinBlock /\ pinPool' \in Seq(Block) /\ PoolGoesRound'
    BY <2>1, PoolStays
  <2>3. ToSet(stages') = {} /\ IsInjective(stages') /\ Len(stages') = 0 /\ stages' \in Seq(Nat)
    BY <1>d, <2>1
  <2>4. PinType'
    BY <2>1, <2>2, <2>3 DEF PinInv, PinType
  <2>5. HoldersInv'
    BY <1>0, <2>1, <2>3 DEF PinInv, HoldersInv
  <2>6. OwnersInv'
    BY <2>1, <2>2, <2>3 DEF PinInv, OwnersInv
  <2>7. DmaInv'
    BY <2>1 DEF PinInv, DmaInv
  <2>8. QED
    BY <2>2, <2>4, <2>5, <2>6, <2>7 DEF PinInv
<1>6. CASE TierBuilt
  <2>1. PinBlock' = PinBlock /\ pinPool' \in Seq(Block) /\ PoolGoesRound'
    BY <1>6, PoolStays DEF TierBuilt
  <2>2. QED
    BY <1>0, <1>6, <2>1 DEF TierBuilt, PinInv, PinType, HoldersInv, OwnersInv, DmaInv
<1>7. CASE StagedCopy
  <2>1. /\ UNCHANGED <<pinPool, tierAt, stageSize, stages, warmBlocks, fixBlock, lost, users>>
        /\ tierAt = "built" /\ stageAt' = (stageAt % StageSlots) + 1
    BY <1>7 DEF StagedCopy
  <2>2. PICK i : i = stages[stageAt]
    OBVIOUS
  <2>3. i \in ToSet(stages) /\ i \in Nat
    <3>1. stageAt \in 1..len /\ DOMAIN stages = 1..len
      BY <1>a, <2>1 DEF PinInv, PinType, HoldersInv
    <3>2. QED
      BY <2>2, <3>1 DEF PinInv, PinType, ToSet
  <2>4. \A j \in DOMAIN dma : dma[j].from # i
    BY <1>7, <2>2 DEF StagedCopy, PinLanded, ToSet
  <2>5. Overwritten(i) = dma
    BY <2>4, NothingSpoilt DEF PinInv
  <2>6. Queued(dma, i)
    BY <1>7, <2>2, <2>5 DEF StagedCopy
  <2>7. DmaInv'
    BY <2>1, <2>3, <2>6, QueuedCopy
  <2>8. stageAt' \in 1..StageSlots
    <3>1. PICK k \in Nat, s \in Nat \ {0} : k = stageAt /\ s = StageSlots
      BY <1>0 DEF PinInv, PinType
    <3>2. k % s \in 0..(s - 1)
      BY <3>1
    <3>3. QED
      BY <2>1, <3>1, <3>2
  <2>9. PinBlock' = PinBlock /\ pinPool' \in Seq(Block) /\ PoolGoesRound'
    BY <2>1, PoolStays
  <2>10. QED
    BY <2>1, <2>7, <2>8, <2>9 DEF PinInv, PinType, HoldersInv, OwnersInv
<1>8. ASSUME NEW i \in DOMAIN pinPool, DirectCopy(i)
      PROVE  PinInv'
  <2>1. UNCHANGED <<pinPool, pinUserVars, lost, users>> /\ tierAt = "built" /\ i \in warmBlocks
    BY <1>8 DEF DirectCopy
  <2>2. i \in Nat
    BY <1>e, <1>8 DEF PinBlock
  <2>3. DmaInv'
    BY <1>8, <2>1, <2>2, QueuedCopy DEF DirectCopy, pinUserVars
  <2>4. PinBlock' = PinBlock /\ pinPool' \in Seq(Block) /\ PoolGoesRound'
    BY <2>1, PoolStays
  <2>5. QED
    BY <2>1, <2>3, <2>4 DEF pinUserVars, PinInv, PinType, HoldersInv, OwnersInv
<1>9. CASE FreeSlots
  <2>1. PinBlock' = PinBlock /\ pinPool' \in Seq(Block) /\ PoolGoesRound'
    BY <1>9, PoolStays DEF FreeSlots
  <2>2. QED
    BY <1>9, <2>1 DEF FreeSlots, PinInv, PinType, HoldersInv, OwnersInv, DmaInv
<1>10. CASE FreeStages
  <2>1. /\ UNCHANGED <<stageAt, warmBlocks, fixBlock, dma, lost, users>>
        /\ tierAt = "freeing" /\ tierAt' = "none" /\ stages' = <<>>
        /\ HostFree(ToSet(stages))
    BY <1>10 DEF FreeStages
  <2>2. /\ PinBlock' = PinBlock /\ pinPool' \in Seq(Block) /\ PoolGoesRound'
        /\ \A i \in PinBlock :
             pinPool'[i].refcount = 1
               <=> i \in (ToSet(stages) \cup warmBlocks \cup lost \cup {fixBlock}) \ ToSet(stages)
    BY <2>1, GivenBlocks
  <2>3. ToSet(stages') = {} /\ IsInjective(stages') /\ Len(stages') = 0 /\ stages' \in Seq(Nat)
    BY <1>d, <2>1
  <2>4. PinType'
    BY <2>1, <2>2, <2>3 DEF PinInv, PinType
  <2>5. HoldersInv'
    BY <1>0, <2>1, <2>3 DEF PinInv, HoldersInv
  <2>6. OwnersInv'
    BY <2>1, <2>2, <2>3 DEF PinInv, OwnersInv
  <2>7. DmaInv'
    BY <2>1 DEF PinInv, DmaInv
  <2>8. QED
    BY <2>2, <2>4, <2>5, <2>6, <2>7 DEF PinInv
<1>11. CASE CloseWarm
  <2>1. /\ UNCHANGED <<tierAt, stageSize, stages, stageAt, fixBlock, dma, lost, users>>
        /\ tierAt = "none" /\ warmBlocks' = {} /\ HostFree(warmBlocks)
    BY <1>11 DEF CloseWarm
  <2>2. /\ PinBlock' = PinBlock /\ pinPool' \in Seq(Block) /\ PoolGoesRound'
        /\ \A i \in PinBlock :
             pinPool'[i].refcount = 1
               <=> i \in (ToSet(stages) \cup warmBlocks \cup lost \cup {fixBlock}) \ warmBlocks
    BY <2>1, GivenBlocks
  <2>3. PinType'
    BY <2>1, <2>2 DEF PinInv, PinType
  <2>4. HoldersInv'
    BY <1>0, <2>1, FS_EmptySet DEF PinInv, HoldersInv
  <2>5. OwnersInv'
    BY <2>1, <2>2 DEF PinInv, OwnersInv
  <2>6. DmaInv'
    BY <2>1 DEF PinInv, DmaInv
  <2>7. QED
    BY <2>2, <2>3, <2>4, <2>5, <2>6 DEF PinInv
<1>12. CASE FixWrites
  <2>1. UNCHANGED <<pinPool, pinUserVars, lost, users>> /\ dma = <<>>
    BY <1>12 DEF FixWrites, PinInv, HoldersInv, DmaInv
  <2>2. dma' = dma
    BY <1>12, <2>1, NothingSpoilt DEF FixWrites, PinInv
  <2>3. PinBlock' = PinBlock /\ pinPool' \in Seq(Block) /\ PoolGoesRound'
    BY <2>1, PoolStays
  <2>4. QED
    BY <2>1, <2>2, <2>3 DEF pinUserVars, PinInv, PinType, HoldersInv, OwnersInv, DmaInv
<1>13. CASE FixGives
  <2>1. /\ UNCHANGED <<tierAt, stageSize, stages, stageAt, warmBlocks, dma, lost, users>>
        /\ fixBlock' = 0 /\ fixBlock # 0 /\ HostFree({fixBlock})
    BY <1>13 DEF FixGives
  <2>2. /\ PinBlock' = PinBlock /\ pinPool' \in Seq(Block) /\ PoolGoesRound'
        /\ \A i \in PinBlock :
             pinPool'[i].refcount = 1
               <=> i \in (ToSet(stages) \cup warmBlocks \cup lost \cup {fixBlock}) \ {fixBlock}
    BY <2>1, GivenBlocks
  <2>3. PinType'
    BY <2>1, <2>2 DEF PinInv, PinType
  <2>4. OwnersInv'
    BY <1>e, <2>1, <2>2 DEF PinInv, PinType, OwnersInv
  <2>5. QED
    BY <2>1, <2>2, <2>3, <2>4 DEF PinInv, HoldersInv, DmaInv
<1>14. CASE FixStops
  <2>1. /\ UNCHANGED <<pinPool, tierAt, stageSize, stages, stageAt, warmBlocks, dma, users>>
        /\ fixBlock' = 0 /\ fixBlock # 0 /\ lost' = lost \cup {fixBlock}
    BY <1>14 DEF FixStops
  <2>2. PinBlock' = PinBlock /\ pinPool' \in Seq(Block) /\ PoolGoesRound'
    BY <2>1, PoolStays
  <2>3. PinType'
    BY <2>1, <2>2 DEF PinInv, PinType
  <2>4. OwnersInv'
    BY <1>e, <2>1, <2>2 DEF PinInv, PinType, OwnersInv
  <2>5. QED
    BY <2>1, <2>2, <2>3, <2>4 DEF PinInv, HoldersInv, DmaInv
<1>15. CASE DmaRuns
  <2>1. UNCHANGED <<pinPool, pinUserVars, lost, users>> /\ dma # <<>> /\ dma' = Tail(dma)
    BY <1>15 DEF DmaRuns
  <2>2. DmaInv'
    <3>1. PICK n \in Nat : n = Len(dma) /\ DOMAIN dma = 1..n /\ dma \in Seq(DmaCopy)
      BY DEF PinInv, DmaInv
    <3>2. PICK t : t = Tail(dma)
      OBVIOUS
    <3>3. /\ t \in Seq(DmaCopy) /\ Len(t) = n - 1 /\ n > 0
          /\ \A j \in 1..Len(t) : t[j] = dma[j + 1]
      BY <2>1, <3>1, <3>2, HeadTailProperties
    <3>4. \A j \in DOMAIN t : j + 1 \in DOMAIN dma /\ t[j] = dma[j + 1]
      BY <3>1, <3>3
    <3>5. QED
      BY <2>1, <3>2, <3>3, <3>4 DEF pinUserVars, PinInv, DmaInv
  <2>3. PinBlock' = PinBlock /\ pinPool' \in Seq(Block) /\ PoolGoesRound'
    BY <2>1, PoolStays
  <2>4. QED
    BY <2>1, <2>2, <2>3 DEF pinUserVars, PinInv, PinType, HoldersInv, OwnersInv
<1>16. CASE UNCHANGED pinVars
  <2>1. UNCHANGED <<pinPool, pinUserVars, dma, lost, users>>
    BY <1>16 DEF pinVars
  <2>2. PinBlock' = PinBlock /\ pinPool' \in Seq(Block) /\ PoolGoesRound'
    BY <2>1, PoolStays
  <2>3. QED
    BY <2>1, <2>2 DEF pinUserVars, PinInv, PinType, HoldersInv, OwnersInv, DmaInv
<1>17. QED
  BY <1>1, <1>2, <1>3, <1>4, <1>5, <1>6, <1>7, <1>8, <1>9, <1>10, <1>11, <1>12, <1>13, <1>14,
     <1>15, <1>16 DEF PinNext

(* A block is held by as many owners as the pool counts: one or none.      *)
LEMMA OwnersCount ==
  ASSUME PinInv
  PROVE  OneOwnerPerBlock
<1>1. ASSUME NEW i \in PinBlock
      PROVE  Cardinality({o \in 1..4 :
               i \in <<ToSet(stages), warmBlocks, {fixBlock}, lost>>[o]}) = pinPool[i].refcount
  <2>1. PICK O : O = {o \in 1..4 : i \in <<ToSet(stages), warmBlocks, {fixBlock}, lost>>[o]}
    OBVIOUS
  <2>2. /\ 1 \in O <=> i \in ToSet(stages)
        /\ 2 \in O <=> i \in warmBlocks
        /\ 3 \in O <=> i = fixBlock
        /\ 4 \in O <=> i \in lost
        /\ O \subseteq {1, 2, 3, 4}
    BY <2>1
  <2>3. /\ pinPool[i].refcount \in {0, 1}
        /\ pinPool[i].refcount = 1
             <=> i \in ToSet(stages) \/ i \in warmBlocks \/ i = fixBlock \/ i \in lost
    BY PoolFacts DEF PinInv, OwnersInv, Block
  <2>4. /\ ~(i \in ToSet(stages) /\ i \in warmBlocks)
        /\ ~(i \in ToSet(stages) /\ i \in lost) /\ ~(i \in warmBlocks /\ i \in lost)
        /\ i = fixBlock => i \notin ToSet(stages) /\ i \notin warmBlocks /\ i \notin lost
    BY DEF PinInv, OwnersInv
  <2>5. CASE pinPool[i].refcount = 0
    <3>1. O = {}
      BY <2>2, <2>3, <2>5
    <3>2. QED
      BY <2>1, <2>5, <3>1, FS_EmptySet
  <2>6. CASE pinPool[i].refcount = 1
    <3>1. \E o \in {1, 2, 3, 4} : O = {o}
      BY <2>2, <2>3, <2>4, <2>6
    <3>2. PICK o : O = {o}
      BY <3>1
    <3>3. QED
      BY <2>1, <2>6, <3>2, FS_Singleton
  <2>7. QED
    BY <2>3, <2>5, <2>6
<1>2. QED
  BY <1>1 DEF OneOwnerPerBlock, PinInv, OwnersInv

(* So what a user is handed is its own.                                    *)
LEMMA PinnedIsCounted == PinInv => PinnedIsOwned
<1> SUFFICES ASSUME PinInv PROVE PinnedIsOwned
  OBVIOUS
<1>1. PinTypeOK
  BY DEF PinInv, PinType, PinTypeOK, Block
<1>2. CopiesReadWhatWasStaged
  BY DEF PinInv, DmaInv, CopiesReadWhatWasStaged, ToSet
<1>3. OneOwnerPerBlock /\ PoolGoesRound
  BY OwnersCount DEF PinInv
<1>4. QED
  BY <1>1, <1>2, <1>3 DEF PinnedIsOwned

(* Pinned memory that changes hands is not read for its last owner, a      *)
(* block has one owner, and a sweep of tiers goes round on the same blocks.*)
THEOREM PinnedStaysOwned == PinSpec => []PinnedIsOwned
<1>1. QED
  BY PinnedIsCounted, PinInitInv, PinNextInv, PTL DEF PinSpec

-----------------------------------------------------------------------------
(* FixedPath.                                                              *)

Table == Seq(Nat \ {0})

(* The bytes of a set of tensors, and of one more.                         *)
LEMMA SizeIs ==
  ASSUME NEW table \in Table, NEW ts \in SUBSET DOMAIN table
  PROVE  /\ IsFiniteSet(ts) /\ Cardinality(ts) \in 0..Len(table)
         /\ IsFiniteSet(BytesOf(table, ts)) /\ SizeOf(table, ts) \in Nat
<1>1. DOMAIN table = 1..Len(table) /\ Len(table) \in Nat /\ \A t \in DOMAIN table : table[t] \in Nat
  BY DEF Table
<1>2. PICK m \in Nat : m = Len(table)
  BY <1>1
<1>3. IsFiniteSet(ts) /\ Cardinality(ts) <= Cardinality(1..m) /\ Cardinality(ts) \in Nat
  <2>1. IsFiniteSet(1..m)
    BY FS_Interval, m \in Int, 1 \in Int
  <2>2. ts \subseteq 1..m
    BY <1>1, <1>2
  <2>3. QED
    BY <2>1, <2>2, FS_Subset, FS_CardinalityType
<1>4. Cardinality(1..m) = m
  <2>1. Cardinality(1..m) = IF 1 > m THEN 0 ELSE m - 1 + 1
    BY FS_Interval, m \in Int, 1 \in Int
  <2>2. QED
    BY <2>1
<1>5. IsFiniteSet(BytesOf(table, ts))
  <2>1. \A t \in ts : IsFiniteSet({t} \X (1..table[t]))
    <3>1. ASSUME NEW t \in ts
          PROVE  IsFiniteSet({t} \X (1..table[t]))
      <4>1. PICK n \in Int : n = table[t]
        BY <1>1
      <4>2. IsFiniteSet({t}) /\ IsFiniteSet(1..n)
        BY FS_Singleton, FS_Interval, 1 \in Int
      <4>3. QED
        BY <4>1, <4>2, FS_Product
    <3>2. QED
      BY <3>1
  <2>2. IsFiniteSet({{t} \X (1..table[t]) : t \in ts})
    <3> DEFINE f == [t \in ts |-> {t} \X (1..table[t])]
    <3>1. {{t} \X (1..table[t]) : t \in ts} = {f[t] : t \in ts}
      OBVIOUS
    <3>2. f \in Surjection(ts, {f[t] : t \in ts})
      BY DEF Surjection
    <3> HIDE DEF f
    <3>3. IsFiniteSet({f[t] : t \in ts})
      BY <1>3, <3>2, FS_Surjection
    <3>4. QED
      BY <3>1, <3>3
  <2>3. QED
    BY <2>1, <2>2, FS_UNION DEF BytesOf
<1>6. SizeOf(table, ts) \in Nat
  BY <1>5, FS_CardinalityType DEF SizeOf
<1>7. QED
  BY <1>2, <1>3, <1>4, <1>5, <1>6

LEMMA SizeOfNone ==
  ASSUME NEW table
  PROVE  SizeOf(table, {}) = 0
<1>1. BytesOf(table, {}) = {}
  BY DEF BytesOf
<1>2. QED
  BY <1>1, FS_EmptySet DEF SizeOf

LEMMA SizeAdds ==
  ASSUME NEW table \in Table, NEW ts \in SUBSET DOMAIN table,
         NEW t \in DOMAIN table, t \notin ts
  PROVE  SizeOf(table, ts \cup {t}) = SizeOf(table, ts) + table[t]
<1>1. BytesOf(table, ts \cup {t}) = BytesOf(table, ts) \cup BytesOf(table, {t})
  BY DEF BytesOf
<1>2. BytesOf(table, ts) \cap BytesOf(table, {t}) = {}
  BY DEF BytesOf
<1>3. BytesOf(table, {t}) = {t} \X (1..table[t])
  BY DEF BytesOf
<1>4. PICK n \in Nat : n = table[t]
  BY DEF Table
<1>5. Cardinality({t} \X (1..n)) = n
  <2>1. IsFiniteSet({t}) /\ Cardinality({t}) = 1
    BY FS_Singleton
  <2>2. IsFiniteSet(1..n) /\ Cardinality(1..n) = IF 1 > n THEN 0 ELSE n - 1 + 1
    BY FS_Interval
  <2>3. Cardinality({t} \X (1..n)) = Cardinality({t}) * Cardinality(1..n)
    BY <2>1, <2>2, FS_Product
  <2>4. QED
    BY <2>1, <2>2, <2>3
<1>6. IsFiniteSet(BytesOf(table, ts)) /\ IsFiniteSet(BytesOf(table, {t}))
  BY SizeIs
<1>7. PICK A, B : A = BytesOf(table, ts) /\ B = BytesOf(table, {t})
  OBVIOUS
<1>8. Cardinality(A \cup B) = Cardinality(A) + Cardinality(B) - Cardinality(A \cap B)
  BY <1>6, <1>7, FS_Union
<1>9. Cardinality(A \cap B) = 0
  BY <1>2, <1>7, FS_EmptySet
<1>10. Cardinality(A) \in Nat /\ Cardinality(B) \in Nat
  BY <1>6, <1>7, FS_CardinalityType
<1>11. Cardinality(A \cup B) = Cardinality(A) + Cardinality(B)
  BY <1>8, <1>9, <1>10
<1>12. Cardinality(B) = n
  BY <1>3, <1>4, <1>5, <1>7
<1>13. QED
  BY <1>1, <1>4, <1>7, <1>11, <1>12 DEF SizeOf

LEMMA SizeGrows ==
  ASSUME NEW table \in Table, NEW ts \in SUBSET DOMAIN table, NEW ss \in SUBSET ts
  PROVE  SizeOf(table, ss) <= SizeOf(table, ts)
<1>1. BytesOf(table, ss) \subseteq BytesOf(table, ts)
  BY DEF BytesOf
<1>2. IsFiniteSet(BytesOf(table, ts))
  BY SizeIs
<1>3. QED
  BY <1>1, <1>2, FS_Subset DEF SizeOf

(* The order of tensors() is a strict total order.                         *)
LEMMA AheadOrders ==
  ASSUME NEW table \in Table
  PROVE  /\ \A t \in DOMAIN table : ~ Ahead(table, t, t)
         /\ \A s, t \in DOMAIN table : s = t \/ Ahead(table, s, t) \/ Ahead(table, t, s)
         /\ \A r, s, t \in DOMAIN table :
              Ahead(table, r, s) /\ Ahead(table, s, t) => Ahead(table, r, t)
<1>1. \A t \in DOMAIN table : table[t] \in Nat /\ t \in Nat
  BY DEF Table
<1>2. QED
  BY <1>1 DEF Ahead

(* So a set of tensors has a first and a last.                             *)
LEMMA FirstAhead ==
  ASSUME NEW table \in Table, NEW ts \in SUBSET DOMAIN table, ts # {}
  PROVE  \E t \in ts : AheadOf(table, ts, t) = {}
<1> DEFINE Places == {Cardinality(AheadOf(table, ts, t)) : t \in ts}
<1>f. \A t \in ts : IsFiniteSet(AheadOf(table, ts, t)) /\ Cardinality(AheadOf(table, ts, t)) \in Nat
  BY SizeIs, FS_Subset, FS_CardinalityType DEF AheadOf
<1>1. PICK t \in ts : \A s \in ts : Cardinality(AheadOf(table, ts, t)) <= Cardinality(AheadOf(table, ts, s))
  <2>1. Places \in SUBSET Nat /\ Places # {}
    BY <1>f
  <2>2. PICK x \in Places : \A y \in Places : x <= y
    <3> HIDE DEF Places
    <3>1. QED
      BY <2>1, Least
  <2>3. QED
    BY <2>2
<1>2. ASSUME NEW s \in AheadOf(table, ts, t)
      PROVE  FALSE
  <2>1. s \in ts /\ Ahead(table, s, t)
    BY DEF AheadOf
  <2>2. AheadOf(table, ts, s) \subseteq AheadOf(table, ts, t)
    BY <2>1, AheadOrders DEF AheadOf
  <2>3. s \notin AheadOf(table, ts, s)
    BY <2>1, AheadOrders DEF AheadOf
  <2>4. AheadOf(table, ts, s) # AheadOf(table, ts, t)
    BY <2>3
  <2>5. PICK A, B : A = AheadOf(table, ts, s) /\ B = AheadOf(table, ts, t)
    OBVIOUS
  <2>6. Cardinality(A) < Cardinality(B)
    <3>1. IsFiniteSet(B) /\ A \subseteq B /\ A # B
      BY <1>f, <2>2, <2>4, <2>5
    <3>2. Cardinality(A) <= Cardinality(B) /\ Cardinality(A) # Cardinality(B)
      BY <3>1, FS_Subset
    <3>3. Cardinality(A) \in Nat /\ Cardinality(B) \in Nat
      BY <1>f, <2>1, <2>5
    <3>4. QED
      BY <3>2, <3>3
  <2>7. Cardinality(B) <= Cardinality(A) /\ Cardinality(A) \in Nat /\ Cardinality(B) \in Nat
    BY <1>1, <1>f, <2>1, <2>5
  <2>8. QED
    BY <2>6, <2>7
<1>3. QED
  BY <1>2

LEMMA LastAhead ==
  ASSUME NEW table \in Table, NEW ts \in SUBSET DOMAIN table, ts # {}
  PROVE  \E t \in ts : ts = AheadOf(table, ts, t) \cup {t}
<1> DEFINE Places == {Cardinality(AheadOf(table, ts, t)) : t \in ts}
<1>f. \A t \in ts : IsFiniteSet(AheadOf(table, ts, t)) /\ Cardinality(AheadOf(table, ts, t)) \in 0..Len(table)
  BY SizeIs DEF AheadOf
<1>1. PICK t \in ts : \A s \in ts : Cardinality(AheadOf(table, ts, s)) <= Cardinality(AheadOf(table, ts, t))
  <2>0. PICK m \in Nat : m = Len(table)
    BY DEF Table
  <2>1. Places \in SUBSET (0..m) /\ Places # {}
    BY <1>f, <2>0
  <2>2. PICK x \in Places : \A y \in Places : y <= x
    <3> HIDE DEF Places
    <3>1. QED
      BY <2>1, Greatest
  <2>3. QED
    BY <2>2
<1>2. ASSUME NEW s \in ts, s # t, ~ Ahead(table, s, t)
      PROVE  FALSE
  <2>1. Ahead(table, t, s)
    BY <1>2, AheadOrders
  <2>2. AheadOf(table, ts, t) \subseteq AheadOf(table, ts, s)
    BY <2>1, AheadOrders DEF AheadOf
  <2>3. t \notin AheadOf(table, ts, t) /\ t \in AheadOf(table, ts, s)
    BY <2>1, AheadOrders DEF AheadOf
  <2>5. PICK A, B : A = AheadOf(table, ts, t) /\ B = AheadOf(table, ts, s)
    OBVIOUS
  <2>6. /\ Cardinality(A) <= Cardinality(B) /\ Cardinality(A) # Cardinality(B)
        /\ Cardinality(A) \in 0..Len(table) /\ Cardinality(B) \in 0..Len(table)
    <3>1. IsFiniteSet(B) /\ A \subseteq B /\ A # B
      BY <1>f, <2>2, <2>3, <2>5
    <3>2. Cardinality(A) <= Cardinality(B) /\ Cardinality(A) # Cardinality(B)
      BY <3>1, FS_Subset
    <3>3. QED
      BY <3>2, <1>f, <2>5
  <2>7. Cardinality(B) <= Cardinality(A)
    BY <1>1, <2>5
  <2>8. QED
    BY <2>6, <2>7
<1>3. QED
  BY <1>2 DEF AheadOf

(* A plan keeps within its budget, and what it leaves out does not fit.    *)
LEMMA PlanKeeps ==
  ASSUME NEW table \in Table, NEW budget \in Nat, NEW kept \in SUBSET DOMAIN table,
         IsPlan(table, budget, DOMAIN table, kept)
  PROVE  /\ SizeOf(table, kept) <= budget
         /\ \A t \in DOMAIN table \ kept : table[t] + SizeOf(table, kept) > budget
<1>1. SizeOf(table, kept) <= budget
  <2>1. CASE kept = {}
    BY <2>1, SizeOfNone
  <2>2. CASE kept # {}
    <3>1. PICK t \in kept : kept = AheadOf(table, kept, t) \cup {t}
      BY <2>2, LastAhead
    <3>2. t \notin AheadOf(table, kept, t) /\ AheadOf(table, kept, t) \subseteq kept
      BY AheadOrders DEF AheadOf
    <3>3. SizeOf(table, kept) = SizeOf(table, AheadOf(table, kept, t)) + table[t]
      <4>1. PICK before \in SUBSET DOMAIN table : before = AheadOf(table, kept, t)
        BY <3>2
      <4>2. SizeOf(table, before \cup {t}) = SizeOf(table, before) + table[t]
        BY <3>2, <4>1, SizeAdds
      <4>3. QED
        BY <3>1, <4>1, <4>2
    <3>4. QED
      BY <3>3 DEF IsPlan, FitsBudget
  <2>3. QED
    BY <2>1, <2>2
<1>2. ASSUME NEW t \in DOMAIN table \ kept
      PROVE  table[t] + SizeOf(table, kept) > budget
  <2>1. ~ (SizeOf(table, AheadOf(table, kept, t)) + table[t] <= budget)
    BY DEF IsPlan, FitsBudget
  <2>2. PICK before \in SUBSET kept : before = AheadOf(table, kept, t)
    BY DEF AheadOf
  <2>3. SizeOf(table, before) <= SizeOf(table, kept)
    BY SizeGrows
  <2>4. SizeOf(table, before) \in Nat /\ SizeOf(table, kept) \in Nat
    BY SizeIs
  <2>5. table[t] \in Nat
    BY DEF Table
  <2>6. QED
    BY <2>1, <2>2, <2>3, <2>4, <2>5
<1>3. QED
  BY <1>1, <1>2

(* A plan of the first tensors extends to the next one.                    *)
First(table, us) == \A t \in us, s \in DOMAIN table : Ahead(table, s, t) => s \in us

LEMMA PlanExtends ==
  ASSUME NEW table \in Table, NEW budget \in Nat, NEW us \in SUBSET DOMAIN table,
         NEW kept \in SUBSET us, First(table, us), IsPlan(table, budget, us, kept),
         NEW t \in DOMAIN table \ us, AheadOf(table, DOMAIN table \ us, t) = {}
  PROVE  /\ First(table, us \cup {t})
         /\ \E more \in SUBSET (us \cup {t}) : IsPlan(table, budget, us \cup {t}, more)
<1>1. First(table, us \cup {t})
  BY DEF First, AheadOf
<1>2. \A u \in us \cup {t} : ~ Ahead(table, t, u)
  BY AheadOrders DEF First
<1>3. \A u \in us \cup {t} : AheadOf(table, kept \cup {t}, u) = AheadOf(table, kept, u)
  BY <1>2 DEF AheadOf
<1>4. t \notin kept
  OBVIOUS
<1>5. CASE FitsBudget(table, budget, kept, t)
  <2>1. IsPlan(table, budget, us \cup {t}, kept \cup {t})
    BY <1>3, <1>4, <1>5 DEF IsPlan, FitsBudget
  <2>2. QED
    BY <1>1, <2>1
<1>6. CASE ~ FitsBudget(table, budget, kept, t)
  <2>1. IsPlan(table, budget, us \cup {t}, kept)
    BY <1>4, <1>6 DEF IsPlan
  <2>2. QED
    BY <1>1, <2>1
<1>7. QED
  BY <1>5, <1>6

(* So there is a plan for every table and budget, and Pinned is one.       *)
LEMMA PinnedIsPlan ==
  ASSUME NEW table \in Table, NEW budget \in Nat
  PROVE  /\ Pinned(table, budget) \in SUBSET DOMAIN table
         /\ IsPlan(table, budget, DOMAIN table, Pinned(table, budget))
<1> DEFINE Done  == {us \in SUBSET DOMAIN table :
                       First(table, us) /\ \E kept \in SUBSET us : IsPlan(table, budget, us, kept)}
           Sizes == {Cardinality(us) : us \in Done}
<1>1. PICK us \in Done : \A vs \in Done : Cardinality(vs) <= Cardinality(us)
  <2>0. PICK m \in Nat : m = Len(table)
    BY DEF Table
  <2>1. Sizes \in SUBSET (0..m)
    BY <2>0, SizeIs
  <2>2. {} \in Done
    BY DEF First, IsPlan
  <2> HIDE DEF Done
  <2>3. PICK x \in Sizes : \A y \in Sizes : y <= x
    <3>1. Sizes # {}
      BY <2>2
    <3> HIDE DEF Sizes
    <3>2. QED
      BY <2>1, <3>1, Greatest
  <2>4. QED
    BY <2>3
<1>2. us = DOMAIN table
  <2> SUFFICES ASSUME us # DOMAIN table PROVE FALSE
    OBVIOUS
  <2>1. us \in SUBSET DOMAIN table /\ First(table, us)
    OBVIOUS
  <2>2. PICK kept \in SUBSET us : IsPlan(table, budget, us, kept)
    OBVIOUS
  <2>3. PICK t \in DOMAIN table \ us : AheadOf(table, DOMAIN table \ us, t) = {}
    <3>1. DOMAIN table \ us # {} /\ DOMAIN table \ us \in SUBSET DOMAIN table
      BY <2>1
    <3>2. QED
      BY <3>1, FirstAhead
  <2>4. us \cup {t} \in Done
    <3>1. /\ First(table, us \cup {t})
          /\ \E more \in SUBSET (us \cup {t}) : IsPlan(table, budget, us \cup {t}, more)
      <4> HIDE DEF Done
      <4>1. PICK vs \in SUBSET DOMAIN table : vs = us
        BY <2>1
      <4>2. /\ kept \in SUBSET vs /\ First(table, vs) /\ IsPlan(table, budget, vs, kept)
            /\ t \in DOMAIN table \ vs /\ AheadOf(table, DOMAIN table \ vs, t) = {}
        BY <2>1, <2>2, <2>3, <4>1
      <4>3. PICK keep \in SUBSET vs, x \in DOMAIN table \ vs : keep = kept /\ x = t
        BY <4>2
      <4>4. /\ First(table, vs) /\ IsPlan(table, budget, vs, keep)
            /\ AheadOf(table, DOMAIN table \ vs, x) = {}
        BY <4>2, <4>3
      <4>5. /\ First(table, vs \cup {x})
            /\ \E more \in SUBSET (vs \cup {x}) : IsPlan(table, budget, vs \cup {x}, more)
        BY <4>4, PlanExtends
      <4>6. QED
        BY <4>1, <4>3, <4>5
    <3>2. us \cup {t} \in SUBSET DOMAIN table
      BY <2>1, <2>3
    <3>3. QED
      BY <3>1, <3>2
  <2>5. IsFiniteSet(us) /\ Cardinality(us) \in Nat
    BY <2>1, SizeIs
  <2>6. Cardinality(us \cup {t}) = Cardinality(us) + 1
    BY <2>3, <2>5, FS_AddElement
  <2> HIDE DEF Done
  <2>7. Cardinality(us \cup {t}) <= Cardinality(us)
    BY <1>1, <2>4
  <2>8. QED
    BY <2>5, <2>6, <2>7
<1>3. \E kept \in SUBSET DOMAIN table : IsPlan(table, budget, DOMAIN table, kept)
  BY <1>2
<1>4. QED
  BY <1>3 DEF Pinned

(* What load has done of the table so far.                                 *)
FixType ==
  /\ fixState \in {"new", "copying", "loaded", "raised", "freed"}
  /\ fixTable \in Table /\ fixBudget \in Nat \cup {NoBudget} /\ fixStage \in BOOLEAN
  /\ fixNames \subseteq DOMAIN fixTable /\ fixDev \subseteq fixNames /\ fixPtrs \subseteq fixDev
  /\ fixRest \subseteq DOMAIN fixTable

ReachedInv ==
  /\ fixState = "new" => fixDev = {} /\ fixMissing = {} /\ fixBudget = NoBudget
  /\ fixPtrs \cap fixMissing = {} /\ fixDev \cap fixRest = {} /\ fixMissing \cap fixRest = {}
  /\ fixState \in {"copying", "loaded"} => fixPtrs \cup fixMissing \cup fixRest = DOMAIN fixTable
  /\ fixState = "loaded" => fixRest = {}
  /\ DeviceIsNamed

PlanInv ==
  fixBudget # NoBudget =>
    /\ SizeOf(fixTable, fixNames) <= fixBudget
    /\ \A t \in DOMAIN fixTable \ fixNames :
         fixTable[t] + SizeOf(fixTable, fixNames) > fixBudget

CountInv == resident = SizeOf(fixTable, fixPtrs)

FixInv == FixType /\ ReachedInv /\ PlanInv /\ CountInv

LEMMA FixInitInv == FixInit => FixInv
<1> SUFFICES ASSUME FixInit PROVE FixInv
  OBVIOUS
<1> USE DEF FixInit
<1>1. <<>> \in Table /\ DOMAIN <<>> = {}
  BY DEF Table
<1>2. FixType /\ ReachedInv /\ PlanInv
  BY <1>1 DEF FixType, ReachedInv, DeviceIsNamed, PlanInv
<1>3. CountInv
  BY SizeOfNone DEF CountInv
<1>4. QED
  BY <1>2, <1>3 DEF FixInv

LEMMA FixNextInv == FixInv /\ [FixNext]_fixVars => FixInv'
<1> SUFFICES ASSUME FixInv, [FixNext]_fixVars PROVE FixInv'
  OBVIOUS
<1>u. FixType /\ ReachedInv /\ PlanInv /\ CountInv
  BY DEF FixInv
<1>1. CASE UNCHANGED fixVars
  BY <1>u, <1>1 DEF fixVars, FixInv, FixType, ReachedInv, PlanInv, CountInv, DeviceIsNamed
<1>2. ASSUME NEW table \in FixTables, NEW b \in FixBudgets \cup {NoBudget}, FixLoad(table, b)
      PROVE  FixInv'
  <2>1. table \in Table /\ b \in Nat \cup {NoBudget}
    BY FixedPathAssumption DEF FixedPathAssumption, Table
  <2>2. fixDev = {} /\ fixPtrs = {} /\ fixMissing = {} /\ resident = 0
    BY <1>u, <1>2, SizeOfNone DEF FixLoad, FixType, ReachedInv, CountInv
  <2>3. b = NoBudget => fixNames' = DOMAIN table
    BY <1>2 DEF FixLoad
  <2>4. ASSUME b # NoBudget
        PROVE  /\ fixNames' \subseteq DOMAIN table /\ SizeOf(table, fixNames') <= b
               /\ \A t \in DOMAIN table \ fixNames' : table[t] + SizeOf(table, fixNames') > b
    <3>1. b \in Nat
      BY <2>1, <2>4
    <3>2. PICK kept \in SUBSET DOMAIN table :
            kept = Pinned(table, b) /\ IsPlan(table, b, DOMAIN table, kept)
      BY <2>1, <3>1, PinnedIsPlan
    <3>3. fixNames' = kept
      BY <1>2, <2>4, <3>2 DEF FixLoad
    <3>4. QED
      BY <2>1, <3>1, <3>2, <3>3, PlanKeeps
  <2>5. /\ fixTable' = table /\ fixBudget' = b /\ fixRest' = DOMAIN table
        /\ fixState' = "copying" /\ fixStage' \in BOOLEAN
        /\ fixDev' = {} /\ fixPtrs' = {} /\ fixMissing' = {} /\ resident' = 0
    BY <1>2, <2>2 DEF FixLoad
  <2>6. FixType'
    BY <2>1, <2>3, <2>4, <2>5 DEF FixType
  <2>7. ReachedInv'
    BY <2>5 DEF ReachedInv, DeviceIsNamed
  <2>8. PlanInv'
    BY <2>4, <2>5 DEF PlanInv
  <2>9. CountInv'
    BY <2>5, SizeOfNone DEF CountInv
  <2>10. QED
    BY <2>6, <2>7, <2>8, <2>9 DEF FixInv
<1>3. ASSUME NEW t \in DOMAIN fixTable, FixLeaveOut(t)
      PROVE  FixInv'
  <2>1. FixType'
    BY <1>u, <1>3 DEF FixLeaveOut, FixTurn, FixType
  <2>2. ReachedInv'
    BY <1>u, <1>3 DEF FixLeaveOut, FixTurn, ReachedInv, DeviceIsNamed, FixType
  <2>3. PlanInv' /\ CountInv'
    BY <1>u, <1>3 DEF FixLeaveOut, PlanInv, CountInv
  <2>4. QED
    BY <2>1, <2>2, <2>3 DEF FixInv
<1>4. ASSUME NEW t \in DOMAIN fixTable, FixCopy(t)
      PROVE  FixInv'
  <2>1. FixType'
    BY <1>u, <1>4 DEF FixCopy, FixTurn, FixType
  <2>2. ReachedInv'
    BY <1>u, <1>4 DEF FixCopy, FixTurn, ReachedInv, DeviceIsNamed, FixType
  <2>3. PlanInv'
    BY <1>u, <1>4 DEF FixCopy, PlanInv
  <2>4. CountInv'
    <3>1. t \notin fixPtrs /\ fixPtrs \subseteq DOMAIN fixTable /\ fixTable \in Table
      BY <1>u, <1>4 DEF FixCopy, FixTurn, ReachedInv, FixType
    <3>2. PICK table \in Table, ts \in SUBSET DOMAIN fixTable :
            table = fixTable /\ ts = fixPtrs
      BY <3>1
    <3>3. SizeOf(table, ts \cup {t}) = SizeOf(table, ts) + table[t]
      BY <3>1, <3>2, SizeAdds
    <3>4. fixTable' = fixTable /\ fixPtrs' = fixPtrs \cup {t} /\ resident' = resident + fixTable[t]
      BY <1>4 DEF FixCopy
    <3>5. QED
      BY <1>u, <3>2, <3>3, <3>4 DEF CountInv
  <2>5. QED
    BY <2>1, <2>2, <2>3, <2>4 DEF FixInv
<1>5. ASSUME NEW t \in DOMAIN fixTable, FixRaises(t)
      PROVE  FixInv'
  <2>1. FixType'
    BY <1>u, <1>5 DEF FixRaises, FixTurn, FixType
  <2>2. ReachedInv'
    BY <1>u, <1>5 DEF FixRaises, FixTurn, ReachedInv, DeviceIsNamed, FixType
  <2>3. PlanInv' /\ CountInv'
    BY <1>u, <1>5 DEF FixRaises, PlanInv, CountInv
  <2>4. QED
    BY <2>1, <2>2, <2>3 DEF FixInv
<1>6. CASE FixLoaded
  <2>1. FixType'
    BY <1>u, <1>6 DEF FixLoaded, FixType
  <2>2. ReachedInv'
    BY <1>u, <1>6 DEF FixLoaded, ReachedInv, DeviceIsNamed
  <2>3. PlanInv' /\ CountInv'
    BY <1>u, <1>6 DEF FixLoaded, PlanInv, CountInv
  <2>4. QED
    BY <2>1, <2>2, <2>3 DEF FixInv
<1>7. CASE FixFree
  <2>1. FixType'
    BY <1>u, <1>7 DEF FixFree, FixType
  <2>2. ReachedInv'
    BY <1>u, <1>7 DEF FixFree, ReachedInv, DeviceIsNamed, FixType
  <2>3. PlanInv'
    BY <1>u, <1>7 DEF FixFree, PlanInv
  <2>4. CountInv'
    BY <1>7, SizeOfNone DEF FixFree, CountInv
  <2>5. QED
    BY <2>1, <2>2, <2>3, <2>4 DEF FixInv
<1>8. QED
  BY <1>1, <1>2, <1>3, <1>4, <1>5, <1>6, <1>7 DEF FixNext

(* Which accounts for every tensor and byte.                               *)
LEMMA FixedCounts == FixInv => FixedIsAccounted
<1> SUFFICES ASSUME FixInv PROVE FixedIsAccounted
  OBVIOUS
<1>u. FixType /\ ReachedInv /\ PlanInv /\ CountInv
  BY DEF FixInv
<1>1. fixTable \in Table /\ fixNames \in SUBSET DOMAIN fixTable /\ fixPtrs \in SUBSET fixNames
  BY <1>u DEF FixType
<1>2. PICK table \in Table, names \in SUBSET DOMAIN fixTable, ptrs \in SUBSET fixNames :
        table = fixTable /\ names = fixNames /\ ptrs = fixPtrs
  BY <1>1
<1>3. /\ SizeOf(table, ptrs) <= SizeOf(table, names)
      /\ SizeOf(table, ptrs) \in Nat /\ SizeOf(table, names) \in Nat
  BY <1>2, SizeGrows, SizeIs
<1>4. FixTypeOK
  BY <1>u, <1>2, <1>3 DEF FixTypeOK, FixType, CountInv
<1>5. ResidentOrMissing
  BY <1>u DEF ResidentOrMissing, ReachedInv
<1>6. WithinBudget
  <2>1. ASSUME fixBudget # NoBudget
        PROVE  resident <= fixBudget
    <3>1. fixBudget \in Nat /\ SizeOf(table, names) <= fixBudget
      BY <1>u, <1>2, <2>1 DEF FixType, PlanInv
    <3>2. resident = SizeOf(table, ptrs)
      BY <1>u, <1>2 DEF CountInv
    <3>3. QED
      BY <1>3, <3>1, <3>2
  <2>2. QED
    BY <1>u, <2>1 DEF WithinBudget, CountInv, PlanInv
<1>7. QED
  BY <1>u, <1>4, <1>5, <1>6 DEF FixedIsAccounted, ReachedInv

(* The fixed path accounts for every tensor and byte it holds, whatever    *)
(* the table, the budget and the card's refusals (residency.py:94-189): it *)
(* stays in its budget, leaves out only what would not fit, and holds      *)
(* device memory without a pointer to it only after an error.              *)
THEOREM FixedStaysAccounted == FixSpec => []FixedIsAccounted
<1>1. QED
  BY FixInitInv, FixNextInv, FixedCounts, PTL DEF FixSpec

(* In a process whose parts share nothing that they write, the tensors on  *)
(* the device and the memory pinned on the host both stay accounted for    *)
(* (residency.py:94-189, the pool of sabah_rt.cu).                        *)
THEOREM MemoryStaysAccounted == HostSpec => []MemoryIsAccounted
<1>1. HostInit => FixInv /\ PinInv
  BY FixInitInv, PinInitInv DEF HostInit
<1>2. FixInv /\ PinInv /\ [HostNext]_hostVars => (FixInv /\ PinInv)'
  <2>1. [HostNext]_hostVars => [FixNext]_fixVars
    BY DEF HostNext, hostVars, BankRuns, FixRuns, PinRuns, ExRuns, NgramRuns, ProxyRuns
  <2>2. [HostNext]_hostVars => [PinNext]_pinVars
    BY DEF HostNext, hostVars, BankRuns, FixRuns, PinRuns, ExRuns, NgramRuns, ProxyRuns
  <2>3. QED
    BY <2>1, <2>2, FixNextInv, PinNextInv
<1>3. FixInv /\ PinInv => MemoryIsAccounted
  BY FixedCounts, PinnedIsCounted DEF MemoryIsAccounted
<1>4. QED
  BY <1>1, <1>2, <1>3, PTL DEF HostSpec

-----------------------------------------------------------------------------
(* ExpertBank.                                                             *)


BankHandle == Piece \cup {BankNil}

(* The state the argument is about, with its types.                        *)
MemType ==
  /\ bankState \in {"none", "opening", "open", "raised", "closed"}
  /\ bankBlocks \in SUBSET BankBlock /\ bankMode \in {"mmap", "ram"}
  /\ warmWanted \in SUBSET BankBlock
  /\ ramKeys \in SUBSET BankKey /\ DOMAIN warmOf \subseteq BankKey
  /\ pinnedBufs \in SUBSET Piece
LoadType ==
  /\ loading \in {"no", "mmap", "ram", "warm"}
  /\ loadRest \in SUBSET BankKey /\ loadKey \in BankKey \cup {BankNil}
  /\ loadBufs \in Seq(BankHandle) /\ Len(loadBufs) <= BankExperts
ReaderType ==
  /\ filePos \in BankHandle /\ bankLock \in BankReader \cup {BankNil}
  /\ slicePc \in [BankReader -> {"idle", "lock", "look", "read", "got"}]
  /\ sliceOf \in [BankReader -> BankHandle] /\ sliceGot \in [BankReader -> BankHandle]
  /\ sliced \in BOOLEAN

(* Who is between the lock and the return holds the lock, and only he      *)
(* moves the handle: at its read it stands where its seek left it.         *)
LockInv ==
  \A r \in BankReader :
    /\ slicePc[r] \in {"look", "read"} <=> bankLock = r
    /\ slicePc[r] # "idle" => sliceOf[r] \in Piece /\ sliced
    /\ slicePc[r] = "read" => filePos = sliceOf[r]
    /\ slicePc[r] = "got" => sliceGot[r] = sliceOf[r]

(* Loads and slices are apart, and a bank that is not open has neither     *)
(* readers nor, once its constructor is over, a load.                      *)
ApartInv ==
  /\ (loading # "no" \/ bankState # "open") => \A r \in BankReader : slicePc[r] = "idle"
  /\ loading # "no" => bankState \in {"opening", "open"}
  /\ loading = "ram" => bankState = "opening"
  /\ bankState = "opening" => loading # "no"

(* A load's buffers hold the experts of its tensor in order, and the       *)
(* handle stands at the next one.                                          *)
LoadInv ==
  /\ loadKey # BankNil =>
       /\ loading = "warm" /\ loadKey \notin ramKeys
       /\ \A i \in 1..Len(loadBufs) : loadBufs[i] = <<loadKey, i - 1>>
                                      /\ <<loadKey, i - 1>> \in pinnedBufs
       /\ Len(loadBufs) < BankExperts => filePos = <<loadKey, Len(loadBufs)>>
  /\ loading = "warm" => loadRest \cap ramKeys = {}

(* What is pinned is pinned by a warm load, which comes after the copies.  *)
WarmInv ==
  /\ bankState = "none" \/ loading \in {"ram", "mmap"} => pinnedBufs = {} /\ DOMAIN warmOf = {}
  /\ PinnedOrCopied
  /\ bankState = "closed" => pinnedBufs = {} /\ bankLock = BankNil

BankInv ==
  MemType /\ LoadType /\ ReaderType /\ LockInv /\ ApartInv /\ LoadInv /\ WarmInv
    /\ WarmHoldsItsExperts

(* A bank that was not constructed.                                        *)
LEMMA BankInitial == ASSUME BankInit PROVE BankInv
<1>1. DOMAIN warmOf = {} /\ loadBufs \in Seq(BankHandle) /\ Len(loadBufs) = 0
  BY DEF BankInit
<1>2. MemType
  BY <1>1 DEF BankInit, MemType
<1>3. LoadType
  BY <1>1, BankAssumption DEF BankInit, LoadType
<1>4. ReaderType
  BY DEF BankInit, ReaderType, BankHandle
<1>5. LockInv /\ ApartInv /\ LoadInv
  BY BankAssumption DEF BankInit, LockInv, ApartInv, LoadInv
<1>6. WarmInv /\ WarmHoldsItsExperts
  BY <1>1 DEF BankInit, WarmInv, PinnedOrCopied, WarmHoldsItsExperts
<1>7. QED
  BY <1>2, <1>3, <1>4, <1>5, <1>6 DEF BankInv

(* The invariant's promise.                                                *)
LEMMA BankPromise == ASSUME BankInv PROVE BankServes
<1>1. BankTypeOK
  BY DEF BankInv, MemType, LoadType, ReaderType, BankTypeOK, BankHandle
<1>2. SliceIsItsExpert /\ WarmHoldsItsExperts /\ PinnedOrCopied /\ ClosedIsUnpinned
  BY DEF BankInv, LockInv, WarmInv, SliceIsItsExpert, ClosedIsUnpinned
<1>3. QED
  BY <1>1, <1>2 DEF BankServes

(* Opening and loading: no reader is there to see it.                      *)
LEMMA BankOpens ==
  ASSUME BankInv, NEW keep \in SUBSET BankBlock, NEW warm \in SUBSET BankBlock,
         NEW mode \in {"mmap", "ram"}, OpenBank(keep, warm, mode)
  PROVE  BankInv'
<1>1. KeysOf(keep) \in SUBSET BankKey
  BY DEF KeysOf, BankKey
<1>2. MemType' /\ LoadType' /\ ReaderType'
  BY <1>1 DEF BankInv, OpenBank, MemType, LoadType, ReaderType, bankMem, bankReaders
<1>3. LockInv' /\ ApartInv'
  BY DEF BankInv, OpenBank, LockInv, ApartInv, bankMem, bankReaders
<1>4. LoadInv' /\ WarmInv' /\ WarmHoldsItsExperts'
  <2>1. bankState = "none" /\ loading = "no" /\ loadKey = BankNil /\ DOMAIN warmOf = {}
        /\ pinnedBufs = {}
    BY DEF OpenBank, BankInv, ApartInv, LoadInv, WarmInv
  <2>2. LoadInv'
    BY <2>1 DEF OpenBank, LoadInv
  <2>3. WarmInv' /\ WarmHoldsItsExperts'
    BY <2>1 DEF OpenBank, bankMem, WarmInv, PinnedOrCopied, WarmHoldsItsExperts
  <2>4. QED
    BY <2>2, <2>3
<1>5. QED
  BY <1>2, <1>3, <1>4 DEF BankInv

LEMMA BankLoadsRam ==
  ASSUME BankInv, NEW k \in BankKey, LoadRam(k)
  PROVE  BankInv'
<1>1. MemType' /\ LoadType' /\ ReaderType'
  BY DEF BankInv, LoadRam, MemType, LoadType, ReaderType, bankFile, bankReaders, BankHandle
<1>2. LockInv' /\ ApartInv'
  BY DEF BankInv, LoadRam, LockInv, ApartInv, bankFile, bankReaders
<1>3. LoadInv' /\ WarmInv' /\ WarmHoldsItsExperts'
  BY DEF BankInv, LoadRam, LoadInv, WarmInv, PinnedOrCopied, WarmHoldsItsExperts, bankFile
<1>4. QED
  BY <1>1, <1>2, <1>3 DEF BankInv

(* Only tensors that are in RAM in neither way are loaded.                 *)
LEMMA ColdKeys ==
  ASSUME BankInv, NEW blocks
  PROVE  StillCold(blocks) \in SUBSET BankKey /\ StillCold(blocks) \cap ramKeys = {}
BY DEF StillCold, KeysOf, BankKey, BankInv, MemType

LEMMA BankIsConstructed ==
  ASSUME BankInv, Constructed
  PROVE  BankInv'
<1>1. StillCold(warmWanted) \in SUBSET BankKey /\ StillCold(warmWanted) \cap ramKeys = {}
  BY ColdKeys
<1>2. MemType' /\ LoadType' /\ ReaderType'
  BY <1>1 DEF BankInv, Constructed, MemType, LoadType, ReaderType, bankMem, bankReaders
<1>3. LockInv' /\ ApartInv'
  BY DEF BankInv, Constructed, LockInv, ApartInv, bankReaders
<1>4. LoadInv' /\ WarmInv' /\ WarmHoldsItsExperts'
  BY <1>1 DEF BankInv, Constructed, LoadInv, WarmInv, PinnedOrCopied, WarmHoldsItsExperts, bankMem
<1>5. QED
  BY <1>2, <1>3, <1>4 DEF BankInv

LEMMA BankLoadsWarm ==
  ASSUME BankInv, ~LoadsLive, NEW blocks \in SUBSET BankBlock, LoadWarm(blocks)
  PROVE  BankInv'
<1>1. StillCold(Asked(blocks)) \in SUBSET BankKey /\ StillCold(Asked(blocks)) \cap ramKeys = {}
  BY ColdKeys
<1>2. MemType' /\ LoadType' /\ ReaderType'
  BY <1>1 DEF BankInv, LoadWarm, MemType, LoadType, ReaderType, bankFile, bankMem, bankReaders
<1>3. LockInv' /\ ApartInv'
  BY DEF BankInv, LoadWarm, LockInv, ApartInv, bankFile, bankReaders
<1>4. LoadInv' /\ WarmInv' /\ WarmHoldsItsExperts'
  BY <1>1 DEF BankInv, LoadWarm, LoadInv, WarmInv, PinnedOrCopied, WarmHoldsItsExperts,
     bankFile, bankMem
<1>5. QED
  BY <1>2, <1>3, <1>4 DEF BankInv

LEMMA BankSeeks ==
  ASSUME BankInv, NEW k \in BankKey, WarmSeek(k)
  PROVE  BankInv'
<1>1. <<k, 0>> \in Piece /\ k # BankNil
  BY BankAssumption DEF Piece
<1>2. MemType' /\ LoadType' /\ ReaderType'
  BY <1>1, BankAssumption DEF BankInv, WarmSeek, MemType, LoadType, ReaderType, bankFile, bankMem,
     bankReaders, BankHandle
<1>3. LockInv' /\ ApartInv'
  BY DEF BankInv, WarmSeek, LockInv, ApartInv, bankFile, bankReaders
<1>4. LoadInv' /\ WarmInv' /\ WarmHoldsItsExperts'
  BY <1>1 DEF BankInv, WarmSeek, LoadInv, WarmInv, PinnedOrCopied, WarmHoldsItsExperts,
     bankFile, bankMem
<1>5. QED
  BY <1>2, <1>3, <1>4 DEF BankInv

(* A sequential read finds the handle where the read before left it.       *)
LEMMA BankReads ==
  ASSUME BankInv, WarmRead
  PROVE  BankInv'
<1>1. /\ loading = "warm" /\ loadKey \in BankKey /\ loadKey # BankNil
      /\ filePos = <<loadKey, Len(loadBufs)>> /\ filePos \in Piece /\ filePos # BankNil
      /\ Len(loadBufs) \in 0..BankExperts - 1
  BY BankAssumption DEF BankInv, WarmRead, LoadInv, LoadType, Piece
<1>2. filePos' \in BankHandle
      /\ (Len(loadBufs) + 1 < BankExperts => filePos' = <<loadKey, Len(loadBufs) + 1>>)
  BY <1>1, BankAssumption DEF WarmRead, AfterRead, Piece, BankHandle
<1>3. /\ loadBufs' \in Seq(BankHandle) /\ Len(loadBufs') = Len(loadBufs) + 1
      /\ loadBufs'[Len(loadBufs) + 1] = filePos
      /\ \A i \in 1..Len(loadBufs) : loadBufs'[i] = loadBufs[i]
  BY <1>1 DEF WarmRead, BankInv, LoadType, BankHandle
<1>4. pinnedBufs' = pinnedBufs \cup {filePos}
  BY <1>1 DEF WarmRead
<1>5. MemType' /\ LoadType' /\ ReaderType'
  <2>1. MemType'
    BY <1>1, <1>4 DEF BankInv, WarmRead, MemType, bankFile
  <2>2. LoadType'
    <3>1. PICK n \in Nat : n = Len(loadBufs) /\ n < BankExperts
      BY <1>1, BankAssumption
    <3>2. Len(loadBufs') <= BankExperts
      BY <1>3, <3>1, BankAssumption
    <3>3. QED
      BY <1>1, <1>3, <3>2 DEF BankInv, WarmRead, LoadType
  <2>3. ReaderType'
    BY <1>1, <1>2 DEF BankInv, WarmRead, ReaderType, bankReaders
  <2>4. QED
    BY <2>1, <2>2, <2>3
<1>6. LockInv' /\ ApartInv'
  BY <1>1 DEF BankInv, WarmRead, LockInv, ApartInv, bankFile, bankReaders
<1>7. LoadInv'
  <2>1. \A i \in 1..Len(loadBufs') : loadBufs'[i] = <<loadKey, i - 1>>
                                     /\ <<loadKey, i - 1>> \in pinnedBufs'
    <3>1. PICK n \in Nat : n = Len(loadBufs) /\ Len(loadBufs') = n + 1
      BY <1>1, <1>3
    <3>2. ASSUME NEW i \in 1..(n + 1)
          PROVE  loadBufs'[i] = <<loadKey, i - 1>> /\ <<loadKey, i - 1>> \in pinnedBufs'
      <4>1. CASE i \in 1..n
        BY <1>1, <1>3, <1>4, <3>1, <4>1 DEF BankInv, LoadInv
      <4>2. CASE i = n + 1
        <5>1. i - 1 = n /\ loadBufs'[i] = filePos /\ filePos = <<loadKey, n>>
          BY <1>1, <1>3, <3>1, <4>2
        <5>2. QED
          BY <1>4, <5>1
      <4>3. QED
        BY <4>1, <4>2
    <3>3. QED
      BY <3>1, <3>2
  <2>2. QED
    BY <1>1, <1>2, <1>3, <2>1 DEF BankInv, LoadInv, WarmRead
<1>8. WarmInv' /\ WarmHoldsItsExperts'
  <2>1. bankState \in {"opening", "open"}
    BY <1>1 DEF BankInv, ApartInv
  <2>2. WarmInv'
    BY <1>1, <1>4, <2>1 DEF BankInv, LoadInv, WarmRead, WarmInv, PinnedOrCopied, bankFile
  <2>3. QED
    BY <1>4, <2>2 DEF BankInv, WarmRead, WarmHoldsItsExperts, bankFile
<1>9. QED
  BY <1>5, <1>6, <1>7, <1>8 DEF BankInv

LEMMA BankKeeps ==
  ASSUME BankInv, WarmKeep
  PROVE  BankInv'
<1>1. loading = "warm" /\ loadKey \in BankKey /\ Len(loadBufs) = BankExperts
  BY DEF BankInv, WarmKeep, LoadType
<1>2. MemType' /\ LoadType' /\ ReaderType'
  BY <1>1, BankAssumption DEF BankInv, WarmKeep, MemType, LoadType, ReaderType, bankFile, bankReaders
<1>3. LockInv' /\ ApartInv'
  BY DEF BankInv, WarmKeep, LockInv, ApartInv, bankFile, bankReaders
<1>4. LoadInv' /\ WarmInv'
  BY <1>1 DEF BankInv, ApartInv, WarmKeep, LoadInv, WarmInv, PinnedOrCopied, bankFile
<1>5. WarmHoldsItsExperts'
  <2>0. bankState' = bankState /\ pinnedBufs' = pinnedBufs
    BY DEF WarmKeep, bankFile
  <2> SUFFICES ASSUME NEW k \in (DOMAIN warmOf)', NEW e \in 0..BankExperts - 1
               PROVE  /\ warmOf'[k][e + 1] = <<k, e>>
                      /\ bankState \in {"opening", "open"} => <<k, e>> \in pinnedBufs
    BY <2>0 DEF WarmHoldsItsExperts
  <2>1. CASE k = loadKey
    <3>1. warmOf'[k] = loadBufs
      BY <2>1 DEF WarmKeep
    <3>2. e + 1 \in 1..Len(loadBufs) /\ (e + 1) - 1 = e
      BY <1>1, BankAssumption
    <3>3. QED
      BY <2>1, <3>1, <3>2 DEF BankInv, LoadInv, WarmKeep
  <2>2. CASE k # loadKey
    BY <2>2 DEF BankInv, WarmHoldsItsExperts, WarmKeep
  <2>3. QED
    BY <2>1, <2>2
<1>6. QED
  BY <1>2, <1>3, <1>4, <1>5 DEF BankInv

LEMMA LoadsEnd ==
  ASSUME BankInv, WarmReturns \/ LoadRaises
  PROVE  BankInv'
<1>1. bankState \in {"opening", "open"}
  BY DEF BankInv, WarmReturns, LoadRaises, ApartInv
<1>2. MemType' /\ LoadType' /\ ReaderType'
  <2>1. <<>> \in Seq(BankHandle) /\ Len(<<>>) = 0 /\ 0 <= BankExperts
    BY BankAssumption
  <2>2. CASE WarmReturns
    BY <2>2 DEF BankInv, WarmReturns, MemType, LoadType, ReaderType, bankMem, bankReaders
  <2>3. CASE LoadRaises
    <3>1. loadBufs' \in Seq(BankHandle) /\ Len(loadBufs') <= BankExperts
      BY <2>1, <2>3 DEF LoadRaises
    <3>2. MemType' /\ ReaderType'
      BY <2>3, <1>1 DEF BankInv, LoadRaises, MemType, ReaderType, bankMem, bankReaders
    <3>3. LoadType'
      BY <2>3, <3>1 DEF LoadRaises, LoadType
    <3>4. QED
      BY <3>2, <3>3
  <2>4. QED
    BY <2>2, <2>3
<1>3. LockInv' /\ ApartInv'
  BY <1>1 DEF BankInv, WarmReturns, LoadRaises, LockInv, ApartInv, bankReaders
<1>4. LoadInv' /\ WarmInv' /\ WarmHoldsItsExperts'
  BY <1>1 DEF BankInv, WarmReturns, LoadRaises, LoadInv, WarmInv, PinnedOrCopied,
     WarmHoldsItsExperts, bankMem
<1>5. QED
  BY <1>2, <1>3, <1>4 DEF BankInv

(* Closing: nobody is in the bank.                                         *)
LEMMA BankCloses ==
  ASSUME BankInv, CloseBank
  PROVE  BankInv'
<1>1. MemType' /\ LoadType' /\ ReaderType'
  BY DEF BankInv, CloseBank, MemType, LoadType, ReaderType, bankReaders, bankLoad, BankHandle
<1>2. LockInv' /\ ApartInv'
  BY DEF BankInv, CloseBank, LockInv, ApartInv, bankReaders, bankLoad
<1>3. LoadInv' /\ WarmInv' /\ WarmHoldsItsExperts'
  BY DEF BankInv, CloseBank, LoadInv, WarmInv, PinnedOrCopied, WarmHoldsItsExperts, bankLoad
<1>4. QED
  BY <1>1, <1>2, <1>3 DEF BankInv

(* A reader's step changes nothing of the bank's memory, and comes when no *)
(* load is under way.                                                      *)
LEMMA ReaderLeavesBank ==
  ASSUME BankInv, NEW r \in BankReader, loading = "no", bankState = "open",
         UNCHANGED <<bankFile, bankMem, bankLoad>>
  PROVE  /\ MemType' /\ LoadType' /\ ApartInv' /\ LoadInv' /\ WarmInv' /\ WarmHoldsItsExperts'
<1>1. MemType' /\ LoadType'
  BY DEF BankInv, MemType, LoadType, bankFile, bankMem, bankLoad
<1>2. ApartInv' /\ LoadInv'
  BY DEF BankInv, ApartInv, LoadInv, bankFile, bankMem, bankLoad
<1>3. WarmInv' /\ WarmHoldsItsExperts'
  BY DEF BankInv, WarmInv, PinnedOrCopied, WarmHoldsItsExperts, bankFile, bankMem, bankLoad
<1>4. QED
  BY <1>1, <1>2, <1>3

LEMMA BankIsRead ==
  ASSUME BankInv, ~LoadsLive, NEW r \in BankReader,
         \/ \E p \in Piece : SliceCall(r, p)
         \/ Slicing(r) \/ SliceUsed(r)
  PROVE  BankInv'
<1>1. loading = "no" /\ bankState = "open" /\ UNCHANGED <<bankFile, bankMem, bankLoad>>
  <2>1. loading = "no" /\ bankState = "open"
    BY DEF BankInv, ApartInv, SliceCall, Slicing, SliceUsed, SliceEnter, SliceLook, SliceRead,
       SliceRaises
  <2>2. UNCHANGED <<bankFile, bankMem, bankLoad>>
    BY DEF SliceCall, Slicing, SliceUsed, SliceEnter, SliceLook, SliceRead, SliceRaises
  <2>3. QED
    BY <2>1, <2>2
<1>2. /\ MemType' /\ LoadType' /\ ApartInv' /\ LoadInv' /\ WarmInv' /\ WarmHoldsItsExperts'
  BY <1>1, ReaderLeavesBank
<1>3. BankNil \notin BankReader /\ BankNil \notin Piece /\ BankNil \in BankHandle /\ Piece \subseteq BankHandle
  BY BankAssumption DEF BankHandle
<1>4. ReaderType' /\ LockInv'
  <2>1. ASSUME NEW p \in Piece, SliceCall(r, p) PROVE ReaderType' /\ LockInv'
    BY <2>1, <1>3 DEF BankInv, SliceCall, ReaderType, LockInv
  <2>2. CASE SliceEnter(r)
    BY <2>2, <1>3 DEF BankInv, SliceEnter, ReaderType, LockInv
  <2>3. CASE SliceLook(r)
    <3>1. slicePc[r] = "look" /\ bankLock = r /\ sliceOf[r] \in Piece
          /\ \A q \in BankReader \ {r} : slicePc[q] \notin {"look", "read"}
      BY <2>3 DEF SliceLook, BankInv, LockInv
    <3>2. CASE sliceOf[r][1] \in DOMAIN warmOf
      <4>1. sliceOf[r][2] \in 0..BankExperts - 1 /\ sliceOf[r] = <<sliceOf[r][1], sliceOf[r][2]>>
        BY <3>1 DEF Piece
      <4>2. warmOf[sliceOf[r][1]][sliceOf[r][2] + 1] = sliceOf[r]
        BY <4>1, <3>2 DEF BankInv, WarmHoldsItsExperts
      <4>3. SliceReturn(r, sliceOf[r]) /\ UNCHANGED <<filePos, sliceOf, sliced>>
        BY <2>3, <3>2, <4>2 DEF SliceLook
      <4>4. QED
        BY <3>1, <4>3, <1>3 DEF SliceReturn, BankInv, ReaderType, LockInv
    <3>3. CASE sliceOf[r][1] \notin DOMAIN warmOf /\ bankMode = "ram"
      <4>1. SliceReturn(r, sliceOf[r]) /\ UNCHANGED <<filePos, sliceOf, sliced>>
        BY <2>3, <3>3 DEF SliceLook
      <4>2. QED
        BY <3>1, <4>1, <1>3 DEF SliceReturn, BankInv, ReaderType, LockInv
    <3>4. CASE sliceOf[r][1] \notin DOMAIN warmOf /\ bankMode = "mmap"
      <4>1. /\ filePos' = sliceOf[r] /\ slicePc' = [slicePc EXCEPT ![r] = "read"]
            /\ UNCHANGED <<bankLock, sliceGot, sliceOf, sliced>>
        BY <2>3, <3>4 DEF SliceLook
      <4>2. QED
        BY <3>1, <4>1, <1>3 DEF BankInv, ReaderType, LockInv
    <3>5. QED
      BY <3>2, <3>3, <3>4 DEF BankInv, MemType
  <2>4. CASE SliceRead(r)
    <3>1. /\ slicePc[r] = "read" /\ bankLock = r /\ filePos = sliceOf[r] /\ sliceOf[r] \in Piece
          /\ \A q \in BankReader \ {r} : slicePc[q] \notin {"look", "read"}
      BY <2>4 DEF SliceRead, BankInv, LockInv
    <3>2. filePos' \in BankHandle
      BY <2>4, <3>1, BankAssumption DEF SliceRead, AfterRead, BankHandle, Piece
    <3>3. QED
      BY <2>4, <3>1, <3>2, <1>3 DEF SliceRead, SliceReturn, BankInv, ReaderType, LockInv
  <2>5. CASE SliceRaises(r) \/ SliceUsed(r)
    BY <2>5, <1>3 DEF SliceRaises, SliceUsed, SliceForgotten, BankInv, ReaderType, LockInv
  <2>6. QED
    BY <2>1, <2>2, <2>3, <2>4, <2>5 DEF Slicing
<1>5. QED
  BY <1>2, <1>4 DEF BankInv

(* Every step of the bank and of its readers.                              *)
LEMMA BankInductive ==
  ASSUME BankInv, ~LoadsLive, [BankNext]_bankVars
  PROVE  BankInv'
<1>1. CASE UNCHANGED bankVars
  BY <1>1 DEF bankVars, bankFile, bankMem, bankReaders, bankLoad, BankInv, MemType, LoadType,
     ReaderType, LockInv, ApartInv, LoadInv, WarmInv, PinnedOrCopied, WarmHoldsItsExperts
<1>2. CASE BankNext
  BY <1>2, BankOpens, BankLoadsRam, BankIsConstructed, BankLoadsWarm, BankSeeks, BankReads,
     BankKeeps, LoadsEnd, BankCloses, BankIsRead DEF BankNext
<1>3. QED
  BY <1>1, <1>2

(* Every slice is its own expert's, every warm buffer holds its own and is *)
(* pinned until close, and a closed bank has nothing pinned                *)
(* (expert_bank.py:147-267), in a program that does not load beside        *)
(* readers, as none in the repository does.                                *)
THEOREM BankIsRight == ASSUME ~LoadsLive PROVE BankSpec => []BankServes
<1>1. BankInit => BankInv
  BY BankInitial
<1>2. BankInv /\ [BankNext]_bankVars => BankInv'
  BY BankInductive
<1>3. BankInv => BankServes
  BY BankPromise
<1>4. QED
  BY <1>1, <1>2, <1>3, PTL DEF BankSpec
=============================================================================
