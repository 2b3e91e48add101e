---------------------------- MODULE FetchProofs -----------------------------
(***************************************************************************)
(* Proofs about the two ways an expert's bytes come to the device: Staging *)
(* for every depth of a wave, every set of lists and any number of fills,  *)
(* Readahead for every number of buffers and experts and of offers; and    *)
(* about a process that has them beside the slab and the lanes.            *)
(***************************************************************************)
EXTENDS MCIo, SlabProofs, WavePoolProofs, SequenceTheorems, FiniteSetTheorems, TLAPS
-----------------------------------------------------------------------------
(* Staging.                                                                *)

Missing == [dst : Dst, expert : StagedExpert]

StagedCopy ==
  [dst : Dst, expert : StagedExpert, from : StagingBuffer \cup {Mapped}]

(* The pending copies into slot d, by their place in the stream.           *)
Into(j, d)     == j \in 1..Len(stream) /\ stream[j].dst = d
LastInto(j, d) == Into(j, d) /\ \A l \in 1..Len(stream) : Into(l, d) => l <= j

(* Buffer b belongs to set p.                                              *)
InSet(b, p) == \E j \in 1..WaveDepth : b = p * WaveDepth + j - 1

(* The j-th copy finds its expert's bytes and its set is not read into     *)
(* again before it is done.                                                *)
Kept(j) ==
  LET c == stream[j]
  IN  c.from = Mapped \/ /\ stagingBytes[c.from] = c.expert
                         /\ \A p \in {0, 1} : InSet(c.from, p) => copiesDone + j <= ev[p]

(* Slot d holds expert e when the copies issued so far are done.           *)
WillHold(d, e) ==
  /\ \A j \in 1..Len(stream) : LastInto(j, d) => stream[j].expert = e /\ Kept(j)
  /\ (\A j \in 1..Len(stream) : ~Into(j, d)) => slot[d] = e

(* The same of request l of the wave whose event is yet to be recorded.    *)
WillHoldFrom(l, d, e) ==
  /\ stagingBytes[BufferOf(l)] = e
  /\ \A j \in 1..Len(stream) : LastInto(j, d) => /\ stream[j].expert = e
                                                 /\ stream[j].from = BufferOf(l)
  /\ (\A j \in 1..Len(stream) : ~Into(j, d)) => slot[d] = e

(* A slot with a pending copy has a last one.                              *)
StreamInv ==
  \A j \in 1..Len(stream) : \E l \in 1..Len(stream) : LastInto(l, stream[j].dst)

DueInv == \A d \in Dst : due[d] # StagedNil => WillHold(d, due[d])

(* While a list is filled its slots are due nothing.                       *)
FillInv ==
  fillPc # "idle" =>
    /\ miss \in Lists /\ waveBase < Len(miss)
    /\ \A l \in DOMAIN miss : due[miss[l].dst] = StagedNil

(* The waves already recorded.                                             *)
WavesInv ==
  fillPc \in {"resolve", "reuse", "read", "copy"} =>
    \A l \in 1..waveBase : WillHold(miss[l].dst, miss[l].expert)

(* The wave being read and copied.                                         *)
WaveInv ==
  /\ fillPc = "read" => ev[Parity] <= copiesDone /\ i = 1
  /\ fillPc = "copy" =>
       /\ i \in 1..WaveSize + 1
       /\ \A j \in Wave : got[j] => stagingBytes[BufferOf(j)] = miss[waveBase + j].expert
       /\ \A l \in 1..i - 1 :
            WillHoldFrom(l, miss[waveBase + l].dst, miss[waveBase + l].expert)

StagingInv ==
  StagingTypeOK /\ StreamInv /\ DueInv /\ FillInv /\ WavesInv /\ WaveInv

(* The two sets of buffers.                                                *)
LEMMA Sets ==
  ASSUME StagingTypeOK
  PROVE  /\ Parity \in {0, 1} /\ WaveDepth \in Nat \ {0}
         /\ \A j \in 1..WaveDepth : /\ BufferOf(j) \in StagingBuffer
                                    /\ InSet(BufferOf(j), Parity)
         /\ \A j, l \in 1..WaveDepth : BufferOf(j) = BufferOf(l) => j = l
         /\ \A b : \A p, q \in {0, 1} : InSet(b, p) /\ InSet(b, q) => p = q
<1>1. WaveDepth \in Nat \ {0} /\ waveNo \in Nat
  BY StagingAssumption DEF StagingTypeOK
<1>2. Parity \in {0, 1}
  BY <1>1 DEF Parity
<1>3. Parity * WaveDepth = IF Parity = 0 THEN 0 ELSE WaveDepth
  BY <1>1, <1>2
<1>4. \A j \in 1..WaveDepth : BufferOf(j) \in StagingBuffer
  BY <1>1, <1>2, <1>3 DEF BufferOf, StagingBuffer
<1>5. \A j \in 1..WaveDepth : InSet(BufferOf(j), Parity)
  BY DEF BufferOf, InSet
<1>6. \A j, l \in 1..WaveDepth : BufferOf(j) = BufferOf(l) => j = l
  BY <1>1, <1>2, <1>3 DEF BufferOf
<1>7. \A b : InSet(b, 0) => b < WaveDepth
  BY <1>1 DEF InSet
<1>8. \A b : InSet(b, 1) => ~(b < WaveDepth)
  BY <1>1 DEF InSet
<1>9. QED
  BY <1>1, <1>2, <1>4, <1>5, <1>6, <1>7, <1>8

(* The first wave of a list is not empty, nor is any later one.            *)
LEMMA Waves ==
  ASSUME StagingTypeOK, FillInv, fillPc # "idle"
  PROVE  /\ Len(miss) \in Nat /\ waveBase \in Nat /\ waveBase < Len(miss)
         /\ DOMAIN miss = 1..Len(miss)
         /\ WaveSize \in 1..WaveDepth /\ waveBase + WaveSize <= Len(miss)
         /\ Wave = 1..WaveSize
         /\ \A j \in Wave : /\ j \in 1..WaveDepth /\ waveBase + j \in DOMAIN miss
                            /\ miss[waveBase + j].dst \in Dst
                            /\ miss[waveBase + j].expert \in StagedExpert
         /\ \A a, b \in DOMAIN miss : miss[a].dst = miss[b].dst => a = b
<1>1. WaveDepth \in Nat \ {0} /\ waveBase \in Nat /\ waveBase < Len(miss)
      /\ miss \in Seq(Missing)
  BY StagingAssumption DEF StagingTypeOK, FillInv, Missing
<1>2. Len(miss) \in Nat /\ DOMAIN miss = 1..Len(miss)
  BY <1>1
<1>3. WaveSize \in 1..WaveDepth /\ waveBase + WaveSize <= Len(miss)
  BY <1>1, <1>2 DEF WaveSize
<1>4. \A j \in 1..WaveSize : j \in 1..WaveDepth /\ waveBase + j \in DOMAIN miss
  BY <1>1, <1>2, <1>3
<1>5. \A a \in DOMAIN miss : miss[a].dst \in Dst /\ miss[a].expert \in StagedExpert
  <2>1. \A a \in DOMAIN miss : miss[a] \in Missing
    BY <1>1, <1>2
  <2>2. QED
    BY <2>1 DEF Missing
<1>6. \A a, b \in DOMAIN miss : miss[a].dst = miss[b].dst => a = b
  BY StagingAssumption DEF FillInv
<1>7. QED
  BY <1>1, <1>2, <1>3, <1>4, <1>5, <1>6 DEF Wave

(* The stream is longer by the copies a step issues.                       *)
Longer(n, m) ==
  /\ stream' \in Seq(StagedCopy) /\ n = Len(stream) /\ n \in Nat /\ m \in Nat
  /\ Len(stream') = n + m
  /\ \A j \in 1..n : stream'[j] = stream[j]

LEMMA OneLonger ==
  ASSUME StagingTypeOK, NEW c \in StagedCopy, stream' = Append(stream, c),
         NEW n, n = Len(stream)
  PROVE  Longer(n, 1) /\ stream'[n + 1] = c
BY DEF StagingTypeOK, StagedCopy, Longer

(* Copies issued are behind the others, which keep their places.           *)
LEMMA StreamIssued ==
  ASSUME StreamInv, NEW n, NEW m, Longer(n, m),
         \A a, b \in n + 1..n + m : stream'[a].dst = stream'[b].dst => a = b
  PROVE  /\ StreamInv'
         /\ \A a \in n + 1..n + m : \A d : d = stream'[a].dst =>
              \A j \in 1..n + m : LastInto(j, d)' <=> j = a
<1>1. /\ Len(stream') = n + m /\ n = Len(stream) /\ n \in Nat /\ m \in Nat
      /\ \A j \in 1..n : stream'[j] = stream[j]
  BY DEF Longer
<1>2. ASSUME NEW a \in n + 1..n + m, NEW d, d = stream'[a].dst
      PROVE  /\ LastInto(a, d)' /\ a \in 1..n + m
             /\ \A j \in 1..n + m : LastInto(j, d)' => j = a
  <2>1. a \in 1..n + m /\ Into(a, d)'
    BY <1>1, <1>2 DEF Into
  <2>2. \A j \in 1..n + m : Into(j, d)' => j <= a
    BY <1>1, <1>2 DEF Into
  <2>3. LastInto(a, d)'
    BY <1>1, <2>1, <2>2 DEF LastInto
  <2>4. ASSUME NEW j \in 1..n + m, LastInto(j, d)'
        PROVE  j = a
    <3>1. j <= a /\ a <= j
      BY <1>1, <2>1, <2>2, <2>4 DEF LastInto
    <3>2. QED
      BY <1>1, <3>1
  <2>5. QED
    BY <2>1, <2>3, <2>4
<1>3. ASSUME NEW j \in 1..n + m, NEW d, d = stream'[j].dst
      PROVE  \E l \in 1..n + m : LastInto(l, d)'
  <2>1. CASE \E a \in n + 1..n + m : d = stream'[a].dst
    BY <1>2, <2>1
  <2>2. CASE ~\E a \in n + 1..n + m : d = stream'[a].dst
    <3>1. j \in 1..n /\ d = stream[j].dst
      BY <1>1, <1>3, <2>2
    <3>2. PICK l \in 1..n : LastInto(l, d)
      BY <1>1, <3>1 DEF StreamInv
    <3>3. \A k \in 1..n + m : Into(k, d)' => Into(k, d)
      BY <1>1, <2>2 DEF Into
    <3>4. l \in 1..n + m /\ LastInto(l, d)'
      BY <1>1, <3>2, <3>3 DEF LastInto, Into
    <3>5. QED
      BY <3>4
  <2>3. QED
    BY <2>1, <2>2
<1>4. StreamInv'
  BY <1>1, <1>3 DEF StreamInv
<1>5. QED
  BY <1>2, <1>4

(* Copies to other slots change nothing for slot d.                        *)
LEMMA HoldsBehind ==
  ASSUME NEW n, NEW m, Longer(n, m), NEW d, NEW e,
         \A a \in n + 1..n + m : stream'[a].dst # d,
         UNCHANGED <<slot, stagingBytes, ev, copiesDone>>
  PROVE  /\ WillHold(d, e) => WillHold(d, e)'
         /\ \A l : UNCHANGED waveNo /\ WillHoldFrom(l, d, e) => WillHoldFrom(l, d, e)'
<1>1. /\ Len(stream') = n + m /\ n = Len(stream) /\ n \in Nat /\ m \in Nat
      /\ \A j \in 1..n : stream'[j] = stream[j]
  BY DEF Longer
<1>2. \A j \in 1..n + m : Into(j, d)' => j \in 1..n
  BY <1>1 DEF Into
<1>3. \A j \in 1..n : j \in 1..n + m /\ (Into(j, d)' <=> Into(j, d))
  BY <1>1 DEF Into
<1>4. \A j \in 1..n + m : LastInto(j, d)' => j \in 1..n /\ LastInto(j, d)
  BY <1>1, <1>2, <1>3 DEF LastInto
<1>5. \A j \in 1..n : Kept(j) => Kept(j)'
  BY <1>1 DEF Kept
<1>6. (\A j \in 1..n + m : ~Into(j, d)') => \A j \in 1..n : ~Into(j, d)
  BY <1>3
<1>7. WillHold(d, e) => WillHold(d, e)'
  BY <1>1, <1>4, <1>5, <1>6 DEF WillHold
<1>8. \A l : UNCHANGED waveNo /\ WillHoldFrom(l, d, e) => WillHoldFrom(l, d, e)'
  BY <1>1, <1>4, <1>6 DEF WillHoldFrom, BufferOf, Parity
<1>9. QED
  BY <1>7, <1>8

(* A step that issues and completes nothing.                               *)
LEMMA HoldsStill ==
  ASSUME UNCHANGED <<stream, slot>>, NEW d, NEW e,
         \A j \in 1..Len(stream) : Kept(j) => Kept(j)'
  PROVE  WillHold(d, e) => WillHold(d, e)'
<1>1. \A j : Into(j, d)' <=> Into(j, d)
  BY DEF Into
<1>2. \A j : LastInto(j, d)' <=> LastInto(j, d)
  BY <1>1 DEF LastInto
<1>3. QED
  BY <1>1, <1>2 DEF WillHold

(* The copy engine takes the first copy.                                   *)
LEMMA StreamDone ==
  ASSUME StagingTypeOK, StagingCopied, NEW n, n = Len(stream)
  PROVE  /\ stream' \in Seq(StagedCopy) /\ n \in Nat \ {0} /\ Len(stream') = n - 1
         /\ \A j \in 1..n - 1 : j + 1 \in 1..n /\ stream'[j] = stream[j + 1]
         /\ \A j \in 1..n : j = 1 \/ (j - 1 \in 1..n - 1 /\ (j - 1) + 1 = j)
         /\ 1 \in 1..n /\ \A j \in 1..n : stream[j] \in StagedCopy
         /\ copiesDone' = copiesDone + 1 /\ copiesDone \in Nat
         /\ slot' = [slot EXCEPT ![stream[1].dst] =
                       IF stream[1].from = Mapped THEN stream[1].expert
                       ELSE stagingBytes[stream[1].from]]
         /\ \A j \in 1..n - 1 : \A d : Into(j, d)' <=> Into(j + 1, d)
<1>1. stream \in Seq(StagedCopy) /\ Len(stream) \in Nat /\ stream # <<>> /\ stream' = Tail(stream)
      /\ copiesDone' = copiesDone + 1
      /\ slot' = [slot EXCEPT ![Head(stream).dst] = Source(Head(stream))]
  BY DEF StagingTypeOK, StagedCopy, StagingCopied
<1>2. copiesDone \in Nat
  BY DEF StagingTypeOK
<1>3. /\ stream' \in Seq(StagedCopy) /\ n # 0 /\ Len(stream') = n - 1
      /\ \A j \in 1..n - 1 : stream'[j] = stream[j + 1]
      /\ Head(stream) = stream[1]
  BY <1>1
<1>4. \A j \in 1..n - 1 : \A d : Into(j, d)' <=> Into(j + 1, d)
  BY <1>1, <1>3 DEF Into
<1>5. slot' = [slot EXCEPT ![stream[1].dst] =
                 IF stream[1].from = Mapped THEN stream[1].expert
                 ELSE stagingBytes[stream[1].from]]
  BY <1>1, <1>3 DEF Source
<1>6. \A j \in 1..n : stream[j] \in StagedCopy
  BY <1>1
<1>7. /\ n \in Nat \ {0} /\ 1 \in 1..n /\ \A j \in 1..n - 1 : j + 1 \in 1..n
      /\ \A j \in 1..n : j = 1 \/ (j - 1 \in 1..n - 1 /\ (j - 1) + 1 = j)
  BY <1>1, <1>3
<1>8. QED
  BY <1>1, <1>2, <1>3, <1>4, <1>5, <1>6, <1>7

(* A copy done leaves the front of the stream.                             *)
LEMMA StreamCopied ==
  ASSUME StagingTypeOK, StreamInv, StagingCopied
  PROVE  StreamInv'
<1>1. PICK n : n = Len(stream)
  OBVIOUS
<1>2. /\ n \in Nat \ {0} /\ Len(stream') = n - 1
      /\ \A j \in 1..n - 1 : j + 1 \in 1..n /\ stream'[j] = stream[j + 1]
      /\ \A j \in 1..n - 1 : \A d : Into(j, d)' <=> Into(j + 1, d)
  BY <1>1, StreamDone
<1>3. ASSUME NEW j \in 1..n - 1, NEW d, d = stream[j + 1].dst
      PROVE  \E l \in 1..n - 1 : LastInto(l, d)'
  <2>1. Into(j + 1, d) /\ j + 1 \in 1..n
    BY <1>1, <1>2, <1>3 DEF Into
  <2>2. PICK l \in 1..n : LastInto(l, d)
    BY <1>1, <1>3, <2>1 DEF StreamInv
  <2>3. j + 1 <= l /\ Into(l, d)
    BY <1>1, <2>1, <2>2 DEF LastInto
  <2>4. l - 1 \in 1..n - 1 /\ (l - 1) + 1 = l
    BY <1>2, <2>3
  <2>5. Into(l - 1, d)'
    BY <1>2, <2>3, <2>4
  <2>6. ASSUME NEW k \in 1..n - 1, Into(k, d)'
        PROVE  k <= l - 1
    <3>1. Into(k + 1, d) /\ k + 1 \in 1..n
      BY <1>2, <2>6
    <3>2. k + 1 <= l
      BY <1>1, <2>2, <3>1 DEF LastInto
    <3>3. QED
      BY <1>2, <3>2, <2>4
  <2>7. LastInto(l - 1, d)'
    BY <1>2, <2>5, <2>6 DEF LastInto
  <2>8. QED
    BY <2>4, <2>7
<1>4. QED
  BY <1>2, <1>3 DEF StreamInv

(* The copy that is done puts in its slot what the slot waited for.        *)
LEMMA HoldsOn ==
  ASSUME StagingTypeOK, StagingCopied, NEW d \in Dst, NEW e
  PROVE  /\ WillHold(d, e) => WillHold(d, e)'
         /\ \A l : WillHoldFrom(l, d, e) => WillHoldFrom(l, d, e)'
<1>1. PICK n : n = Len(stream)
  OBVIOUS
<1>2. /\ n \in Nat \ {0} /\ Len(stream') = n - 1
      /\ \A j \in 1..n - 1 : j + 1 \in 1..n /\ stream'[j] = stream[j + 1]
      /\ \A j \in 1..n : j = 1 \/ (j - 1 \in 1..n - 1 /\ (j - 1) + 1 = j)
      /\ 1 \in 1..n /\ \A j \in 1..n : stream[j] \in StagedCopy
      /\ copiesDone' = copiesDone + 1 /\ copiesDone \in Nat
      /\ slot' = [slot EXCEPT ![stream[1].dst] =
                    IF stream[1].from = Mapped THEN stream[1].expert
                    ELSE stagingBytes[stream[1].from]]
      /\ \A j \in 1..n - 1 : Into(j, d)' <=> Into(j + 1, d)
  BY <1>1, StreamDone
<1>3. /\ UNCHANGED <<stagingBytes, ev, waveNo>> /\ stream[1].dst \in Dst
      /\ slot \in [Dst -> StagedExpert \cup {StagedNil}]
  BY <1>2 DEF StagingCopied, call, StagedCopy, StagingTypeOK
<1>4. ASSUME NEW j \in 1..n - 1, LastInto(j, d)'
      PROVE  LastInto(j + 1, d)
  <2>1. Into(j + 1, d)
    BY <1>2, <1>4 DEF LastInto
  <2>2. ASSUME NEW k \in 1..n, Into(k, d)
        PROVE  k <= j + 1
    <3>1. CASE k = 1
      BY <1>2, <3>1
    <3>2. CASE k - 1 \in 1..n - 1 /\ (k - 1) + 1 = k
      <4>1. k - 1 <= j
        BY <1>2, <1>4, <2>2, <3>2 DEF LastInto
      <4>2. QED
        BY <1>2, <4>1
    <3>3. QED
      BY <1>2, <3>1, <3>2
  <2>3. QED
    BY <1>1, <2>1, <2>2 DEF LastInto
<1>5. ASSUME \A j \in 1..n - 1 : ~Into(j, d)'
      PROVE  /\ stream[1].dst = d => LastInto(1, d)
             /\ stream[1].dst # d => (\A j \in 1..n : ~Into(j, d)) /\ slot'[d] = slot[d]
  <2>1. ASSUME NEW j \in 1..n, j # 1
        PROVE  ~Into(j, d)
    <3>1. j - 1 \in 1..n - 1 /\ (j - 1) + 1 = j
      BY <1>2, <2>1
    <3>2. ~Into(j - 1, d)' /\ (Into(j - 1, d)' <=> Into((j - 1) + 1, d))
      BY <1>2, <1>5, <3>1
    <3>3. QED
      BY <3>1, <3>2
  <2>2. stream[1].dst = d => LastInto(1, d)
    BY <1>1, <1>2, <2>1 DEF LastInto, Into
  <2>3. stream[1].dst # d => (\A j \in 1..n : ~Into(j, d)) /\ slot'[d] = slot[d]
    BY <1>2, <1>3, <2>1 DEF Into
  <2>4. QED
    BY <2>2, <2>3
<1>6. \A j \in 1..n - 1 : Kept(j + 1) => Kept(j)'
  <2> SUFFICES ASSUME NEW j \in 1..n - 1, Kept(j + 1) PROVE Kept(j)'
    OBVIOUS
  <2>1. copiesDone' + j = copiesDone + (j + 1) /\ stream'[j] = stream[j + 1]
    BY <1>2
  <2>2. QED
    BY <1>3, <2>1 DEF Kept
<1>7. ASSUME WillHold(d, e)
      PROVE  WillHold(d, e)'
  <2>1. \A j \in 1..n - 1 : LastInto(j, d)' => stream'[j].expert = e /\ Kept(j)'
    BY <1>1, <1>2, <1>4, <1>6, <1>7 DEF WillHold
  <2>2. ASSUME \A j \in 1..n - 1 : ~Into(j, d)'
        PROVE  slot'[d] = e
    <3>1. CASE stream[1].dst = d
      <4>1. stream[1].expert = e /\ Kept(1)
        BY <1>1, <1>2, <1>5, <1>7, <2>2, <3>1 DEF WillHold
      <4>2. QED
        BY <1>2, <1>3, <3>1, <4>1 DEF Kept
    <3>2. CASE stream[1].dst # d
      BY <1>1, <1>5, <1>7, <2>2, <3>2 DEF WillHold
    <3>3. QED
      BY <3>1, <3>2
  <2>3. QED
    BY <1>2, <2>1, <2>2 DEF WillHold
<1>8. ASSUME NEW l, WillHoldFrom(l, d, e)
      PROVE  WillHoldFrom(l, d, e)'
  <2>1. BufferOf(l)' = BufferOf(l) /\ stagingBytes[BufferOf(l)] = e
    BY <1>3, <1>8 DEF BufferOf, Parity, WillHoldFrom
  <2>2. \A j \in 1..n - 1 : LastInto(j, d)' => /\ stream'[j].expert = e
                                              /\ stream'[j].from = BufferOf(l)
    BY <1>1, <1>2, <1>4, <1>8 DEF WillHoldFrom
  <2>3. ASSUME \A j \in 1..n - 1 : ~Into(j, d)'
        PROVE  slot'[d] = e
    <3>1. CASE stream[1].dst = d
      <4>1. stream[1].expert = e /\ stream[1].from = BufferOf(l)
        BY <1>1, <1>2, <1>5, <1>8, <2>3, <3>1 DEF WillHoldFrom
      <4>2. QED
        BY <1>2, <1>3, <2>1, <3>1, <4>1
    <3>2. CASE stream[1].dst # d
      BY <1>1, <1>5, <1>8, <2>3, <3>2 DEF WillHoldFrom
    <3>3. QED
      BY <3>1, <3>2
  <2>4. QED
    BY <1>2, <1>3, <2>1, <2>2, <2>3 DEF WillHoldFrom
<1>9. QED
  BY <1>7, <1>8

(* A call begins: its slots are due nothing, the others what they were.    *)
LEMMA FillKeepsStaging ==
  ASSUME StagingInv, NEW m \in Lists, Fill(m)
  PROVE  StagingInv'
<1> USE DEF StagingInv
<1>1. /\ miss' = m /\ waveBase' = 0 /\ waveNo' = 0 /\ i' = 1 /\ got' = <<>>
      /\ due' = [d \in Dst |-> IF \E j \in DOMAIN m : m[j].dst = d THEN StagedNil ELSE due[d]]
      /\ fills < MaxFills /\ fills' = fills + 1 /\ fillPc' = "resolve"
      /\ UNCHANGED <<stagingBytes, ev, stream, copiesDone, slot>>
  BY DEF Fill
<1>2. m \in Seq(Missing) /\ m # <<>>
  BY StagingAssumption DEF Missing
<1>3. Len(m) \in Nat \ {0} /\ DOMAIN m = 1..Len(m)
  BY <1>2
<1>4. \A j \in DOMAIN m : m[j].dst \in Dst
  <2>1. \A j \in DOMAIN m : m[j] \in Missing
    BY <1>2, <1>3
  <2>2. QED
    BY <2>1 DEF Missing
<1>5. \A j : Kept(j) => Kept(j)'
  BY <1>1 DEF Kept
<1>6. StreamInv'
  BY <1>1 DEF StreamInv, LastInto, Into
<1>7. StagingTypeOK'
  <2>1. waveNo' * WaveDepth = waveBase' /\ i' \in 1..WaveDepth + 1
    BY <1>1, StagingAssumption
  <2>2. due' \in [Dst -> StagedExpert \cup {StagedNil}]
    BY <1>1 DEF StagingTypeOK
  <2>3. fills' \in 0..MaxFills /\ Issued' = Issued
    BY <1>1, StagingAssumption DEF StagingTypeOK, Issued
  <2>4. got' \in [1..0 -> BOOLEAN] /\ 0 \in 0..WaveDepth
    BY <1>1, StagingAssumption
  <2>5. \E n \in 0..WaveDepth : got' \in [1..n -> BOOLEAN]
    BY <2>4
  <2>6. ev' \in [{0, 1} -> 0..Issued']
    BY <1>1, <2>3 DEF StagingTypeOK
  <2>7. /\ miss' \in Seq([dst : Dst, expert : StagedExpert]) /\ waveBase' < Len(miss')
        /\ waveBase' \in Nat /\ waveNo' \in Nat
    BY <1>1, <1>2, <1>3 DEF Missing
  <2>8. /\ stagingBytes' \in [StagingBuffer -> StagedExpert \cup {StagedNil}]
        /\ stream' \in Seq([dst : Dst, expert : StagedExpert,
                            from : StagingBuffer \cup {Mapped}])
        /\ slot' \in [Dst -> StagedExpert \cup {StagedNil}] /\ copiesDone' \in Nat
    BY <1>1 DEF StagingTypeOK
  <2>9. fillPc' \in {"idle", "resolve", "reuse", "read", "copy", "fallback"}
    BY <1>1
  <2>10. QED
    BY <2>1, <2>2, <2>3, <2>5, <2>6, <2>7, <2>8, <2>9 DEF StagingTypeOK
<1>8. DueInv'
  <2> SUFFICES ASSUME NEW d \in Dst, due'[d] # StagedNil, NEW e, e = due'[d]
               PROVE  WillHold(d, e)'
    BY DEF DueInv
  <2>1. due[d] = e /\ due[d] # StagedNil
    BY <1>1
  <2>2. WillHold(d, e)
    BY <2>1 DEF DueInv
  <2>3. QED
    BY <1>1, <1>5, <2>2, HoldsStill
<1>9. FillInv'
  BY <1>1, <1>3, <1>4 DEF FillInv
<1>10. WavesInv' /\ WaveInv'
  BY <1>1 DEF WavesInv, WaveInv
<1>11. QED
  BY <1>6, <1>7, <1>8, <1>9, <1>10

(* A step of the host that changes neither buffers nor stream.             *)
LEMMA HostWaits ==
  ASSUME StagingInv, i' \in {1, i}, fillPc' \in {"reuse", "read", "fallback"},
         UNCHANGED <<miss, waveBase, waveNo, got, stagingBytes, ev, stream, copiesDone,
                     slot, due, fills>>,
         fillPc # "idle", fillPc' \in {"reuse", "read"} => fillPc # "fallback",
         fillPc' = "read" => ev[Parity] <= copiesDone /\ i' = 1
  PROVE  StagingInv'
<1> USE DEF StagingInv
<1>1. \A j : Kept(j) => Kept(j)'
  BY DEF Kept
<1>2. StreamInv'
  BY DEF StreamInv, LastInto, Into
<1>3. StagingTypeOK'
  <2>1. i' \in 1..WaveDepth + 1
    BY StagingAssumption DEF StagingTypeOK
  <2>2. QED
    BY <2>1 DEF StagingTypeOK, Issued
<1>4. \A d, e : WillHold(d, e) => WillHold(d, e)'
  BY <1>1, HoldsStill
<1>5. DueInv' /\ FillInv'
  BY <1>4 DEF DueInv, FillInv
<1>6. WavesInv'
  <2> SUFFICES ASSUME fillPc' \in {"reuse", "read"}, NEW l \in 1..waveBase,
                      NEW d, d = miss[l].dst, NEW e, e = miss[l].expert
               PROVE  WillHold(d, e)'
    BY DEF WavesInv
  <2>1. fillPc \in {"resolve", "reuse", "read", "copy"}
    BY DEF StagingTypeOK
  <2>2. WillHold(d, e)
    BY <2>1 DEF WavesInv
  <2>3. QED
    BY <1>4, <2>2
<1>7. WaveInv'
  BY DEF WaveInv, Parity
<1>8. QED
  BY <1>2, <1>3, <1>5, <1>6, <1>7

(* A wave is read into buffers that no copy still to be kept reads.        *)
LEMMA ReadKeepsStaging ==
  ASSUME StagingInv, Read
  PROVE  StagingInv'
<1> USE DEF StagingInv
<1>1. /\ fillPc = "read" /\ fillPc' = "copy" /\ got' \in [Wave -> BOOLEAN]
      /\ stagingBytes' = [b \in StagingBuffer |->
           IF \E j \in Wave : b = BufferOf(j)
           THEN IF got'[CHOOSE j \in Wave : b = BufferOf(j)]
                THEN miss[waveBase + (CHOOSE j \in Wave : b = BufferOf(j))].expert
                ELSE StagedNil
           ELSE stagingBytes[b]]
      /\ UNCHANGED <<miss, waveBase, waveNo, i, ev, stream, copiesDone, slot, due, fills>>
  BY DEF Read
<1>2. /\ Parity \in {0, 1} /\ WaveDepth \in Nat \ {0}
      /\ \A j \in 1..WaveDepth : /\ BufferOf(j) \in StagingBuffer
                                 /\ InSet(BufferOf(j), Parity)
      /\ \A j, l \in 1..WaveDepth : BufferOf(j) = BufferOf(l) => j = l
  BY Sets
<1>3. /\ Wave = 1..WaveSize /\ WaveSize \in 1..WaveDepth
      /\ \A j \in Wave : /\ j \in 1..WaveDepth
                         /\ miss[waveBase + j].expert \in StagedExpert
  BY <1>1, Waves
<1>4. ASSUME NEW j \in Wave
      PROVE  /\ got'[j] => stagingBytes'[BufferOf(j)] = miss[waveBase + j].expert
             /\ stagingBytes'[BufferOf(j)] \in StagedExpert \cup {StagedNil}
  <2>1. (CHOOSE k \in Wave : BufferOf(j) = BufferOf(k)) = j
    BY <1>2, <1>3
  <2>2. BufferOf(j) \in StagingBuffer
    BY <1>2, <1>3
  <2>3. stagingBytes'[BufferOf(j)] = IF got'[j] THEN miss[waveBase + j].expert ELSE StagedNil
    BY <1>1, <2>1, <2>2
  <2>4. QED
    BY <1>3, <2>3
<1>5. stagingBytes' \in [StagingBuffer -> StagedExpert \cup {StagedNil}]
  <2>1. ASSUME NEW b \in StagingBuffer
        PROVE  stagingBytes'[b] \in StagedExpert \cup {StagedNil}
    <3>1. CASE \E j \in Wave : b = BufferOf(j)
      BY <1>4, <3>1
    <3>2. CASE ~\E j \in Wave : b = BufferOf(j)
      BY <1>1, <3>2 DEF StagingTypeOK
    <3>3. QED
      BY <3>1, <3>2
  <2>2. QED
    BY <1>1, <2>1
<1>6. StagingTypeOK'
  <2>1. WaveSize \in 0..WaveDepth /\ got' \in [1..WaveSize -> BOOLEAN]
    BY <1>1, <1>2, <1>3
  <2>2. Issued' = Issued
    BY <1>1 DEF Issued
  <2>3. QED
    BY <1>1, <1>5, <2>1, <2>2 DEF StagingTypeOK
<1>7. ASSUME NEW j \in 1..Len(stream), Kept(j)
      PROVE  Kept(j)'
  <2>1. CASE stream[j].from = Mapped
    BY <1>1, <2>1 DEF Kept
  <2>2. CASE stream[j].from # Mapped
    <3>1. /\ stagingBytes[stream[j].from] = stream[j].expert
          /\ \A p \in {0, 1} : InSet(stream[j].from, p) => copiesDone + j <= ev[p]
      BY <1>7, <2>2 DEF Kept
    <3>2. ev[Parity] <= copiesDone /\ copiesDone \in Nat /\ ev[Parity] \in Int
      BY <1>1, <1>2 DEF WaveInv, StagingTypeOK, Issued
    <3>3. ~InSet(stream[j].from, Parity)
      BY <1>2, <3>1, <3>2
    <3>4. \A k \in Wave : stream[j].from # BufferOf(k)
      BY <1>2, <1>3, <3>3
    <3>5. stream[j].from \in StagingBuffer
      <4>1. stream \in Seq(StagedCopy)
        BY DEF StagingTypeOK, StagedCopy
      <4>2. stream[j] \in StagedCopy
        BY <4>1
      <4>3. QED
        BY <2>2, <4>2 DEF StagedCopy
    <3>6. stagingBytes'[stream[j].from] = stagingBytes[stream[j].from]
      BY <1>1, <3>4, <3>5
    <3>7. QED
      BY <1>1, <3>1, <3>6 DEF Kept
  <2>3. QED
    BY <2>1, <2>2
<1>8. \A d, e : WillHold(d, e) => WillHold(d, e)'
  BY <1>1, <1>7, HoldsStill
<1>9. StreamInv'
  BY <1>1 DEF StreamInv, LastInto, Into
<1>10. DueInv' /\ FillInv'
  BY <1>1, <1>8 DEF DueInv, FillInv
<1>11. WavesInv'
  BY <1>1, <1>8 DEF WavesInv
<1>12. WaveInv'
  <2>1. Wave' = Wave /\ WaveSize' = WaveSize
    BY <1>1 DEF Wave, WaveSize
  <2>2. \A j : BufferOf(j)' = BufferOf(j)
    BY <1>1 DEF BufferOf, Parity
  <2>3. i = 1
    BY <1>1 DEF WaveInv
  <2>4. i' \in 1..WaveSize' + 1 /\ 1..i' - 1 = {}
    BY <1>1, <1>2, <1>3, <2>1, <2>3
  <2>5. \A j \in Wave' : got'[j] => stagingBytes'[BufferOf(j)'] = miss'[waveBase' + j].expert
    BY <1>1, <1>4, <2>1, <2>2
  <2>6. QED
    BY <1>1, <2>4, <2>5 DEF WaveInv
<1>13. QED
  BY <1>6, <1>9, <1>10, <1>11, <1>12

(* One more copy of the wave: its slot is no other's.                      *)
LEMMA CopyKeepsStaging ==
  ASSUME StagingInv, Copy
  PROVE  StagingInv'
<1> USE DEF StagingInv
<1>1. /\ fillPc = "copy" /\ i \in Wave
      /\ UNCHANGED <<miss, waveBase, waveNo, got, stagingBytes, ev, copiesDone, slot, due, fills>>
  BY DEF Copy
<1>2. /\ Len(miss) \in Nat /\ waveBase \in Nat /\ waveBase < Len(miss)
      /\ DOMAIN miss = 1..Len(miss) /\ WaveSize \in 1..WaveDepth
      /\ waveBase + WaveSize <= Len(miss) /\ Wave = 1..WaveSize
      /\ \A j \in Wave : /\ j \in 1..WaveDepth /\ waveBase + j \in DOMAIN miss
                         /\ miss[waveBase + j].dst \in Dst
                         /\ miss[waveBase + j].expert \in StagedExpert
      /\ \A a, b \in DOMAIN miss : miss[a].dst = miss[b].dst => a = b
  BY <1>1, Waves
<1>3. CASE fillPc' = "fallback" /\ UNCHANGED <<stream, i>>
  BY <1>1, <1>3, HostWaits
<1>4. CASE /\ Delivered(i) /\ i' = i + 1 /\ fillPc' = fillPc
           /\ stream' = Append(stream, [dst |-> miss[waveBase + i].dst,
                                        expert |-> miss[waveBase + i].expert,
                                        from |-> BufferOf(i)])
  <2>1. PICK n, c, t, x :
          /\ n = Len(stream) /\ t = miss[waveBase + i].dst /\ x = miss[waveBase + i].expert
          /\ c = [dst |-> t, expert |-> x, from |-> BufferOf(i)]
    OBVIOUS
  <2>2. /\ WaveDepth \in Nat \ {0} /\ BufferOf(i) \in StagingBuffer
    BY <1>1, <1>2, Sets
  <2>3. c \in StagedCopy
    BY <1>1, <1>2, <2>1, <2>2 DEF StagedCopy
  <2>4. Longer(n, 1) /\ stream'[n + 1] = c
    BY <1>4, <2>1, <2>3, OneLonger
  <2>5. n \in Nat /\ \A a \in n + 1..n + 1 : a = n + 1
    BY <2>4 DEF Longer
  <2>6. /\ StreamInv'
        /\ \A a \in n + 1..n + 1 : \A d : d = stream'[a].dst =>
             \A j \in 1..n + 1 : LastInto(j, d)' <=> j = a
    BY <2>4, <2>5, StreamIssued
  <2>7. \A d, e : d # t => /\ WillHold(d, e) => WillHold(d, e)'
                           /\ \A l : WillHoldFrom(l, d, e) => WillHoldFrom(l, d, e)'
    <3> SUFFICES ASSUME NEW d, NEW e, d # t
                 PROVE  /\ WillHold(d, e) => WillHold(d, e)'
                        /\ \A l : WillHoldFrom(l, d, e) => WillHoldFrom(l, d, e)'
      OBVIOUS
    <3>1. \A a \in n + 1..n + 1 : stream'[a].dst # d
      BY <2>1, <2>4, <2>5
    <3>2. QED
      BY <1>1, <2>4, <3>1, HoldsBehind
  <2>8. StagingTypeOK'
    <3>1. i' \in 1..WaveDepth + 1
      BY <1>1, <1>2, <1>4, <2>2
    <3>2. stream' \in Seq([dst : Dst, expert : StagedExpert,
                           from : StagingBuffer \cup {Mapped}])
      BY <2>4 DEF Longer, StagedCopy
    <3>3. Issued' = Issued + 1 /\ Issued \in Nat
      <4>1. Len(stream') = n + 1 /\ n = Len(stream) /\ n \in Nat /\ copiesDone \in Nat
        BY <2>4 DEF Longer, StagingTypeOK
      <4>2. QED
        BY <1>1, <4>1 DEF Issued
    <3>4. \A p \in {0, 1} : ev[p] \in 0..Issued'
      BY <3>3 DEF StagingTypeOK
    <3>5. ev' \in [{0, 1} -> 0..Issued']
      BY <1>1, <3>4 DEF StagingTypeOK
    <3>6. QED
      BY <1>1, <1>4, <3>1, <3>2, <3>5 DEF StagingTypeOK
  <2>9. DueInv'
    <3> SUFFICES ASSUME NEW d \in Dst, due'[d] # StagedNil, NEW e, e = due'[d]
                 PROVE  WillHold(d, e)'
      BY DEF DueInv
    <3>1. d # t
      BY <1>1, <1>2, <2>1 DEF FillInv
    <3>2. QED
      BY <1>1, <2>7, <3>1 DEF DueInv
  <2>10. FillInv'
    BY <1>1, <1>4 DEF FillInv
  <2>11. WavesInv'
    <3> SUFFICES ASSUME NEW l \in 1..waveBase, NEW d, d = miss[l].dst, NEW e, e = miss[l].expert
                 PROVE  WillHold(d, e)'
      BY <1>1 DEF WavesInv
    <3>1. l \in DOMAIN miss /\ l # waveBase + i
      BY <1>1, <1>2
    <3>2. d # t
      BY <1>1, <1>2, <2>1, <3>1
    <3>3. QED
      BY <1>1, <2>7, <3>2 DEF WavesInv
  <2>12. ASSUME NEW l \in 1..i, NEW d, d = miss[waveBase + l].dst,
                NEW e, e = miss[waveBase + l].expert
         PROVE  WillHoldFrom(l, d, e)'
    <3>1. CASE l # i
      <4>1. l \in 1..i - 1 /\ l \in Wave /\ waveBase + l # waveBase + i
        BY <1>1, <1>2, <3>1
      <4>2. d # t
        BY <1>1, <1>2, <2>1, <2>12, <4>1
      <4>3. WillHoldFrom(l, d, e)
        BY <1>1, <2>12, <4>1 DEF WaveInv
      <4>4. QED
        BY <2>7, <4>2, <4>3
    <3>2. CASE l = i
      <4>1. stagingBytes[BufferOf(i)] = e /\ d = t /\ e = x
        BY <1>1, <1>4, <2>1, <2>12, <3>2 DEF WaveInv, Delivered
      <4>2. BufferOf(l)' = BufferOf(i)
        BY <1>1, <3>2 DEF BufferOf, Parity
      <4>3. Len(stream') = n + 1 /\ n + 1 \in n + 1..n + 1 /\ n + 1 \in 1..n + 1
        BY <2>4, <2>5 DEF Longer
      <4>4. \A j \in 1..n + 1 : LastInto(j, d)' => j = n + 1
        BY <2>1, <2>4, <2>6, <4>1, <4>3
      <4>5. Into(n + 1, d)'
        BY <2>1, <2>4, <4>1, <4>3 DEF Into
      <4>6. stream'[n + 1].expert = e /\ stream'[n + 1].from = BufferOf(i)
        BY <2>1, <2>4, <4>1
      <4>7. QED
        BY <1>1, <4>1, <4>2, <4>3, <4>4, <4>5, <4>6 DEF WillHoldFrom
    <3>3. QED
      BY <3>1, <3>2
  <2>13. WaveInv'
    <3>1. Wave' = Wave /\ WaveSize' = WaveSize
      BY <1>1 DEF Wave, WaveSize
    <3>2. \A j : BufferOf(j)' = BufferOf(j)
      BY <1>1 DEF BufferOf, Parity
    <3>3. i' \in 1..WaveSize' + 1 /\ i' - 1 = i
      BY <1>1, <1>2, <1>4, <3>1
    <3>4. \A l \in 1..i : \A d, e : d = miss[waveBase + l].dst /\ e = miss[waveBase + l].expert
                            => WillHoldFrom(l, d, e)'
      BY <2>12
    <3>5. \A j \in Wave' : got'[j] => stagingBytes'[BufferOf(j)'] = miss'[waveBase' + j].expert
      BY <1>1, <3>1, <3>2 DEF WaveInv
    <3>6. QED
      BY <1>1, <1>4, <3>3, <3>4, <3>5 DEF WaveInv
  <2>14. QED
    BY <2>6, <2>8, <2>9, <2>10, <2>11, <2>13
<1>5. QED
  BY <1>3, <1>4 DEF Copy

(* What a fill that returns makes due is on its way.                       *)
LEMMA ReturnIsDue ==
  ASSUME StagingInv, fillPc # "idle", Return, miss' = miss,
         \A l \in DOMAIN miss : \A d, e : d = miss[l].dst /\ e = miss[l].expert
                                  => WillHold(d, e)',
         \A d \in Dst : \A e : (\A l \in DOMAIN miss : miss[l].dst # d) /\ WillHold(d, e)
                             => WillHold(d, e)'
  PROVE  /\ DueInv' /\ FillInv' /\ WavesInv' /\ WaveInv'
         /\ due' \in [Dst -> StagedExpert \cup {StagedNil}]
         /\ fillPc' = "idle" /\ \E n \in 0..WaveDepth : got' \in [1..n -> BOOLEAN]
<1> USE DEF StagingInv
<1>1. /\ fillPc' = "idle" /\ got' = <<>>
      /\ due' = [d \in Dst |->
           IF \E j \in DOMAIN miss : miss[j].dst = d
           THEN miss[CHOOSE j \in DOMAIN miss : miss[j].dst = d].expert
           ELSE due[d]]
  BY DEF Return
<1>2. miss \in Seq(Missing) /\ \A l \in DOMAIN miss : miss[l].expert \in StagedExpert
  <2>1. miss \in Seq(Missing)
    BY DEF StagingTypeOK, Missing
  <2>2. \A l \in DOMAIN miss : miss[l] \in Missing
    BY <2>1
  <2>3. QED
    BY <2>1, <2>2 DEF Missing
<1>3. ASSUME NEW d \in Dst, NEW e, e = due'[d]
      PROVE  /\ e # StagedNil => WillHold(d, e)'
             /\ e \in StagedExpert \cup {StagedNil}
  <2>1. CASE \E j \in DOMAIN miss : miss[j].dst = d
    <3>1. PICK l : l = CHOOSE j \in DOMAIN miss : miss[j].dst = d
      OBVIOUS
    <3>2. l \in DOMAIN miss /\ miss[l].dst = d
      BY <2>1, <3>1
    <3>3. e = miss[l].expert
      BY <1>1, <1>3, <2>1, <3>1
    <3>4. QED
      BY <1>2, <3>2, <3>3
  <2>2. CASE ~\E j \in DOMAIN miss : miss[j].dst = d
    <3>1. e = due[d]
      BY <1>1, <1>3, <2>2
    <3>2. e # StagedNil => WillHold(d, e)
      BY <3>1 DEF DueInv
    <3>3. QED
      BY <2>2, <3>1, <3>2 DEF StagingTypeOK
  <2>3. QED
    BY <2>1, <2>2
<1>4. due' \in [Dst -> StagedExpert \cup {StagedNil}]
  BY <1>1, <1>3
<1>5. DueInv'
  BY <1>3 DEF DueInv
<1>6. FillInv' /\ WavesInv' /\ WaveInv'
  BY <1>1 DEF FillInv, WavesInv, WaveInv
<1>7. \E n \in 0..WaveDepth : got' \in [1..n -> BOOLEAN]
  <2>1. got' \in [1..0 -> BOOLEAN] /\ 0 \in 0..WaveDepth
    BY <1>1, StagingAssumption
  <2>2. QED
    BY <2>1
<1>8. QED
  BY <1>1, <1>4, <1>5, <1>6, <1>7

(* The set's event covers every copy out of it.                            *)
LEMMA RecordKeepsStaging ==
  ASSUME StagingInv, RecordWave
  PROVE  StagingInv'
<1> USE DEF StagingInv
<1>1. /\ fillPc = "copy" /\ i \notin Wave /\ ev' = [ev EXCEPT ![Parity] = Issued]
      /\ UNCHANGED <<miss, i, stagingBytes, stream, copiesDone, slot, fills>>
  BY DEF RecordWave
<1>2. /\ Len(miss) \in Nat /\ waveBase \in Nat /\ waveBase < Len(miss)
      /\ DOMAIN miss = 1..Len(miss) /\ WaveSize \in 1..WaveDepth
      /\ waveBase + WaveSize <= Len(miss) /\ Wave = 1..WaveSize
  BY <1>1, Waves
<1>3. /\ Parity \in {0, 1} /\ WaveDepth \in Nat \ {0}
      /\ \A j \in 1..WaveDepth : InSet(BufferOf(j), Parity)
      /\ \A b : \A p, q \in {0, 1} : InSet(b, p) /\ InSet(b, q) => p = q
  BY Sets
<1>4. /\ copiesDone \in Nat /\ Issued = copiesDone + Len(stream) /\ Len(stream) \in Nat
      /\ ev \in [{0, 1} -> 0..Issued] /\ Issued' = Issued
  BY <1>1 DEF StagingTypeOK, Issued
<1>5. /\ ev' \in [{0, 1} -> 0..Issued] /\ ev'[Parity] = Issued
      /\ \A p \in {0, 1} : p # Parity => ev'[p] = ev[p]
  BY <1>1, <1>3, <1>4
<1>6. \A j \in 1..Len(stream) : copiesDone + j <= Issued
  BY <1>4
<1>7. \A j \in 1..Len(stream) : Kept(j) => Kept(j)'
  BY <1>1, <1>3, <1>5, <1>6 DEF Kept
<1>8. \A d, e : WillHold(d, e) => WillHold(d, e)'
  BY <1>1, <1>7, HoldsStill
<1>9. ASSUME NEW l \in Wave, NEW d, NEW e, WillHoldFrom(l, d, e)
      PROVE  WillHold(d, e)'
  <2>1. /\ stagingBytes[BufferOf(l)] = e /\ InSet(BufferOf(l), Parity)
        /\ \A j \in 1..Len(stream) : LastInto(j, d) => /\ stream[j].expert = e
                                                       /\ stream[j].from = BufferOf(l)
        /\ (\A j \in 1..Len(stream) : ~Into(j, d)) => slot[d] = e
    BY <1>2, <1>3, <1>9 DEF WillHoldFrom
  <2>2. ASSUME NEW j \in 1..Len(stream), stream[j].expert = e, stream[j].from = BufferOf(l)
        PROVE  Kept(j)'
    <3>1. \A p \in {0, 1} : InSet(stream[j].from, p) => copiesDone + j <= ev'[p]
      BY <1>3, <1>5, <1>6, <2>1, <2>2
    <3>2. QED
      BY <1>1, <2>1, <2>2, <3>1 DEF Kept
  <2>3. \A j : (Into(j, d)' <=> Into(j, d)) /\ (LastInto(j, d)' <=> LastInto(j, d))
    BY <1>1 DEF LastInto, Into
  <2>4. QED
    BY <1>1, <2>1, <2>2, <2>3 DEF WillHold
<1>10. i = WaveSize + 1
  BY <1>1, <1>2 DEF WaveInv
<1>11. ASSUME NEW l \in 1..waveBase + WaveSize, NEW d, d = miss[l].dst,
              NEW e, e = miss[l].expert
       PROVE  WillHold(d, e)'
  <2>1. CASE l \in 1..waveBase
    BY <1>1, <1>8, <1>11, <2>1 DEF WavesInv
  <2>2. CASE l \notin 1..waveBase
    <3>1. PICK k : k = l - waveBase
      OBVIOUS
    <3>2. k \in Wave /\ k \in 1..i - 1 /\ l = waveBase + k
      BY <1>2, <1>10, <2>2, <3>1
    <3>3. WillHoldFrom(k, d, e)
      BY <1>1, <1>11, <3>2 DEF WaveInv
    <3>4. QED
      BY <1>9, <3>2, <3>3
  <2>3. QED
    BY <2>1, <2>2
<1>12. StreamInv'
  BY <1>1 DEF StreamInv, LastInto, Into
<1>13. CASE LastWave /\ Return /\ UNCHANGED <<waveBase, waveNo>>
  <2>1. waveBase + WaveSize = Len(miss)
    <3>1. Len(miss) \in Nat /\ waveBase \in Nat /\ WaveDepth \in Nat
      BY <1>2, <1>3
    <3>2. waveBase + WaveDepth >= Len(miss)
      BY <1>13 DEF LastWave
    <3>3. QED
      BY <3>1, <3>2 DEF WaveSize
  <2>2. \A l \in DOMAIN miss : \A d, e : d = miss[l].dst /\ e = miss[l].expert
                                 => WillHold(d, e)'
    BY <1>2, <1>11, <2>1
  <2>3. /\ DueInv' /\ FillInv' /\ WavesInv' /\ WaveInv'
        /\ due' \in [Dst -> StagedExpert \cup {StagedNil}]
        /\ fillPc' = "idle" /\ \E n \in 0..WaveDepth : got' \in [1..n -> BOOLEAN]
    BY <1>1, <1>8, <1>13, <2>2, ReturnIsDue
  <2>4. StagingTypeOK'
    BY <1>1, <1>4, <1>5, <1>13, <2>3 DEF StagingTypeOK
  <2>5. QED
    BY <1>12, <2>3, <2>4
<1>14. CASE /\ ~LastWave /\ fillPc' = "reuse" /\ waveBase' = waveBase + WaveDepth
            /\ waveNo' = waveNo + 1 /\ UNCHANGED <<got, due>>
  <2>1. WaveSize = WaveDepth /\ waveBase' < Len(miss) /\ waveBase' \in Nat
    <3>1. /\ Len(miss) \in Nat /\ waveBase \in Nat /\ WaveDepth \in Nat
          /\ waveBase' = waveBase + WaveDepth
      BY <1>2, <1>3, <1>14
    <3>2. ~(waveBase + WaveDepth >= Len(miss))
      BY <1>14 DEF LastWave
    <3>3. QED
      BY <3>1, <3>2 DEF WaveSize
  <2>2. miss # <<>> /\ waveNo \in Nat /\ waveNo * WaveDepth = waveBase
    BY <1>2 DEF StagingTypeOK
  <2>3. waveNo' * WaveDepth = waveBase' /\ waveNo' \in Nat
    BY <1>3, <1>14, <2>2
  <2>4. StagingTypeOK'
    BY <1>1, <1>4, <1>5, <1>14, <2>1, <2>3 DEF StagingTypeOK
  <2>5. DueInv' /\ FillInv'
    BY <1>1, <1>8, <1>14, <2>1 DEF DueInv, FillInv
  <2>6. WavesInv'
    <3> SUFFICES ASSUME NEW l \in 1..waveBase', NEW d, d = miss[l].dst, NEW e, e = miss[l].expert
                 PROVE  WillHold(d, e)'
      BY <1>1 DEF WavesInv
    <3>1. l \in 1..waveBase + WaveSize
      BY <1>14, <2>1
    <3>2. QED
      BY <1>11, <3>1
  <2>7. WaveInv'
    BY <1>14 DEF WaveInv
  <2>8. QED
    BY <1>12, <2>4, <2>5, <2>6, <2>7
<1>15. QED
  BY <1>13, <1>14 DEF RecordWave

(* The fallback's copies read the mapping, which nothing overwrites.       *)
LEMMA MappedKeepsStaging ==
  ASSUME StagingInv, CopyMapped
  PROVE  StagingInv'
<1> USE DEF StagingInv
<1>1. /\ fillPc = "fallback"
      /\ UNCHANGED <<miss, waveBase, waveNo, i, stagingBytes, ev, copiesDone, slot, fills>>
  BY DEF CopyMapped
<1>2. PICK m \in 0..Len(miss) :
        /\ stream' = stream \o [j \in 1..m |-> [dst |-> miss[j].dst, expert |-> miss[j].expert,
                                                from |-> Mapped]]
        /\ IF m = Len(miss) THEN Return
           ELSE fillPc' = "idle" /\ got' = <<>> /\ UNCHANGED due
  BY DEF CopyMapped, Fallback
<1>3. PICK n, q : /\ n = Len(stream)
                  /\ q = [j \in 1..m |-> [dst |-> miss[j].dst, expert |-> miss[j].expert,
                                          from |-> Mapped]]
  OBVIOUS
<1>4. /\ Len(miss) \in Nat /\ DOMAIN miss = 1..Len(miss)
      /\ \A a, b \in DOMAIN miss : miss[a].dst = miss[b].dst => a = b
  BY <1>1, Waves
<1>5. \A j \in 1..m : j \in DOMAIN miss /\ miss[j].dst \in Dst /\ miss[j].expert \in StagedExpert
  <2>1. miss \in Seq(Missing)
    BY DEF StagingTypeOK, Missing
  <2>2. \A j \in 1..m : j \in DOMAIN miss /\ miss[j] \in Missing
    BY <1>4, <2>1
  <2>3. QED
    BY <2>2 DEF Missing
<1>6. m \in Nat /\ q \in [1..m -> StagedCopy]
  BY <1>3, <1>4, <1>5 DEF StagedCopy
<1>7. q \in Seq(StagedCopy) /\ Len(q) = m
  BY <1>6
<1>8. stream \in Seq(StagedCopy) /\ stream' = stream \o q
  BY <1>2, <1>3 DEF StagingTypeOK, StagedCopy
<1>9. /\ Longer(n, m)
      /\ \A a \in n + 1..n + m : stream'[a] = q[a - n]
  BY <1>3, <1>7, <1>8 DEF Longer
<1>10. \A a \in n + 1..n + m : a - n \in 1..m /\ a \in 1..n + m
  BY <1>6, <1>9 DEF Longer
<1>11. \A a \in n + 1..n + m : /\ stream'[a].dst = miss[a - n].dst
                               /\ stream'[a].expert = miss[a - n].expert
                               /\ stream'[a].from = Mapped
  <2>1. \A j \in 1..m : q[j] = [dst |-> miss[j].dst, expert |-> miss[j].expert, from |-> Mapped]
    BY <1>3
  <2>2. ASSUME NEW a \in n + 1..n + m
        PROVE  /\ stream'[a].dst = miss[a - n].dst /\ stream'[a].expert = miss[a - n].expert
               /\ stream'[a].from = Mapped
    <3>1. PICK c, k : c = stream'[a] /\ k = miss[a - n]
      OBVIOUS
    <3>2. c = [dst |-> k.dst, expert |-> k.expert, from |-> Mapped]
      BY <1>9, <1>10, <2>1, <3>1
    <3>3. c.dst = k.dst /\ c.expert = k.expert /\ c.from = Mapped
      BY <3>2
    <3>4. QED
      BY <3>1, <3>3
  <2>3. QED
    BY <2>2
<1>12. \A a, b \in n + 1..n + m : stream'[a].dst = stream'[b].dst => a = b
  <2> SUFFICES ASSUME NEW a \in n + 1..n + m, NEW b \in n + 1..n + m,
                      stream'[a].dst = stream'[b].dst
               PROVE  a = b
    OBVIOUS
  <2>1. a - n \in DOMAIN miss /\ b - n \in DOMAIN miss
    BY <1>5, <1>10
  <2>2. miss[a - n].dst = miss[b - n].dst
    BY <1>11
  <2>3. a - n = b - n
    BY <1>4, <2>1, <2>2
  <2>4. n \in Nat /\ a \in Int /\ b \in Int
    BY <1>9 DEF Longer
  <2>5. QED
    BY <2>3, <2>4
<1>13. /\ StreamInv'
       /\ \A a \in n + 1..n + m : \A d : d = stream'[a].dst =>
            \A j \in 1..n + m : LastInto(j, d)' <=> j = a
  BY <1>9, <1>12, StreamIssued
<1>14. \A d, e : (\A l \in 1..m : miss[l].dst # d) /\ WillHold(d, e) => WillHold(d, e)'
  <2> SUFFICES ASSUME NEW d, NEW e, \A l \in 1..m : miss[l].dst # d
               PROVE  WillHold(d, e) => WillHold(d, e)'
    OBVIOUS
  <2>1. \A a \in n + 1..n + m : stream'[a].dst # d
    BY <1>10, <1>11
  <2>2. QED
    BY <1>1, <1>9, <2>1, HoldsBehind
<1>15. ASSUME NEW l \in 1..m, NEW d, d = miss[l].dst, NEW e, e = miss[l].expert
       PROVE  WillHold(d, e)'
  <2>1. PICK a : a = n + l
    OBVIOUS
  <2>2. a \in n + 1..n + m /\ a - n = l /\ a \in 1..Len(stream') /\ Len(stream') = n + m
    BY <1>6, <1>9, <2>1 DEF Longer
  <2>3. stream'[a].dst = d /\ stream'[a].expert = e /\ stream'[a].from = Mapped
    BY <1>11, <1>15, <2>2
  <2>4. Into(a, d)' /\ Kept(a)'
    BY <2>2, <2>3 DEF Into, Kept
  <2>5. \A j \in 1..Len(stream') : LastInto(j, d)' => j = a
    BY <1>13, <2>2, <2>3
  <2>6. QED
    BY <2>2, <2>3, <2>4, <2>5 DEF WillHold
<1>16. ASSUME due' \in [Dst -> StagedExpert \cup {StagedNil}], fillPc' = "idle",
              \E k \in 0..WaveDepth : got' \in [1..k -> BOOLEAN]
       PROVE  StagingTypeOK'
  <2>1. stream' \in Seq([dst : Dst, expert : StagedExpert, from : StagingBuffer \cup {Mapped}])
    BY <1>9 DEF Longer, StagedCopy
  <2>2. Issued \in Nat /\ Issued <= Issued' /\ Issued' \in Nat
    <3>1. /\ Len(stream') = n + m /\ n = Len(stream) /\ n \in Nat /\ m \in Nat
          /\ copiesDone \in Nat
      BY <1>9 DEF Longer, StagingTypeOK
    <3>2. QED
      BY <1>1, <3>1 DEF Issued
  <2>3. \A p \in {0, 1} : ev[p] \in 0..Issued'
    BY <2>2 DEF StagingTypeOK
  <2>4. ev' \in [{0, 1} -> 0..Issued']
    BY <1>1, <2>3 DEF StagingTypeOK
  <2>5. QED
    BY <1>1, <1>16, <2>1, <2>4 DEF StagingTypeOK
<1>17. CASE m = Len(miss)
  <2>1. \A l \in DOMAIN miss : \A d, e : d = miss[l].dst /\ e = miss[l].expert
                                 => WillHold(d, e)'
    BY <1>4, <1>15, <1>17
  <2>2. \A d \in Dst : \A e : (\A l \in DOMAIN miss : miss[l].dst # d) /\ WillHold(d, e)
                            => WillHold(d, e)'
    BY <1>4, <1>14, <1>17
  <2>3. Return /\ fillPc # "idle"
    BY <1>1, <1>2, <1>17
  <2>4. /\ DueInv' /\ FillInv' /\ WavesInv' /\ WaveInv'
        /\ due' \in [Dst -> StagedExpert \cup {StagedNil}]
        /\ fillPc' = "idle" /\ \E k \in 0..WaveDepth : got' \in [1..k -> BOOLEAN]
    BY <1>1, <2>1, <2>2, <2>3, ReturnIsDue
  <2>5. QED
    BY <1>13, <1>16, <2>4
<1>18. CASE m # Len(miss)
  <2>1. fillPc' = "idle" /\ got' = <<>> /\ due' = due
    BY <1>2, <1>18
  <2>2. got' \in [1..0 -> BOOLEAN] /\ 0 \in 0..WaveDepth
    BY <2>1, StagingAssumption
  <2>3. StagingTypeOK'
    BY <1>16, <2>1, <2>2 DEF StagingTypeOK
  <2>4. DueInv'
    <3> SUFFICES ASSUME NEW d \in Dst, due'[d] # StagedNil, NEW e, e = due'[d]
                 PROVE  WillHold(d, e)'
      BY DEF DueInv
    <3>1. \A l \in 1..m : miss[l].dst # d
      BY <1>1, <1>5, <2>1 DEF FillInv
    <3>2. WillHold(d, e)
      BY <2>1 DEF DueInv
    <3>3. QED
      BY <1>14, <3>1, <3>2
  <2>5. FillInv' /\ WavesInv' /\ WaveInv'
    BY <2>1 DEF FillInv, WavesInv, WaveInv
  <2>6. QED
    BY <1>13, <2>3, <2>4, <2>5
<1>19. QED
  BY <1>17, <1>18

LEMMA EngineKeepsStaging ==
  ASSUME StagingInv, StagingCopied
  PROVE  StagingInv'
<1> USE DEF StagingInv
<1>1. PICK n : n = Len(stream)
  OBVIOUS
<1>2. /\ stream' \in Seq(StagedCopy) /\ n \in Nat \ {0} /\ Len(stream') = n - 1
      /\ 1 \in 1..n /\ \A j \in 1..n : stream[j] \in StagedCopy
      /\ copiesDone' = copiesDone + 1 /\ copiesDone \in Nat
      /\ slot' = [slot EXCEPT ![stream[1].dst] =
                    IF stream[1].from = Mapped THEN stream[1].expert
                    ELSE stagingBytes[stream[1].from]]
  BY <1>1, StreamDone
<1>3. UNCHANGED <<fillPc, miss, waveBase, waveNo, i, got, stagingBytes, ev, due, fills>>
  BY DEF StagingCopied, call
<1>4. StreamInv'
  BY StreamCopied
<1>5. \A d \in Dst : \A e : /\ WillHold(d, e) => WillHold(d, e)'
                            /\ \A l : WillHoldFrom(l, d, e) => WillHoldFrom(l, d, e)'
  BY HoldsOn
<1>6. StagingTypeOK'
  <2>1. /\ stream[1].dst \in Dst /\ stream[1].expert \in StagedExpert
        /\ stream[1].from = Mapped \/ stream[1].from \in StagingBuffer
    BY <1>2 DEF StagedCopy
  <2>2. slot' \in [Dst -> StagedExpert \cup {StagedNil}]
    BY <1>2, <2>1 DEF StagingTypeOK
  <2>3. Issued' = Issued
    BY <1>1, <1>2 DEF Issued
  <2>4. stream' \in Seq([dst : Dst, expert : StagedExpert, from : StagingBuffer \cup {Mapped}])
    BY <1>2 DEF StagedCopy
  <2>5. copiesDone' \in Nat
    BY <1>2
  <2>6. QED
    BY <1>3, <2>2, <2>3, <2>4, <2>5 DEF StagingTypeOK
<1>7. DueInv' /\ FillInv'
  BY <1>3, <1>5 DEF DueInv, FillInv
<1>8. WavesInv'
  <2> SUFFICES ASSUME fillPc \in {"resolve", "reuse", "read", "copy"},
                      NEW l \in 1..waveBase, NEW d, d = miss[l].dst, NEW e, e = miss[l].expert
               PROVE  WillHold(d, e)'
    BY <1>3 DEF WavesInv
  <2>1. miss[l].dst \in Dst
    <3>1. miss \in Seq(Missing) /\ waveBase \in Nat /\ waveBase < Len(miss)
      BY DEF FillInv, StagingTypeOK, Missing
    <3>2. miss[l] \in Missing
      BY <3>1
    <3>3. QED
      BY <3>2 DEF Missing
  <2>2. WillHold(d, e)
    BY DEF WavesInv
  <2>3. QED
    BY <1>5, <2>1, <2>2
<1>9. WaveInv'
  <2>1. Wave' = Wave /\ WaveSize' = WaveSize /\ Parity' = Parity
    BY <1>3 DEF Wave, WaveSize, Parity
  <2>2. \A j : BufferOf(j)' = BufferOf(j)
    BY <2>1 DEF BufferOf
  <2>3. fillPc = "read" => ev[Parity] <= copiesDone'
    <3>1. Parity \in {0, 1}
      BY Sets
    <3>2. ev[Parity] \in Int
      BY <3>1 DEF StagingTypeOK, Issued
    <3>3. QED
      BY <1>2, <3>2 DEF WaveInv
  <2>4. ASSUME fillPc = "copy", NEW l \in 1..i - 1, NEW d, d = miss[waveBase + l].dst,
               NEW e, e = miss[waveBase + l].expert
        PROVE  WillHoldFrom(l, d, e)'
    <3>1. /\ Wave = 1..WaveSize /\ WaveSize \in 1..WaveDepth
          /\ \A j \in Wave : miss[waveBase + j].dst \in Dst
      BY <2>4, Waves
    <3>2. l \in Wave
      BY <2>4, <3>1 DEF WaveInv
    <3>3. WillHoldFrom(l, d, e) /\ d \in Dst
      BY <2>4, <3>1, <3>2 DEF WaveInv
    <3>4. QED
      BY <1>5, <3>3
  <2>5. QED
    BY <1>3, <2>1, <2>2, <2>3, <2>4 DEF WaveInv
<1>10. QED
  BY <1>4, <1>6, <1>7, <1>8, <1>9

(* Nothing is staged at the start.                                         *)
LEMMA StagingStarts == StagingInit => StagingInv
<1> SUFFICES ASSUME StagingInit PROVE StagingInv
  OBVIOUS
<1>1. WaveDepth \in Nat \ {0} /\ MaxFills \in Nat
  BY StagingAssumption
<1>2. /\ fillPc = "idle" /\ miss = <<>> /\ waveBase = 0 /\ waveNo = 0 /\ i = 1 /\ got = <<>>
      /\ ev = [p \in {0, 1} |-> 0] /\ stream = <<>> /\ copiesDone = 0
      /\ due = [d \in Dst |-> StagedNil] /\ fills = 0
  BY DEF StagingInit
<1>3. Issued = 0 /\ Len(stream) = 0
  BY <1>2 DEF Issued
<1>4. StagingTypeOK
  <2>1. got \in [1..0 -> BOOLEAN] /\ 0 \in 0..WaveDepth
    BY <1>1, <1>2
  <2>2. \E n \in 0..WaveDepth : got \in [1..n -> BOOLEAN]
    BY <2>1
  <2>3. /\ stagingBytes \in [StagingBuffer -> StagedExpert \cup {StagedNil}]
        /\ slot \in [Dst -> StagedExpert \cup {StagedNil}]
        /\ due \in [Dst -> StagedExpert \cup {StagedNil}]
    BY DEF StagingInit
  <2>4. ev \in [{0, 1} -> 0..Issued]
    BY <1>2, <1>3
  <2>5. /\ stream \in Seq([dst : Dst, expert : StagedExpert, from : StagingBuffer \cup {Mapped}])
        /\ miss \in Seq([dst : Dst, expert : StagedExpert])
    BY <1>2
  <2>6. i \in 1..WaveDepth + 1 /\ fills \in 0..MaxFills
    BY <1>1, <1>2
  <2>7. QED
    BY <1>2, <2>2, <2>3, <2>4, <2>5, <2>6 DEF StagingTypeOK
<1>5. StreamInv /\ DueInv /\ FillInv /\ WavesInv /\ WaveInv
  BY <1>2, <1>3 DEF StreamInv, DueInv, FillInv, WavesInv, WaveInv
<1>6. QED
  BY <1>4, <1>5 DEF StagingInv

(* Every step of the host and of the copy engine.                          *)
LEMMA StagingStep == StagingInv /\ [StagingNext]_stagingVars => StagingInv'
<1> SUFFICES ASSUME StagingInv, [StagingNext]_stagingVars PROVE StagingInv'
  OBVIOUS
<1>1. ASSUME NEW m \in Lists, Fill(m) PROVE StagingInv'
  BY <1>1, FillKeepsStaging
<1>2. CASE Resolve
  BY <1>2, HostWaits DEF Resolve, call
<1>3. CASE Reuse
  BY <1>3, HostWaits DEF Reuse, Reusable
<1>4. CASE ReuseFails
  BY <1>4, HostWaits DEF ReuseFails
<1>5. CASE Read
  BY <1>5, ReadKeepsStaging
<1>6. CASE NoBuffer
  BY <1>6, HostWaits DEF NoBuffer, call
<1>7. CASE Copy
  BY <1>7, CopyKeepsStaging
<1>8. CASE RecordWave
  BY <1>8, RecordKeepsStaging
<1>9. CASE RecordFails
  BY <1>9, HostWaits DEF RecordFails, call
<1>10. CASE CopyMapped
  BY <1>10, MappedKeepsStaging
<1>11. CASE StagingCopied
  BY <1>11, EngineKeepsStaging
<1>12. CASE UNCHANGED stagingVars
  <2>1. /\ \A j : Kept(j) => Kept(j)'
        /\ UNCHANGED <<fillPc, miss, waveBase, waveNo, i, got, stagingBytes, ev, stream,
                       copiesDone, slot, due, fills>>
    BY <1>12 DEF stagingVars, call, Kept
  <2>2. \A d, e : WillHold(d, e) => WillHold(d, e)'
    BY <2>1, HoldsStill
  <2>3. \A l, d, e : WillHoldFrom(l, d, e) => WillHoldFrom(l, d, e)'
    BY <2>1 DEF WillHoldFrom, LastInto, Into, BufferOf, Parity
  <2>4. StreamInv' /\ StagingTypeOK'
    BY <2>1 DEF StagingInv, StreamInv, LastInto, Into, StagingTypeOK, Issued
  <2>5. DueInv' /\ FillInv' /\ WavesInv'
    BY <2>1, <2>2 DEF StagingInv, DueInv, FillInv, WavesInv
  <2>6. WaveInv'
    BY <2>1, <2>3 DEF StagingInv, WaveInv, Wave, WaveSize, Parity, BufferOf
  <2>7. QED
    BY <2>4, <2>5, <2>6 DEF StagingInv
<1>13. QED
  BY <1>1, <1>2, <1>3, <1>4, <1>5, <1>6, <1>7, <1>8, <1>9, <1>10, <1>11, <1>12
  DEF StagingNext, Work

LEMMA StagingAlways == StagingSpec => []StagingInv
<1>1. QED
  BY StagingStarts, StagingStep, PTL DEF StagingSpec

(* Every variable of the staging path keeps its type; the wave number and  *)
(* the place in the list go together.                                      *)
THEOREM StagingTypeCorrect == StagingSpec => []StagingTypeOK
<1>1. StagingInv => StagingTypeOK
  BY DEF StagingInv
<1>2. QED
  BY <1>1, StagingAlways, PTL

(* What a fill reported done is in its slots, or will be once the copies   *)
(* issued so far are done: no wave is read into a buffer that such a copy  *)
(* still reads, also not behind waves that were given up.                  *)
THEOREM FilledSlotsAreServed == StagingSpec => []FilledWithItsExpert
<1>1. StagingInv => FilledWithItsExpert
  <2> SUFFICES ASSUME StagingInv, NEW d \in Dst, due[d] # StagedNil,
                      NEW last, last = {j \in DOMAIN stream :
                         /\ stream[j].dst = d
                         /\ \A l \in (j + 1)..Len(stream) : stream[l].dst # d}
               PROVE  IF last = {} THEN slot[d] = due[d]
                      ELSE \A j \in last : /\ stream[j].expert = due[d]
                                           /\ Source(stream[j]) = due[d]
    BY DEF FilledWithItsExpert
  <2> USE DEF StagingInv
  <2>1. DOMAIN stream = 1..Len(stream) /\ Len(stream) \in Nat
    BY DEF StagingTypeOK
  <2>2. \A j \in 1..Len(stream) : j \in last <=> LastInto(j, d)
    BY <2>1 DEF LastInto, Into
  <2>3. WillHold(d, due[d])
    BY DEF DueInv
  <2>4. CASE last = {}
    <3>1. \A j \in 1..Len(stream) : ~LastInto(j, d)
      BY <2>2, <2>4
    <3>2. \A j \in 1..Len(stream) : ~Into(j, d)
      BY <3>1 DEF StreamInv, Into
    <3>3. QED
      BY <2>3, <2>4, <3>2 DEF WillHold
  <2>5. CASE last # {}
    <3>1. \A j \in last : j \in 1..Len(stream) /\ LastInto(j, d)
      BY <2>1, <2>2
    <3>2. \A j \in last : stream[j].expert = due[d] /\ Kept(j)
      BY <2>3, <3>1 DEF WillHold
    <3>3. QED
      BY <2>5, <3>2 DEF Kept, Source
  <2>6. QED
    BY <2>4, <2>5
<1>2. QED
  BY <1>1, StagingAlways, PTL
-----------------------------------------------------------------------------
(* Readahead.                                                              *)

Copying == [buf : RaBuffer, expert : RaExpert, fenced : BOOLEAN]

(* RaTypeOK but for the length of the queue, which follows from the jobs   *)
(* being distinct.                                                         *)
SlotsType ==
  /\ state \in [RaBuffer -> {"free", "filling", "ready", "taken", "fail"}]
  /\ key \in [RaBuffer -> RaExpert \cup {RaNil}]
  /\ bytes \in [RaBuffer -> RaExpert \cup {RaNil}]
  /\ freePending \in [RaBuffer -> BOOLEAN]

AgeType ==
  seq \in [RaBuffer -> 0..MaxOffers] /\ nseq \in 0..MaxOffers /\ raStop \in BOOLEAN

WorkerType ==
  /\ raWpc \in {"none", "check", "asleep", "issue", "await", "gone"}
  /\ queue \in Seq(RaBuffer) /\ batch \in Seq(RaBuffer) /\ Len(batch) <= RaDepth
  /\ jobAt \in 1..RaDepth + 1

HostType ==
  /\ hpc \in {"off", "idle", "take", "asleep", "copy", "record", "release", "join", "quit"}
  /\ raWant \in RaExpert \cup {RaNil} /\ mine \in RaBuffer \cup {RaNil}
  /\ out \in Seq(Copying)

RaType == SlotsType /\ AgeType /\ WorkerType /\ HostType

InBatch(b) == \E j \in 1..Len(batch) : batch[j] = b
InQueue(b) == \E j \in 1..Len(queue) : queue[j] = b

(* Each buffer being filled has one job, in the worker's batch or behind   *)
(* it in the queue.                                                        *)
JobsInv ==
  /\ \A j, k \in 1..Len(batch) : batch[j] = batch[k] => j = k
  /\ \A j, k \in 1..Len(queue) : queue[j] = queue[k] => j = k
  /\ \A b \in RaBuffer : ~(InBatch(b) /\ InQueue(b))
  /\ \A b \in RaBuffer : state[b] = "filling" <=> InBatch(b) \/ InQueue(b)
  /\ raWpc \notin {"issue", "await"} => batch = <<>>

(* What the worker has read so far is what the jobs of its batch asked.    *)
WorkInv ==
  /\ ok \subseteq issued /\ issued \subseteq RaBuffer
  /\ \A b \in issued : InBatch(b)
  /\ raWpc = "issue" => ok = {}
  /\ \A b \in ok : bytes[b] = key[b]

(* A copy-out under way keeps its buffer from the worker: the buffer is    *)
(* taken, or it is behind an event that the worker will wait for.          *)
Guarded(c) ==
  /\ bytes[c.buf] = c.expert
  /\ c.buf \notin issued /\ state[c.buf] # "ready"
  /\ state[c.buf] = "taken" \/ (c.fenced /\ freePending[c.buf])
  /\ c.buf = mine => hpc # "copy" /\ (hpc = "release" => c.fenced)

OutInv == \A j \in 1..Len(out) : Guarded(out[j])

(* The buffer the host has taken and not released.                         *)
MineInv ==
  /\ hpc \in {"take", "asleep", "copy", "record", "release"} => raWant \in RaExpert
  /\ hpc \in {"copy", "record", "release"} =>
       /\ mine \in RaBuffer
       /\ state[mine] = "taken" /\ key[mine] = raWant /\ freePending[mine]

(* The worker leaves after a stop, with nothing queued.                    *)
StopInv ==
  /\ raStop => hpc \in {"join", "quit"}
  /\ raWpc = "gone" => raStop /\ queue = <<>>

RaInv ==
  /\ RaType /\ JobsInv /\ WorkInv /\ OutInv /\ MineInv /\ StopInv
  /\ ReadyIsRead /\ OneBufferPerExpert

(* A step that neither hands over nor settles a job.                       *)
LEMMA SameJobs ==
  ASSUME JobsInv, UNCHANGED <<batch, queue>>,
         \A b \in RaBuffer : state'[b] = "filling" <=> state[b] = "filling",
         raWpc' \notin {"issue", "await"} => raWpc \notin {"issue", "await"}
  PROVE  JobsInv'
<1>1. \A b : (InBatch(b)' <=> InBatch(b)) /\ (InQueue(b)' <=> InQueue(b))
  BY DEF InBatch, InQueue
<1>2. QED
  BY <1>1 DEF JobsInv

(* The buffer of the worker's next job is being filled, and no copy-out    *)
(* that the worker will not wait for still reads it.                       *)
LEMMA JobIsFilling ==
  ASSUME RaInv, raWpc \in {"issue", "await"}, jobAt <= Len(batch)
  PROVE  /\ Job \in RaBuffer /\ InBatch(Job) /\ state[Job] = "filling"
         /\ jobAt + 1 \in 1..RaDepth + 1
<1>1. jobAt \in 1..Len(batch) /\ batch \in Seq(RaBuffer) /\ RaDepth \in Nat \ {0}
  BY ReadaheadAssumption DEF RaInv, RaType, WorkerType
<1>2. Job \in RaBuffer /\ InBatch(Job)
  BY <1>1 DEF Job, InBatch
<1>3. state[Job] = "filling"
  BY <1>2 DEF RaInv, JobsInv
<1>4. jobAt + 1 \in 1..RaDepth + 1
  BY <1>1 DEF RaInv, RaType, WorkerType
<1>5. QED
  BY <1>2, <1>3, <1>4

(* No copy out is queued on a buffer whose event was waited for.           *)
LEMMA JobIsClear ==
  ASSUME RaInv, raWpc = "issue", jobAt <= Len(batch),
         freePending[Job] => CopiedOut(Job)
  PROVE  \A j \in 1..Len(out) : out[j].buf # Job
<1>1. state[Job] = "filling"
  BY JobIsFilling
<1>2. ASSUME NEW j \in 1..Len(out), out[j].buf = Job
      PROVE  FALSE
  <2>1. out[j].fenced /\ freePending[Job]
    BY <1>1, <1>2 DEF RaInv, OutInv, Guarded
  <2>2. j \in DOMAIN out
    BY DEF RaInv, RaType, HostType
  <2>3. QED
    BY <1>2, <2>1, <2>2 DEF CopiedOut
<1>3. QED
  BY <1>2

LEMMA OutBuffer ==
  ASSUME RaType
  PROVE  \A j \in 1..Len(out) : out[j].buf \in RaBuffer /\ out[j].expert \in RaExpert
<1>1. \A j \in 1..Len(out) : out[j] \in Copying
  BY DEF RaType, HostType
<1>2. QED
  BY <1>1 DEF Copying

(* -------------------------- The worker's steps -------------------------- *)
(* The buffer of the next job is waited for and prepared: whether or not    *)
(* its read is issued, what it held is gone.                               *)
LEMMA JobEmptied ==
  ASSUME RaInv, raWpc = "issue", jobAt <= Len(batch),
         freePending[Job] => CopiedOut(Job),
         freePending' = [freePending EXCEPT ![Job] = FALSE],
         bytes' = [bytes EXCEPT ![Job] = RaNil],
         issued' \in {issued, issued \cup {Job}}, jobAt' = jobAt + 1,
         UNCHANGED <<state, key, seq, nseq, queue, raStop, raWpc, batch, ok, host, out>>
  PROVE  RaInv'
<1>1. /\ Job \in RaBuffer /\ InBatch(Job) /\ state[Job] = "filling"
      /\ jobAt + 1 \in 1..RaDepth + 1
  BY JobIsFilling
<1>2. \A j \in 1..Len(out) : out[j].buf # Job
  BY JobIsClear
<1>3. RaType'
  BY <1>1 DEF RaInv, RaType, SlotsType, AgeType, WorkerType, HostType, host
<1>4. JobsInv'
  BY SameJobs DEF RaInv
<1>5. WorkInv'
  BY <1>1 DEF RaInv, WorkInv, InBatch
<1>6. OutInv'
  <2>1. ASSUME NEW j \in 1..Len(out) PROVE Guarded(out[j])'
    <3>1. out[j].buf # Job /\ out[j].buf \in RaBuffer /\ Guarded(out[j])
      BY <1>2, OutBuffer DEF RaInv, OutInv
    <3>2. /\ bytes'[out[j].buf] = bytes[out[j].buf]
          /\ freePending'[out[j].buf] = freePending[out[j].buf]
      BY <3>1 DEF RaInv, RaType, SlotsType
    <3>3. QED
      BY <3>1, <3>2 DEF Guarded, host
  <2>2. QED
    BY <2>1 DEF OutInv
<1>7. MineInv'
  BY <1>1 DEF RaInv, RaType, SlotsType, MineInv, host
<1>8. StopInv'
  BY DEF RaInv, StopInv, host
<1>9. ReadyIsRead'
  BY <1>1 DEF RaInv, RaType, SlotsType, ReadyIsRead
<1>10. OneBufferPerExpert'
  BY DEF RaInv, OneBufferPerExpert
<1>11. QED
  BY <1>3, <1>4, <1>5, <1>6, <1>7, <1>8, <1>9, <1>10 DEF RaInv

LEMMA IssueReadKeeps ==
  ASSUME RaInv, IssueRead
  PROVE  RaInv'
BY JobEmptied DEF IssueRead

LEMMA IssueFailsKeeps ==
  ASSUME RaInv, IssueFails
  PROVE  RaInv'
BY JobEmptied DEF IssueFails

(* The copy-outs are guarded as before when nothing about their buffers    *)
(* has changed.                                                            *)
LEMMA SameOut ==
  ASSUME RaInv, UNCHANGED <<bytes, state, freePending, mine, out>>,
         issued' \subseteq issued,
         hpc' \in {"copy", "release"} => hpc' = hpc
  PROVE  OutInv'
BY DEF RaInv, OutInv, Guarded

LEMMA AllIssuedKeeps ==
  ASSUME RaInv, AllIssued
  PROVE  RaInv'
<1>1. /\ raWpc = "issue" /\ raWpc' = "await" /\ jobAt' = 1
      /\ UNCHANGED <<buffers, bytes, queue, raStop, batch, issued, ok, host, out>>
  BY DEF AllIssued
<1>2. RaType'
  BY <1>1, ReadaheadAssumption
     DEF RaInv, RaType, SlotsType, AgeType, WorkerType, HostType, host, buffers
<1>3. JobsInv'
  BY <1>1, SameJobs DEF RaInv, buffers
<1>4. OutInv'
  BY <1>1, SameOut DEF buffers, host
<1>5. WorkInv' /\ MineInv' /\ StopInv' /\ ReadyIsRead' /\ OneBufferPerExpert'
  BY <1>1 DEF RaInv, WorkInv, InBatch, MineInv, StopInv, ReadyIsRead, OneBufferPerExpert,
              buffers, host
<1>6. QED
  BY <1>2, <1>3, <1>4, <1>5 DEF RaInv

LEMMA ResolveFailsKeeps ==
  ASSUME RaInv, ResolveFails
  PROVE  RaInv'
<1>1. /\ raWpc = "issue" /\ jobAt <= Len(batch) /\ jobAt' = jobAt + 1
      /\ UNCHANGED <<buffers, bytes, queue, raStop, raWpc, batch, issued, ok, host, out>>
  BY DEF ResolveFails
<1>2. jobAt + 1 \in 1..RaDepth + 1
  BY <1>1, JobIsFilling
<1>3. RaType'
  BY <1>1, <1>2 DEF RaInv, RaType, SlotsType, AgeType, WorkerType, HostType, host, buffers
<1>4. JobsInv'
  BY <1>1, SameJobs DEF RaInv, buffers
<1>5. OutInv'
  BY <1>1, SameOut DEF buffers, host
<1>6. WorkInv' /\ MineInv' /\ StopInv' /\ ReadyIsRead' /\ OneBufferPerExpert'
  BY <1>1 DEF RaInv, WorkInv, InBatch, MineInv, StopInv, ReadyIsRead, OneBufferPerExpert,
              buffers, host
<1>7. QED
  BY <1>3, <1>4, <1>5, <1>6 DEF RaInv

LEMMA AwaitReadKeeps ==
  ASSUME RaInv, AwaitRead
  PROVE  RaInv'
<1>1. /\ raWpc = "await" /\ jobAt <= Len(batch) /\ jobAt' = jobAt + 1
      /\ UNCHANGED <<buffers, queue, raStop, raWpc, batch, issued, host, out>>
  BY DEF AwaitRead
<1>2. \/ UNCHANGED <<bytes, ok>>
      \/ Job \in issued /\ UNCHANGED ok /\ bytes' = [bytes EXCEPT ![Job] = key[Job]]
      \/ /\ Job \in issued /\ ok' = ok \cup {Job}
         /\ bytes' = [bytes EXCEPT ![Job] = key[Job]]
  BY DEF AwaitRead, Accepted
<1>3. /\ Job \in RaBuffer /\ InBatch(Job) /\ state[Job] = "filling"
      /\ jobAt + 1 \in 1..RaDepth + 1
  BY <1>1, JobIsFilling
<1>4. SlotsType' /\ \A b \in RaBuffer : b \notin issued => bytes'[b] = bytes[b]
  BY <1>1, <1>2, <1>3 DEF RaInv, RaType, SlotsType, buffers
<1>5. RaType'
  BY <1>1, <1>3, <1>4 DEF RaInv, RaType, AgeType, WorkerType, HostType, host, buffers
<1>6. JobsInv'
  BY <1>1, SameJobs DEF RaInv, buffers
<1>7. WorkInv'
  BY <1>1, <1>2, <1>3 DEF RaInv, WorkInv, InBatch, buffers, RaType, SlotsType
<1>8. OutInv'
  BY <1>1, <1>4, OutBuffer DEF RaInv, OutInv, Guarded, buffers, host
<1>9. ReadyIsRead'
  BY <1>1, <1>2, <1>3 DEF RaInv, ReadyIsRead, buffers, RaType, SlotsType
<1>10. MineInv' /\ StopInv' /\ OneBufferPerExpert'
  BY <1>1 DEF RaInv, MineInv, StopInv, OneBufferPerExpert, buffers, host
<1>11. QED
  BY <1>5, <1>6, <1>7, <1>8, <1>9, <1>10 DEF RaInv

(* The worker takes a batch off the queue, or goes to sleep.               *)
LEMMA TakeBatchKeeps ==
  ASSUME RaInv, TakeBatch
  PROVE  RaInv'
<1> DEFINE n == IF Len(queue) < RaDepth THEN Len(queue) ELSE RaDepth
<1>1. /\ raWpc = "check" /\ batch = <<>> /\ UNCHANGED <<buffers, bytes, raStop, host, out>>
      /\ queue \in Seq(RaBuffer) /\ Len(queue) \in Nat /\ RaDepth \in Nat \ {0}
  BY ReadaheadAssumption DEF TakeBatch, RaInv, JobsInv, RaType, WorkerType
<1>2. SlotsType' /\ AgeType' /\ HostType' /\ MineInv' /\ ReadyIsRead' /\ OneBufferPerExpert'
  BY <1>1 DEF RaInv, RaType, SlotsType, AgeType, HostType, MineInv, ReadyIsRead,
              OneBufferPerExpert, buffers, host
<1>3. CASE /\ n > 0
           /\ batch' = SubSeq(queue, 1, n) /\ queue' = SubSeq(queue, n + 1, Len(queue))
           /\ raWpc' = "issue" /\ jobAt' = 1 /\ issued' = {} /\ ok' = {}
  <2>1. n \in 1..Len(queue) /\ n <= RaDepth /\ \A j \in 1..Len(queue) : queue[j] \in RaBuffer
    BY <1>1, <1>3
  <2> HIDE DEF n
  <2>2. /\ batch' \in Seq(RaBuffer) /\ Len(batch') = n
        /\ \A j \in 1..n : batch'[j] = queue[j]
    <3>1. \A j \in 1..n : queue[j] \in RaBuffer
      BY <1>1, <2>1
    <3>2. QED
      BY <1>1, <1>3, <2>1, <3>1, SubSeqProperties
  <2>3. /\ queue' \in Seq(RaBuffer) /\ Len(queue') = Len(queue) - n
        /\ \A j \in 1..Len(queue) - n : queue'[j] = queue[n + j]
    <3>1. \A j \in n + 1..Len(queue) : queue[j] \in RaBuffer
      BY <1>1, <2>1
    <3>2. QED
      BY <1>1, <1>3, <2>1, <3>1, SubSeqProperties
  <2>4. \A b : InQueue(b) <=> InBatch(b)' \/ InQueue(b)'
    <3>1. ASSUME NEW b, NEW j \in 1..Len(queue), queue[j] = b
          PROVE  InBatch(b)' \/ InQueue(b)'
      <4>1. CASE j <= n
        BY <1>1, <2>1, <2>2, <3>1, <4>1 DEF InBatch
      <4>2. CASE n < j
        <5>1. j - n \in 1..Len(queue) - n /\ queue'[j - n] = b
          BY <1>1, <2>1, <2>3, <3>1, <4>2
        <5>2. QED
          BY <2>3, <5>1 DEF InQueue
      <4>3. QED
        BY <1>1, <2>1, <4>1, <4>2
    <3>2. ASSUME NEW b, InBatch(b)' \/ InQueue(b)'
          PROVE  InQueue(b)
      <4>1. CASE InBatch(b)'
        BY <1>1, <2>1, <2>2, <4>1 DEF InBatch, InQueue
      <4>2. CASE InQueue(b)'
        <5>1. PICK j \in 1..Len(queue) - n : queue'[j] = b
          BY <2>3, <4>2 DEF InQueue
        <5>2. n + j \in 1..Len(queue) /\ queue[n + j] = b
          BY <1>1, <2>1, <2>3, <5>1
        <5>3. QED
          BY <5>2 DEF InQueue
      <4>3. QED
        BY <3>2, <4>1, <4>2
    <3>3. QED
      BY <3>1, <3>2 DEF InQueue
  <2>5. JobsInv'
    <3>1. /\ \A j, k \in 1..Len(queue) : queue[j] = queue[k] => j = k
          /\ \A b : ~InBatch(b)
      BY <1>1 DEF RaInv, JobsInv, InBatch
    <3>2. \A j, k \in 1..n : batch'[j] = batch'[k] => j = k
      BY <1>1, <2>1, <2>2, <3>1
    <3>3. ASSUME NEW j \in 1..Len(queue) - n, NEW k \in 1..Len(queue) - n, queue'[j] = queue'[k]
          PROVE  j = k
      <4>1. n + j \in 1..Len(queue) /\ n + k \in 1..Len(queue)
        BY <1>1, <2>1
      <4>2. queue'[j] = queue[n + j] /\ queue'[k] = queue[n + k]
        BY <1>1, <2>1, <2>3
      <4>3. n + j = n + k
        BY <3>1, <3>3, <4>1, <4>2
      <4>4. QED
        BY <2>1, <4>3
    <3>4. \A b : ~(InBatch(b)' /\ InQueue(b)')
      <4>1. ASSUME NEW j \in 1..n, NEW k \in 1..Len(queue) - n, batch'[j] = queue'[k]
            PROVE  FALSE
        BY <1>1, <2>1, <2>2, <2>3, <3>1, <4>1
      <4>2. QED
        BY <2>2, <2>3, <4>1 DEF InBatch, InQueue
    <3>5. \A b \in RaBuffer : state'[b] = "filling" <=> InBatch(b)' \/ InQueue(b)'
      BY <1>1, <2>4, <3>1 DEF RaInv, JobsInv, buffers
    <3>6. QED
      BY <1>3, <2>2, <2>3, <3>2, <3>3, <3>4, <3>5 DEF JobsInv
  <2>6. RaType'
    BY <1>1, <1>2, <1>3, <2>1, <2>2, <2>3 DEF RaType, WorkerType
  <2>7. OutInv'
    BY <1>1, <1>3, SameOut DEF buffers, host
  <2>8. WorkInv' /\ StopInv'
    BY <1>1, <1>3 DEF RaInv, WorkInv, StopInv, host
  <2>9. QED
    BY <1>2, <2>5, <2>6, <2>7, <2>8 DEF RaInv
<1>4. CASE /\ n = 0 /\ UNCHANGED <<batch, queue, jobAt, issued, ok>>
           /\ raWpc' = IF raStop THEN "gone" ELSE "asleep"
  <2>1. queue = <<>>
    BY <1>1, <1>4
  <2>2. RaType'
    BY <1>2, <1>4 DEF RaInv, RaType, WorkerType
  <2>3. JobsInv'
    BY <1>1, <1>4, SameJobs DEF RaInv, buffers
  <2>4. OutInv'
    BY <1>1, <1>4, SameOut DEF buffers, host
  <2>5. WorkInv' /\ StopInv'
    BY <1>1, <1>4, <2>1 DEF RaInv, WorkInv, InBatch, StopInv, buffers, host
  <2>6. QED
    BY <1>2, <2>2, <2>3, <2>4, <2>5 DEF RaInv
<1>5. QED
  BY <1>3, <1>4 DEF TakeBatch

LEMMA PublishKeeps ==
  ASSUME RaInv, RaPublish
  PROVE  RaInv'
<1>1. /\ raWpc = "await" /\ raWpc' = "check" /\ batch' = <<>> /\ issued' = {} /\ ok' = {}
      /\ state' = [b \in RaBuffer |-> IF b \notin SetOf(batch) THEN state[b]
                                      ELSE IF b \in ok THEN "ready" ELSE "fail"]
      /\ hpc' = IF hpc = "asleep" THEN "take" ELSE hpc
      /\ UNCHANGED <<key, seq, nseq, freePending, bytes, queue, raStop, jobAt, raWant, mine, out>>
  BY DEF RaPublish, Awoken
<1>2. \A b : b \in SetOf(batch) <=> InBatch(b)
  BY DEF SetOf, InBatch, RaInv, RaType, WorkerType
<1>3. \A b \in RaBuffer :
        /\ state'[b] = IF ~InBatch(b) THEN state[b] ELSE IF b \in ok THEN "ready" ELSE "fail"
        /\ InBatch(b) => state[b] = "filling"
        /\ ok \subseteq issued
  BY <1>1, <1>2 DEF RaInv, JobsInv, WorkInv
<1>4. RaType'
  <2>1. state' \in [RaBuffer -> {"free", "filling", "ready", "taken", "fail"}]
    BY <1>1 DEF RaInv, RaType, SlotsType
  <2>2. SlotsType' /\ AgeType' /\ HostType'
    BY <1>1, <2>1 DEF RaInv, RaType, SlotsType, AgeType, HostType
  <2>3. WorkerType'
    BY <1>1, ReadaheadAssumption DEF RaInv, RaType, WorkerType
  <2>4. QED
    BY <2>2, <2>3 DEF RaType
<1>5. JobsInv'
  <2>1. \A b : (InQueue(b)' <=> InQueue(b)) /\ ~InBatch(b)'
    BY <1>1 DEF InQueue, InBatch
  <2>2. QED
    BY <1>1, <1>3, <2>1 DEF RaInv, JobsInv
<1>6. OutInv'
  <2>1. ASSUME NEW j \in 1..Len(out) PROVE Guarded(out[j])'
    <3>1. out[j].buf \in RaBuffer /\ Guarded(out[j])
      BY OutBuffer DEF RaInv, OutInv
    <3>2. state'[out[j].buf] # "ready" /\ (state[out[j].buf] = "taken" => state'[out[j].buf] = "taken")
      BY <1>3, <3>1 DEF Guarded
    <3>3. QED
      BY <1>1, <3>1, <3>2 DEF Guarded
  <2>2. QED
    BY <1>1, <2>1 DEF OutInv
<1>7. WorkInv' /\ StopInv'
  BY <1>1 DEF RaInv, WorkInv, StopInv
<1>8. MineInv'
  BY <1>1, <1>3 DEF RaInv, MineInv
<1>9. ReadyIsRead'
  BY <1>1, <1>3 DEF RaInv, WorkInv, ReadyIsRead
<1>10. OneBufferPerExpert'
  BY <1>1, <1>3 DEF RaInv, OneBufferPerExpert
<1>11. QED
  BY <1>4, <1>5, <1>6, <1>7, <1>8, <1>9, <1>10 DEF RaInv

(* --------------------------- The host's steps --------------------------- *)

(* A step of the host that touches neither buffers nor jobs.               *)
LEMMA HostMoves ==
  ASSUME RaInv, RaType', MineInv', StopInv',
         UNCHANGED <<buffers, bytes, queue, batch, jobAt, issued, ok, out>>,
         mine' = mine \/ hpc' \notin {"copy", "release"},
         hpc' \in {"copy", "release"} => hpc' = hpc,
         raWpc' = raWpc \/ {raWpc, raWpc'} \cap {"issue", "await"} = {}
  PROVE  RaInv'
<1>1. JobsInv'
  BY SameJobs DEF RaInv, buffers
<1>2. OutInv'
  BY DEF RaInv, OutInv, Guarded, buffers
<1>3. WorkInv' /\ ReadyIsRead' /\ OneBufferPerExpert'
  BY DEF RaInv, WorkInv, InBatch, ReadyIsRead, OneBufferPerExpert, buffers
<1>4. QED
  BY <1>1, <1>2, <1>3 DEF RaInv

LEMMA HostTurns ==
  ASSUME RaInv,
         Start \/ Quit \/ Timeout \/ RaSpurious \/ (\E e \in RaExpert : Take(e))
  PROVE  RaInv'
<1>1. RaType' /\ UNCHANGED <<buffers, bytes, queue, batch, jobAt, issued, ok, out, mine>>
  BY DEF RaInv, RaType, SlotsType, AgeType, WorkerType, HostType, Start, Quit, Timeout,
         RaSpurious, Take, Roused, buffers, worker
<1>2. hpc' \in {"off", "idle", "take", "join", hpc}
  BY DEF Start, Quit, Timeout, RaSpurious, Take
<1>3. raWpc' = raWpc \/ {raWpc, raWpc'} \cap {"issue", "await"} = {}
  BY DEF RaInv, RaType, WorkerType, Start, Quit, Timeout, RaSpurious, Take, Roused, worker
<1>4. MineInv'
  BY <1>1 DEF RaInv, MineInv, Start, Quit, Timeout, RaSpurious, Take, buffers
<1>5. StopInv'
  BY <1>1 DEF RaInv, StopInv, Start, Quit, Timeout, RaSpurious, Take, Roused, worker
<1>6. QED
  BY <1>1, <1>2, <1>3, <1>4, <1>5, HostMoves

LEMMA OfferKeeps ==
  ASSUME RaInv, NEW e \in RaExpert, Offer(e)
  PROVE  RaInv'
<1>1. PICK b \in RaBuffer :
        /\ IsOffered(b)
        /\ state' = [state EXCEPT ![b] = "filling"] /\ key' = [key EXCEPT ![b] = e]
        /\ nseq' = nseq + 1 /\ seq' = [seq EXCEPT ![b] = nseq + 1]
        /\ queue' = Append(queue, b)
  BY DEF Offer
<1>2. /\ hpc = "idle" /\ nseq < MaxOffers /\ ~Staged(e) /\ raWpc' = Roused
      /\ UNCHANGED <<freePending, bytes, raStop, batch, jobAt, issued, ok, host, out>>
  BY DEF Offer
<1>3. state[b] \in {"free", "fail", "ready"}
  BY <1>1 DEF IsOffered, IsFirst, Idle, Unclaimed
<1>4. /\ queue \in Seq(RaBuffer) /\ Len(queue) \in Nat
      /\ queue' \in Seq(RaBuffer) /\ Len(queue') = Len(queue) + 1
      /\ queue'[Len(queue) + 1] = b
      /\ \A j \in 1..Len(queue) : queue'[j] = queue[j]
  BY <1>1, AppendProperties DEF RaInv, RaType, WorkerType
<1>5. /\ \A c \in RaBuffer : c # b => state'[c] = state[c] /\ key'[c] = key[c]
      /\ state'[b] = "filling" /\ key'[b] = e
      /\ ~InBatch(b) /\ ~InQueue(b)
  BY <1>1, <1>3 DEF RaInv, RaType, SlotsType, JobsInv
<1>6. RaType'
  <2>1. SlotsType'
    BY <1>1, <1>2 DEF RaInv, RaType, SlotsType
  <2>2. AgeType'
    <3>1. nseq + 1 \in 0..MaxOffers
      BY <1>2, ReadaheadAssumption DEF RaInv, RaType, AgeType
    <3>2. QED
      BY <1>1, <1>2, <3>1 DEF RaInv, RaType, AgeType
  <2>3. WorkerType' /\ HostType'
    BY <1>2, <1>4 DEF RaInv, RaType, WorkerType, HostType, Roused, host
  <2>4. QED
    BY <2>1, <2>2, <2>3 DEF RaType
<1>7. JobsInv'
  <2>1. \A c : (InBatch(c)' <=> InBatch(c)) /\ (InQueue(c)' <=> InQueue(c) \/ c = b)
    <3>1. ASSUME NEW c, InQueue(c)'
          PROVE  InQueue(c) \/ c = b
      <4>1. PICK j \in 1..Len(queue) + 1 : queue'[j] = c
        BY <1>4, <3>1 DEF InQueue
      <4>2. j \in 1..Len(queue) \/ j = Len(queue) + 1
        BY <1>4
      <4>3. QED
        BY <1>4, <4>1, <4>2 DEF InQueue
    <3>2. ASSUME NEW c, InQueue(c)
          PROVE  InQueue(c)'
      BY <1>4, <3>2 DEF InQueue
    <3>3. InQueue(b)'
      BY <1>4 DEF InQueue
    <3>4. QED
      BY <1>2, <3>1, <3>2, <3>3 DEF InBatch
  <2>2. \A j, k \in 1..Len(queue') : queue'[j] = queue'[k] => j = k
    <3>1. \A j \in 1..Len(queue) : queue[j] # b
      BY <1>5 DEF InQueue
    <3>2. \A j \in 1..Len(queue') : j \in 1..Len(queue) \/ j = Len(queue) + 1
      BY <1>4
    <3>3. QED
      BY <1>4, <3>1, <3>2 DEF RaInv, JobsInv
  <2>3. raWpc' \notin {"issue", "await"} => batch' = <<>>
    BY <1>2 DEF RaInv, JobsInv, Roused
  <2>4. QED
    BY <1>2, <1>5, <2>1, <2>2, <2>3 DEF RaInv, JobsInv
<1>8. WorkInv'
  BY <1>2, <1>5 DEF RaInv, WorkInv, InBatch, Roused
<1>9. OutInv'
  <2>1. ASSUME NEW j \in 1..Len(out) PROVE Guarded(out[j])'
    <3>1. out[j].buf \in RaBuffer /\ Guarded(out[j])
      BY OutBuffer DEF RaInv, OutInv
    <3>2. QED
      BY <1>2, <1>3, <1>5, <3>1 DEF Guarded, host
  <2>2. QED
    BY <1>2, <2>1 DEF OutInv
<1>10. MineInv' /\ StopInv'
  BY <1>2 DEF RaInv, MineInv, StopInv, Roused, host
<1>11. ReadyIsRead'
  BY <1>2, <1>5 DEF RaInv, ReadyIsRead
<1>12. OneBufferPerExpert'
  BY <1>2, <1>5 DEF RaInv, OneBufferPerExpert, Staged
<1>13. QED
  BY <1>6, <1>7, <1>8, <1>9, <1>10, <1>11, <1>12 DEF RaInv

LEMMA LookKeeps ==
  ASSUME RaInv, Look
  PROVE  RaInv'
<1>1. hpc = "take" /\ UNCHANGED <<key, seq, nseq, bytes, queue, raStop, worker, out>>
  BY DEF Look
<1>2. CASE Telling = {} /\ hpc' = "idle" /\ raWant' = RaNil
           /\ UNCHANGED <<state, freePending, mine>>
  <2>1. RaType'
    BY <1>1, <1>2 DEF RaInv, RaType, SlotsType, AgeType, WorkerType, HostType, worker
  <2>2. MineInv' /\ StopInv'
    BY <1>1, <1>2 DEF RaInv, MineInv, StopInv, worker
  <2>3. QED
    BY <1>1, <1>2, <2>1, <2>2, HostMoves DEF buffers, worker
<1>3. CASE hpc' = "asleep" /\ UNCHANGED <<state, freePending, raWant, mine>>
  <2>1. RaType'
    BY <1>1, <1>3 DEF RaInv, RaType, SlotsType, AgeType, WorkerType, HostType, worker
  <2>2. MineInv' /\ StopInv'
    BY <1>1, <1>3 DEF RaInv, MineInv, StopInv, worker
  <2>3. QED
    BY <1>1, <1>3, <2>1, <2>2, HostMoves DEF buffers, worker
<1>4. ASSUME NEW b \in RaBuffer, state[b] = "fail", state' = [state EXCEPT ![b] = "free"],
             hpc' = "idle", raWant' = RaNil, UNCHANGED <<freePending, mine>>
      PROVE  RaInv'
  <2>1. \A c \in RaBuffer : state'[c] = state[c] \/ (c = b /\ state'[c] = "free")
    BY <1>4 DEF RaInv, RaType, SlotsType
  <2>2. RaType'
    BY <1>1, <1>4 DEF RaInv, RaType, SlotsType, AgeType, WorkerType, HostType, worker
  <2>3. JobsInv'
    BY <1>1, <1>4, <2>1, SameJobs DEF RaInv, worker
  <2>4. OutInv'
    BY <1>1, <1>4, <2>1, OutBuffer DEF RaInv, OutInv, Guarded, worker
  <2>5. WorkInv' /\ MineInv' /\ StopInv'
    BY <1>1, <1>4 DEF RaInv, WorkInv, InBatch, MineInv, StopInv, worker
  <2>6. ReadyIsRead' /\ OneBufferPerExpert'
    BY <1>1, <2>1 DEF RaInv, ReadyIsRead, OneBufferPerExpert
  <2>7. QED
    BY <2>2, <2>3, <2>4, <2>5, <2>6 DEF RaInv
<1>5. ASSUME NEW b \in Telling, state[b] = "ready", state' = [state EXCEPT ![b] = "taken"],
             freePending' = [freePending EXCEPT ![b] = TRUE],
             hpc' = "copy", mine' = b, UNCHANGED raWant
      PROVE  RaInv'
  <2>1. /\ b \in RaBuffer /\ key[b] = raWant
        /\ \A c \in RaBuffer : c # b => /\ state'[c] = state[c]
                                        /\ freePending'[c] = freePending[c]
        /\ state'[b] = "taken" /\ freePending'[b]
    BY <1>5 DEF RaInv, RaType, SlotsType, Telling
  <2>2. RaType'
    BY <1>1, <1>5, <2>1 DEF RaInv, RaType, SlotsType, AgeType, WorkerType, HostType, worker
  <2>3. JobsInv'
    BY <1>1, <1>5, <2>1, SameJobs DEF RaInv, worker
  <2>4. OutInv'
    <3>1. ASSUME NEW j \in 1..Len(out) PROVE Guarded(out[j])'
      <4>1. out[j].buf \in RaBuffer /\ Guarded(out[j]) /\ out[j].buf # b
        BY <1>5, OutBuffer DEF RaInv, OutInv, Guarded
      <4>2. QED
        BY <1>1, <1>5, <2>1, <4>1 DEF Guarded, worker
    <3>2. QED
      BY <1>1, <3>1 DEF OutInv
  <2>5. WorkInv' /\ StopInv'
    BY <1>1, <1>5 DEF RaInv, WorkInv, InBatch, StopInv, worker
  <2>6. MineInv'
    BY <1>1, <1>5, <2>1 DEF RaInv, MineInv
  <2>7. ReadyIsRead' /\ OneBufferPerExpert'
    BY <1>1, <1>5, <2>1 DEF RaInv, ReadyIsRead, OneBufferPerExpert
  <2>8. QED
    BY <2>2, <2>3, <2>4, <2>5, <2>6, <2>7 DEF RaInv
<1>6. QED
  BY <1>2, <1>3, <1>4, <1>5 DEF Look, IsFirst

LEMMA CopyOutKeeps ==
  ASSUME RaInv, CopyOut
  PROVE  RaInv'
<1>1. /\ hpc = "copy" /\ UNCHANGED <<key, seq, nseq, bytes, queue, raStop, worker>>
      /\ mine \in RaBuffer /\ state[mine] = "taken" /\ key[mine] = raWant
      /\ raWant \in RaExpert /\ freePending[mine] /\ bytes[mine] = raWant
  BY DEF CopyOut, RaInv, MineInv, ReadyIsRead
<1>2. \A j \in 1..Len(out) : out[j].buf # mine
  BY <1>1 DEF RaInv, OutInv, Guarded
<1>3. mine \notin issued
  BY <1>1 DEF RaInv, WorkInv, JobsInv
<1>4. CASE /\ out' = Append(out, [buf |-> mine, expert |-> raWant, fenced |-> FALSE])
           /\ hpc' = "record" /\ UNCHANGED <<state, freePending, raWant, mine>>
  <2>1. PICK c \in Copying : c = [buf |-> mine, expert |-> raWant, fenced |-> FALSE]
    BY <1>1 DEF Copying
  <2>2. /\ out' \in Seq(Copying) /\ Len(out') = Len(out) + 1 /\ Len(out) \in Nat
        /\ \A j \in 1..Len(out) : out'[j] = out[j]
        /\ out'[Len(out) + 1] = c
    BY <1>4, <2>1, AppendProperties DEF RaInv, RaType, HostType
  <2>3. RaType'
    BY <1>1, <1>4, <2>2 DEF RaInv, RaType, SlotsType, AgeType, WorkerType, HostType, worker
  <2>4. JobsInv'
    BY <1>1, <1>4, SameJobs DEF RaInv, worker
  <2>5. OutInv'
    <3>1. Guarded(c)'
      BY <1>1, <1>3, <1>4, <2>1 DEF Guarded, worker
    <3>2. ASSUME NEW j \in 1..Len(out) PROVE Guarded(out[j])'
      BY <1>1, <1>2, <1>4, <2>2 DEF RaInv, OutInv, Guarded, worker
    <3>3. ASSUME NEW j \in 1..Len(out') PROVE Guarded(out[j])'
      <4>1. j \in 1..Len(out) \/ j = Len(out) + 1
        BY <2>2
      <4>2. QED
        BY <2>2, <3>1, <3>2, <4>1
    <3>4. QED
      BY <3>3 DEF OutInv
  <2>6. WorkInv' /\ MineInv' /\ StopInv' /\ ReadyIsRead' /\ OneBufferPerExpert'
    BY <1>1, <1>4 DEF RaInv, WorkInv, InBatch, MineInv, StopInv, ReadyIsRead,
                      OneBufferPerExpert, worker
  <2>7. QED
    BY <2>3, <2>4, <2>5, <2>6 DEF RaInv
<1>5. CASE /\ state' = [state EXCEPT ![mine] = "free"]
           /\ freePending' = [freePending EXCEPT ![mine] = FALSE]
           /\ TakeDone /\ UNCHANGED out
  <2>1. /\ \A b \in RaBuffer : b # mine => /\ state'[b] = state[b]
                                           /\ freePending'[b] = freePending[b]
        /\ state'[mine] = "free" /\ hpc' = "idle" /\ raWant' = RaNil /\ mine' = RaNil
    BY <1>1, <1>5 DEF RaInv, RaType, SlotsType, TakeDone
  <2>2. RaType'
    BY <1>1, <1>5, <2>1 DEF RaInv, RaType, SlotsType, AgeType, WorkerType, HostType, worker
  <2>3. JobsInv'
    BY <1>1, <1>5, <2>1, SameJobs DEF RaInv, worker
  <2>4. OutInv'
    BY <1>1, <1>2, <1>5, <2>1, OutBuffer DEF RaInv, OutInv, Guarded, worker
  <2>5. WorkInv' /\ MineInv' /\ StopInv' /\ ReadyIsRead' /\ OneBufferPerExpert'
    BY <1>1, <2>1 DEF RaInv, WorkInv, InBatch, MineInv, StopInv, ReadyIsRead,
                      OneBufferPerExpert, worker
  <2>6. QED
    BY <2>2, <2>3, <2>4, <2>5 DEF RaInv
<1>6. QED
  BY <1>4, <1>5 DEF CopyOut

LEMMA RecordKeeps ==
  ASSUME RaInv, Record
  PROVE  RaInv'
<1>1. /\ hpc = "record" /\ UNCHANGED <<buffers, bytes, queue, raStop, worker>>
      /\ out \in Seq(Copying)
  BY DEF Record, RaInv, RaType, HostType
<1>2. CASE /\ out' = [j \in DOMAIN out |->
                       IF out[j].buf = mine THEN [out[j] EXCEPT !.fenced = TRUE] ELSE out[j]]
           /\ hpc' = "release" /\ UNCHANGED <<raWant, mine>>
  <2>1. \A j \in 1..Len(out) : out[j] \in Copying
    BY <1>1
  <2>2. /\ out' \in Seq(Copying) /\ Len(out') = Len(out)
        /\ \A j \in 1..Len(out) :
             /\ out'[j].buf = out[j].buf /\ out'[j].expert = out[j].expert
             /\ out'[j].fenced = (out[j].fenced \/ out[j].buf = mine)
    <3>1. \A j \in 1..Len(out) :
             /\ out'[j] \in Copying
             /\ out'[j].buf = out[j].buf /\ out'[j].expert = out[j].expert
             /\ out'[j].fenced = (out[j].fenced \/ out[j].buf = mine)
      <4>1. ASSUME NEW j \in 1..Len(out)
            PROVE  /\ out'[j] \in Copying
                   /\ out'[j].buf = out[j].buf /\ out'[j].expert = out[j].expert
                   /\ out'[j].fenced = (out[j].fenced \/ out[j].buf = mine)
        <5>1. out'[j] = IF out[j].buf = mine THEN [out[j] EXCEPT !.fenced = TRUE] ELSE out[j]
          <6>1. j \in DOMAIN out
            BY <1>1
          <6>2. QED
            BY <1>2, <6>1
        <5>2. PICK c \in Copying : c = out[j]
          BY <2>1
        <5>3. c.fenced \in BOOLEAN /\ [c EXCEPT !.fenced = TRUE] \in Copying
          BY DEF Copying
        <5>4. CASE c.buf = mine
          BY <5>1, <5>2, <5>3, <5>4 DEF Copying
        <5>5. CASE c.buf # mine
          BY <5>1, <5>2, <5>3, <5>5
        <5>6. QED
          BY <5>4, <5>5
      <4>2. QED
        BY <4>1
    <3>2. DOMAIN out' = 1..Len(out) /\ Len(out) \in Nat
      BY <1>1, <1>2
    <3>3. out' \in [1..Len(out) -> Copying]
      BY <1>1, <1>2, <3>1, <3>2
    <3>4. out' \in Seq(Copying) /\ Len(out') = Len(out)
      BY <3>2, <3>3
    <3>5. QED
      BY <3>1, <3>4
  <2>3. RaType'
    BY <1>1, <1>2, <2>2
       DEF RaInv, RaType, SlotsType, AgeType, WorkerType, HostType, worker, buffers
  <2>4. JobsInv'
    BY <1>1, SameJobs DEF RaInv, worker, buffers
  <2>5. OutInv'
    <3>1. ASSUME NEW j \in 1..Len(out) PROVE Guarded(out[j])'
      <4>1. Guarded(out[j])
        BY DEF RaInv, OutInv
      <4>2. QED
        BY <1>1, <1>2, <2>2, <4>1 DEF Guarded, worker, buffers
    <3>2. QED
      BY <2>2, <3>1 DEF OutInv
  <2>6. WorkInv' /\ MineInv' /\ StopInv' /\ ReadyIsRead' /\ OneBufferPerExpert'
    BY <1>1, <1>2 DEF RaInv, WorkInv, InBatch, MineInv, StopInv, ReadyIsRead,
                      OneBufferPerExpert, worker, buffers
  <2>7. QED
    BY <2>3, <2>4, <2>5, <2>6 DEF RaInv
<1>3. CASE TakeDone /\ UNCHANGED out
  <2>1. RaType'
    BY <1>1, <1>3
       DEF RaInv, RaType, SlotsType, AgeType, WorkerType, HostType, worker, buffers, TakeDone
  <2>2. MineInv' /\ StopInv'
    BY <1>1, <1>3 DEF RaInv, MineInv, StopInv, worker, TakeDone
  <2>3. QED
    BY <1>1, <1>3, <2>1, <2>2, HostMoves DEF TakeDone, worker
<1>4. QED
  BY <1>2, <1>3 DEF Record

LEMMA ReleaseKeeps ==
  ASSUME RaInv, Release
  PROVE  RaInv'
<1>1. /\ hpc = "release" /\ mine \in RaBuffer /\ state[mine] = "taken" /\ freePending[mine]
      /\ UNCHANGED <<key, seq, nseq, freePending, bytes, queue, raStop, worker, out>>
      /\ hpc' = "idle" /\ raWant' = RaNil /\ mine' = RaNil
  BY DEF Release, TakeDone, RaInv, MineInv
<1>2. /\ state' = [state EXCEPT ![mine] = "free"]
      /\ \A b \in RaBuffer : b # mine => state'[b] = state[b]
      /\ state'[mine] = "free"
  BY <1>1 DEF Release, RaInv, RaType, SlotsType
<1>3. RaType'
  BY <1>1, <1>2 DEF RaInv, RaType, SlotsType, AgeType, WorkerType, HostType, worker
<1>4. JobsInv'
  BY <1>1, <1>2, SameJobs DEF RaInv, worker
<1>5. OutInv'
  BY <1>1, <1>2, OutBuffer DEF RaInv, OutInv, Guarded, worker
<1>6. WorkInv' /\ MineInv' /\ StopInv' /\ ReadyIsRead' /\ OneBufferPerExpert'
  BY <1>1, <1>2 DEF RaInv, WorkInv, InBatch, MineInv, StopInv, ReadyIsRead,
                    OneBufferPerExpert, worker
<1>7. QED
  BY <1>3, <1>4, <1>5, <1>6 DEF RaInv

(* The worker is gone: nothing is queued and nothing is in a batch.        *)
LEMMA JoinKeeps ==
  ASSUME RaInv, RaJoin
  PROVE  RaInv'
<1>1. /\ raWpc = "gone" /\ out = <<>> /\ hpc' = "quit"
      /\ state' = [b \in RaBuffer |-> "free"] /\ key' = [b \in RaBuffer |-> RaNil]
      /\ freePending' = [b \in RaBuffer |-> FALSE]
      /\ bytes' = [b \in RaBuffer |-> RaNil]
      /\ UNCHANGED <<seq, nseq, queue, raStop, worker, raWant, mine, out>>
  BY DEF RaJoin
<1>2. batch = <<>> /\ queue = <<>>
  BY <1>1 DEF RaInv, JobsInv, StopInv
<1>3. issued = {} /\ ok = {}
  BY <1>2 DEF RaInv, WorkInv, InBatch
<1>4. RaType'
  BY <1>1 DEF RaInv, RaType, SlotsType, AgeType, WorkerType, HostType, worker
<1>5. JobsInv'
  BY <1>1, <1>2 DEF JobsInv, InBatch, InQueue, worker
<1>6. OutInv' /\ WorkInv' /\ MineInv' /\ StopInv' /\ ReadyIsRead' /\ OneBufferPerExpert'
  BY <1>1, <1>2, <1>3 DEF RaInv, OutInv, WorkInv, MineInv, StopInv, ReadyIsRead,
                          OneBufferPerExpert, worker
<1>7. QED
  BY <1>4, <1>5, <1>6 DEF RaInv

(* ------------------------------ The device ------------------------------ *)
LEMMA CopiedKeeps ==
  ASSUME RaInv, RaCopied
  PROVE  RaInv'
<1>1. /\ out \in Seq(Copying) /\ out # <<>> /\ out' = Tail(out)
      /\ UNCHANGED <<buffers, bytes, queue, raStop, worker, host>>
  BY DEF RaCopied, RaInv, RaType, HostType
<1>2. /\ out' \in Seq(Copying) /\ Len(out') = Len(out) - 1 /\ Len(out) \in Nat
      /\ \A j \in 1..Len(out') : out'[j] = out[j + 1] /\ j + 1 \in 1..Len(out)
  BY <1>1, HeadTailProperties
<1>3. RaType'
  BY <1>1, <1>2 DEF RaInv, RaType, SlotsType, AgeType, WorkerType, HostType, worker, buffers, host
<1>4. JobsInv'
  BY <1>1, SameJobs DEF RaInv, worker, buffers
<1>5. OutInv'
  BY <1>1, <1>2 DEF RaInv, OutInv, Guarded, worker, buffers, host
<1>6. WorkInv' /\ MineInv' /\ StopInv' /\ ReadyIsRead' /\ OneBufferPerExpert'
  BY <1>1 DEF RaInv, WorkInv, InBatch, MineInv, StopInv, ReadyIsRead, OneBufferPerExpert,
              worker, buffers, host
<1>7. QED
  BY <1>3, <1>4, <1>5, <1>6 DEF RaInv

-----------------------------------------------------------------------------
(* No buffer is in use at the start.                                       *)
LEMMA RaStarts == RaInit => RaInv
<1> SUFFICES ASSUME RaInit PROVE RaInv
  OBVIOUS
<1>1. RaType
  <2>1. /\ RaDepth \in Nat \ {0} /\ MaxOffers \in Nat
        /\ 1 \in 1..RaDepth + 1 /\ 0 \in 0..MaxOffers
    BY ReadaheadAssumption
  <2>2. SlotsType /\ HostType
    BY DEF RaInit, SlotsType, HostType
  <2>3. AgeType
    BY <2>1 DEF RaInit, AgeType
  <2>4. WorkerType
    BY <2>1 DEF RaInit, WorkerType
  <2>5. QED
    BY <2>2, <2>3, <2>4 DEF RaType
<1>2. JobsInv /\ OutInv /\ WorkInv /\ MineInv /\ StopInv
  BY DEF RaInit, JobsInv, InBatch, InQueue, OutInv, WorkInv, MineInv, StopInv
<1>3. ReadyIsRead /\ OneBufferPerExpert
  BY DEF RaInit, ReadyIsRead, OneBufferPerExpert
<1>4. QED
  BY <1>1, <1>2, <1>3 DEF RaInv

(* Every step of the worker, the host and the copy stream.                 *)
LEMMA RaKept == RaInv /\ [RaNext]_raVars => RaInv'
<1> SUFFICES ASSUME RaInv, [RaNext]_raVars PROVE RaInv'
  OBVIOUS
<1>1. CASE UNCHANGED raVars
  <2>1. UNCHANGED <<state, key, seq, nseq, freePending, bytes, queue, raStop, raWpc, batch,
                    jobAt, issued, ok, hpc, raWant, mine, out>>
    BY <1>1 DEF raVars, buffers, worker, host
  <2>2. RaType' /\ JobsInv' /\ WorkInv'
    BY <2>1 DEF RaInv, RaType, SlotsType, AgeType, WorkerType, HostType, JobsInv, InBatch,
                InQueue, WorkInv
  <2>3. OutInv' /\ MineInv' /\ StopInv' /\ ReadyIsRead' /\ OneBufferPerExpert'
    BY <2>1 DEF RaInv, OutInv, Guarded, MineInv, StopInv, ReadyIsRead, OneBufferPerExpert
  <2>4. QED
    BY <2>2, <2>3 DEF RaInv
<1>2. CASE Start \/ Quit \/ Timeout \/ RaSpurious \/ (\E e \in RaExpert : Take(e))
  BY <1>2, HostTurns
<1>3. CASE \E e \in RaExpert : Offer(e)
  BY <1>3, OfferKeeps
<1>4. CASE HostStep
  BY <1>4, LookKeeps, CopyOutKeeps, RecordKeeps, ReleaseKeeps, JoinKeeps DEF HostStep
<1>5. CASE WorkerStep
  BY <1>5, TakeBatchKeeps, IssueReadKeeps, IssueFailsKeeps, AllIssuedKeeps, AwaitReadKeeps,
     PublishKeeps DEF WorkerStep
<1>6. CASE ResolveFails \/ RaCopied
  BY <1>6, ResolveFailsKeeps, CopiedKeeps
<1>7. QED
  BY <1>1, <1>2, <1>3, <1>4, <1>5, <1>6 DEF RaNext

LEMMA RaAlways == RaSpec => []RaInv
BY RaStarts, RaKept, PTL DEF RaSpec

(* Distinct buffers queue at most RaDepth long.                            *)
LEMMA QueueIsShort ==
  ASSUME RaInv
  PROVE  Len(queue) <= RaDepth
<1>1. queue \in Seq(RaBuffer) /\ Len(queue) \in Nat /\ RaDepth \in Nat \ {0}
  BY ReadaheadAssumption DEF RaInv, RaType, WorkerType
<1>2. queue \in Injection(1..Len(queue), RaBuffer)
  BY <1>1 DEF RaInv, JobsInv, Injection, IsInjective
<1>3. IsFiniteSet(RaBuffer) /\ Cardinality(RaBuffer) = RaDepth
  BY <1>1, FS_Interval DEF RaBuffer
<1>4. Cardinality(1..Len(queue)) = Len(queue)
  <2>1. PICK n \in Nat : n = Len(queue)
    BY <1>1
  <2>2. Cardinality(1..n) = n
    BY FS_Interval
  <2>3. QED
    BY <2>1, <2>2
<1>5. QED
  BY <1>2, <1>3, <1>4, FS_Injection

(* The bound on the queue completes the type.                              *)
LEMMA ReadaheadIsTyped == RaInv => RaTypeOK
BY QueueIsShort DEF RaInv, RaType, SlotsType, AgeType, WorkerType, HostType, WorkInv,
                    RaTypeOK, Copying

(* RaTypeOK: every variable of the readahead has its type; the queue holds *)
(* no more jobs than there are buffers, whatever is offered.               *)
THEOREM ReadaheadTypeCorrect == RaSpec => []RaTypeOK
<1>1. QED
  BY ReadaheadIsTyped, RaAlways, PTL

(* The places of a list behind another.                                    *)
LEMMA BehindIt ==
  ASSUME NEW a \in Nat, NEW b \in Nat
  PROVE  /\ \A j \in 1..a + b :
              /\ j \in Int
              /\ \/ j \in 1..a /\ j <= a
                 \/ j \notin 1..a /\ ~ (j <= a) /\ j - a \in 1..b
         /\ \A j \in 1..a : j \in 1..a + b /\ j <= a
         /\ \A j \in 1..b : a + j \in 1..a + b /\ ~ (a + j <= a) /\ (a + j) - a = j
<1>1. \A j \in 1..a + b :
        /\ j \in Int
        /\ \/ j \in 1..a /\ j <= a
           \/ j \notin 1..a /\ ~ (j <= a) /\ j - a \in 1..b
  <2> SUFFICES ASSUME NEW j \in 1..a + b
               PROVE  /\ j \in Int
                      /\ \/ j \in 1..a /\ j <= a
                         \/ j \notin 1..a /\ ~ (j <= a) /\ j - a \in 1..b
    OBVIOUS
  <2>1. j \in Int /\ 1 <= j /\ j <= a + b
    OBVIOUS
  <2>2. CASE j <= a
    BY <2>1, <2>2
  <2>3. CASE ~ (j <= a)
    BY <2>1, <2>3
  <2>4. QED
    BY <2>2, <2>3
<1>2. \A j \in 1..a : j \in 1..a + b /\ j <= a
  OBVIOUS
<1>3. \A j \in 1..b : a + j \in 1..a + b /\ ~ (a + j <= a) /\ (a + j) - a = j
  OBVIOUS
<1>4. QED
  BY <1>1, <1>2, <1>3

(* One job stands for each buffer being filled, in the batch or behind it. *)
LEMMA OneJob ==
  ASSUME RaInv
  PROVE  OneJobPerFilling
<1> DEFINE jobs == batch \o queue
<1>1. /\ batch \in Seq(RaBuffer) /\ queue \in Seq(RaBuffer)
      /\ Len(batch) \in Nat /\ Len(queue) \in Nat
  BY DEF RaInv, RaType, WorkerType
<1>2. /\ jobs \in Seq(RaBuffer) /\ Len(jobs) = Len(batch) + Len(queue)
      /\ \A j \in 1..Len(batch) + Len(queue) :
           jobs[j] = IF j <= Len(batch) THEN batch[j] ELSE queue[j - Len(batch)]
  BY <1>1, ConcatProperties
<1>3. DOMAIN jobs = 1..Len(batch) + Len(queue)
  BY <1>2
<1> HIDE DEF jobs
<1>4. \A j \in DOMAIN jobs :
        \/ j \in 1..Len(batch) /\ jobs[j] = batch[j]
        \/ /\ j \notin 1..Len(batch) /\ j - Len(batch) \in 1..Len(queue)
           /\ jobs[j] = queue[j - Len(batch)] /\ j \in Int
  BY <1>1, <1>2, <1>3, BehindIt
<1>5. \A j \in 1..Len(batch) : j \in DOMAIN jobs /\ jobs[j] = batch[j]
  BY <1>1, <1>2, <1>3, BehindIt
<1>6. \A j \in 1..Len(queue) : /\ Len(batch) + j \in DOMAIN jobs
                               /\ jobs[Len(batch) + j] = queue[j]
  <2>1. PICK a \in Nat, b \in Nat : a = Len(batch) /\ b = Len(queue)
    BY <1>1
  <2>2. \A j \in 1..b : a + j \in 1..a + b /\ ~ (a + j <= a) /\ (a + j) - a = j
    BY BehindIt
  <2>3. \A j \in 1..a + b : jobs[j] = IF j <= a THEN batch[j] ELSE queue[j - a]
    BY <1>2, <2>1
  <2>4. \A j \in 1..b : jobs[a + j] = queue[j]
    <3> SUFFICES ASSUME NEW j \in 1..b PROVE jobs[a + j] = queue[j]
      OBVIOUS
    <3>1. PICK n : n = a + j
      OBVIOUS
    <3>2. n \in 1..a + b /\ ~ (n <= a) /\ n - a = j
      BY <2>2, <3>1
    <3>3. QED
      BY <2>3, <3>1, <3>2
  <2>5. QED
    BY <1>3, <2>1, <2>2, <2>4
<1>7. \A j, k \in DOMAIN jobs : jobs[j] = jobs[k] => j = k
  <2>1. \A j \in 1..Len(batch), k \in 1..Len(queue) : batch[j] # queue[k]
    BY <1>1 DEF RaInv, JobsInv, InBatch, InQueue
  <2>2. QED
    BY <1>1, <1>4, <2>1 DEF RaInv, JobsInv
<1>8. \A b : b \in SetOf(jobs) <=> InBatch(b) \/ InQueue(b)
  <2>1. \A b : b \in SetOf(jobs) <=> \E j \in DOMAIN jobs : jobs[j] = b
    BY DEF SetOf
  <2>2. \A b : InBatch(b) \/ InQueue(b) => b \in SetOf(jobs)
    BY <1>5, <1>6, <2>1 DEF InBatch, InQueue
  <2>3. \A b : b \in SetOf(jobs) => InBatch(b) \/ InQueue(b)
    BY <1>4, <2>1 DEF InBatch, InQueue
  <2>4. QED
    BY <2>2, <2>3
<1>9. \A b : InBatch(b) \/ InQueue(b) => b \in RaBuffer
  BY <1>1 DEF InBatch, InQueue
<1>10. SetOf(jobs) = {b \in RaBuffer : state[b] = "filling"}
  BY <1>8, <1>9 DEF RaInv, JobsInv
<1>11. QED
  BY <1>7, <1>10 DEF OneJobPerFilling, jobs

(* BuffersAreOwned: for any number of buffers and any interleaving of the  *)
(* host, the worker, the copy stream, time limits and short reads, a copy  *)
(* out finds its expert's bytes, a buffer offered to the demand path holds *)
(* what it names, one job fills a buffer and one buffer an expert.         *)
THEOREM ReadaheadOwnsItsBuffers == RaSpec => []BuffersAreOwned
<1>1. RaInv => CopiesReadTheirExpert
  BY DEF RaInv, RaType, HostType, OutInv, Guarded, CopiesReadTheirExpert
<1>2. RaInv => BuffersAreOwned
  BY <1>1, OneJob DEF RaInv, BuffersAreOwned
<1>3. QED
  BY <1>2, RaAlways, PTL

-----------------------------------------------------------------------------
(* The four parts of a process.                                            *)

IoInv == SlabInv /\ StagingInv /\ RaInv /\ PoolInv /\ WaveType

(* A step of the process is a step of one part, and no other changes.      *)
LEMMA IoSteps ==
  ASSUME [IoNext]_ioVars
  PROVE  /\ [SlabNext]_slabVars /\ [StagingNext]_stagingVars
         /\ [RaNext]_raVars /\ [WaveNext]_waveVars
BY DEF IoNext, ioVars, SlabRuns, StagingRuns, RaRuns, WaveRuns

LEMMA IoKept ==
  ASSUME MaxStarts = 1, IoInv, [IoNext]_ioVars
  PROVE  IoInv'
<1>1. SlabInv'
  BY IoSteps, SlabNextInv DEF IoInv
<1>2. StagingInv'
  BY IoSteps, StagingStep DEF IoInv
<1>3. RaInv'
  BY IoSteps, RaKept DEF IoInv
<1>4. PoolInv' /\ WaveType'
  BY IoSteps, PoolStep, WaveTypeKept DEF IoInv
<1>5. QED
  BY <1>1, <1>2, <1>3, <1>4 DEF IoInv

(* IoTypesOK: every variable of the slab, the staging, the readahead and   *)
(* the lanes has its type in every state of a process that starts its pool *)
(* of lanes once, and the counters of the pool stay in their bounds        *)
(* (sabah_rt.cu: the slab, the fills, the offers and the waves of reads).   *)
THEOREM IoTypeCorrect ==
  ASSUME MaxStarts = 1
  PROVE  IoSpec => []IoTypesOK
<1>1. IoInit => IoInv
  BY SlabInitInv, StagingStarts, RaStarts, PoolInit, WaveTypeStarts DEF IoInit, IoInv
<1>2. IoInv /\ [IoNext]_ioVars => IoInv'
  BY IoKept
<1>3. IoInv => IoTypesOK
  <2>1. ASSUME IoInv
        PROVE  IoTypesOK
    <3>1. SlabTypeOK
      BY <2>1 DEF IoInv, SlabInv, Sound, Lies, SlabTypeOK
    <3>2. StagingTypeOK /\ RaTypeOK
      BY <2>1, ReadaheadIsTyped DEF IoInv, StagingInv
    <3>3. WaveTypeOK
      BY <2>1, WaveIsTyped DEF IoInv
    <3>4. QED
      BY <3>1, <3>2, <3>3 DEF IoTypesOK
  <2>2. QED
    BY <2>1
<1>4. QED
  BY <1>1, <1>2, <1>3, PTL DEF IoSpec
=============================================================================
