--------------------------- MODULE WavePoolProofs ---------------------------
(***************************************************************************)
(* Proofs about WavePool, for every number of lanes, of requests and of    *)
(* waves, while the pool has been started at most once.                    *)
(***************************************************************************)
EXTENDS WavePool, FiniteSetTheorems, TLAPS

(* The part of the state the argument is about, with its types.            *)
PoolType ==
  /\ caller \in {"idle", "inline", "publish", "notify", "await", "asleep",
                 "stopping", "join"}
  /\ wave \in Nat /\ gen \in Nat /\ done \in Nat /\ starts \in Nat
  /\ started \in BOOLEAN /\ stop \in BOOLEAN
  /\ wpc \in [Worker -> {"gone", "check", "asleep", "read", "finish"}]
  /\ seen \in [Worker -> Nat] /\ held \in [Worker -> Nat]

InWave == caller \in {"notify", "await", "asleep"}

Busy(i) == wpc[i] \in {"read", "finish"}

(* The workers that have been through the current wave.                    *)
Through == {i \in Worker : seen[i] = gen /\ ~Busy(i)}

(* Who is busy is busy with the wave of the caller.                        *)
BusyInv == \A i \in Worker : Busy(i) => InWave /\ held[i] = wave /\ seen[i] = gen

(* The counter of the wave on the caller's stack counts exactly the        *)
(* workers that will not touch it again.                                   *)
CountInv == InWave => wave = gen /\ gen > 0 /\ done = Cardinality(Through)

(* Between waves every worker has seen the last generation, so that none   *)
(* can take a wave that is over.                                           *)
RestInv == ~InWave => \A i \in Worker : seen[i] = gen

(* No wave without a started pool.                                         *)
StartInv ==
  /\ started \/ caller \in {"publish", "notify", "await", "asleep"} => starts > 0
  /\ starts = 0 => gen = 0

PoolInv == PoolType /\ BusyInv /\ CountInv /\ RestInv /\ StartInv

(* There are as many workers as lanes, and any set of them can be counted. *)
LEMMA Workers ==
  /\ IsFiniteSet(Worker) /\ Cardinality(Worker) = Lanes
  /\ \A S \in SUBSET Worker : /\ IsFiniteSet(S)
                              /\ Cardinality(S) \in Nat
                              /\ Cardinality(S) <= Lanes
                              /\ Cardinality(S) = Lanes => S = Worker
<1>1. Lanes \in Nat \ {0} /\ 0 \in Int /\ Lanes - 1 \in Int
  BY WavePoolAssumption
<1>2. IsFiniteSet(Worker) /\ Cardinality(Worker) = Lanes
  BY <1>1, FS_Interval DEF Worker
<1>3. QED
  BY <1>2, FS_Subset, FS_CardinalityType

(* A worker that neither enters nor leaves a wave changes no count.        *)
LEMMA ThroughSame ==
  ASSUME gen' = gen, seen' = seen, \A i \in Worker : Busy(i)' <=> Busy(i)
  PROVE  Through' = Through
BY DEF Through

(* The pool before its first start.                                        *)
LEMMA PoolInit == WaveInit => PoolInv
<1> SUFFICES ASSUME WaveInit PROVE PoolInv
  OBVIOUS
<1>1. PoolType
  BY DEF WaveInit, PoolType
<1>2. ~InWave /\ \A i \in Worker : ~Busy(i) /\ seen[i] = gen
  BY DEF WaveInit, InWave, Busy
<1>3. StartInv
  BY DEF WaveInit, StartInv
<1>4. QED
  BY <1>1, <1>2, <1>3 DEF PoolInv, BusyInv, CountInv, RestInv

(* Every step keeps the invariant of the pool.                             *)
LEMMA PoolStep ==
  ASSUME MaxStarts = 1, PoolInv, [WaveNext]_waveVars
  PROVE  PoolInv'
<1> USE DEF PoolInv
<1>1. ASSUME NEW n \in 1..MaxReqs, ReadWave(n)
      PROVE  PoolInv'
  <2>1. ~InWave /\ ~InWave' /\ (\A i \in Worker : ~Busy(i) /\ seen[i] = gen)
    BY <1>1 DEF ReadWave, InWave, BusyInv, RestInv
  <2>2. CASE n = 1 \/ started
    BY <1>1, <2>1, <2>2 DEF ReadWave, PoolType, BusyInv, CountInv, RestInv, StartInv,
       InWave, Busy, workers
  <2>3. CASE ~(n = 1 \/ started)
    <3>1. starts = 0 /\ gen = 0 /\ gen' = 0 /\ starts' = 1
      BY <1>1, <2>3 DEF ReadWave, PoolType, StartInv
    <3>2. wpc' = [i \in Worker |-> "check"] /\ seen' = [i \in Worker |-> 0]
      BY <1>1, <2>3 DEF ReadWave
    <3>3. PoolType'
      BY <1>1, <2>3, <3>1, <3>2 DEF ReadWave, PoolType
    <3>4. QED
      BY <2>1, <3>1, <3>2, <3>3 DEF BusyInv, CountInv, RestInv, StartInv, Busy
  <2>4. QED
    BY <2>2, <2>3
<1>2. CASE Stop
  BY <1>2 DEF Stop, PoolType, BusyInv, CountInv, RestInv, StartInv, InWave, Busy, workers
<1>3. CASE ReadInline
  BY <1>3 DEF ReadInline, PoolType, BusyInv, CountInv, RestInv, StartInv, InWave, Busy,
     workers, wavePool
<1>4. CASE Publish
  <2>1. \A i \in Worker : ~Busy(i) /\ ~Busy(i)' /\ seen'[i] = gen
    BY <1>4 DEF Publish, BusyInv, RestInv, InWave, Busy, workers
  <2>2. gen' = gen + 1 /\ wave' = gen + 1 /\ done' = 0 /\ gen \in Nat
    BY <1>4 DEF Publish, PoolType
  <2>3. Through' = {}
    BY <2>1, <2>2 DEF Through
  <2>4. PoolType'
    BY <1>4, <2>2 DEF Publish, PoolType, workers
  <2>5. CountInv' /\ RestInv'
    BY <1>4, <2>2, <2>3, FS_EmptySet DEF Publish, CountInv, RestInv, InWave
  <2>6. starts' > 0
    BY <1>4 DEF Publish, StartInv
  <2>7. QED
    BY <2>1, <2>4, <2>5, <2>6 DEF BusyInv, StartInv
<1>5. CASE Notify
  <2>1. \A i \in Worker : Busy(i)' <=> Busy(i)
    BY <1>5 DEF Notify, Woken, Busy, PoolType
  <2>2. Through' = Through
    BY <1>5, <2>1, ThroughSame DEF Notify, wavePool
  <2>3. PoolType'
    BY <1>5 DEF Notify, Woken, PoolType, wavePool
  <2>4. QED
    BY <1>5, <2>1, <2>2, <2>3 DEF Notify, BusyInv, CountInv, RestInv, StartInv, InWave, wavePool
<1>6. CASE Await
  <2>1. \A i \in Worker : Busy(i)' <=> Busy(i)
    BY <1>6 DEF Await, Busy, workers
  <2>2. Through' = Through
    BY <1>6, <2>1, ThroughSame DEF Await, workers
  <2>3. PoolType'
    BY <1>6 DEF Await, PoolType, workers
  <2>4. StartInv'
    BY <1>6 DEF Await, StartInv
  <2>5. InWave
    BY <1>6 DEF Await, InWave
  <2>6. CASE BarrierMet
    <3>1. Through \in SUBSET Worker
      BY DEF Through
    <3>2. Cardinality(Through) >= Lanes
      BY <2>5, <2>6 DEF CountInv, BarrierMet
    <3>3. Through = Worker
      BY <3>1, <3>2, Workers, WavePoolAssumption
    <3>4. \A i \in Worker : ~Busy(i)' /\ seen'[i] = gen'
      BY <1>6, <2>1, <3>3 DEF Await, Through, workers
    <3>5. ~InWave'
      BY <1>6, <2>6 DEF Await, InWave
    <3>6. QED
      BY <2>3, <2>4, <3>4, <3>5 DEF BusyInv, CountInv, RestInv
  <2>7. CASE ~BarrierMet
    BY <1>6, <2>1, <2>2, <2>3, <2>4, <2>5, <2>7
    DEF Await, BusyInv, CountInv, RestInv, InWave, workers
  <2>8. QED
    BY <2>6, <2>7
<1>7. CASE StopNotify
  <2>1. \A i \in Worker : Busy(i)' <=> Busy(i)
    BY <1>7 DEF StopNotify, Woken, Busy, PoolType
  <2>2. PoolType'
    BY <1>7 DEF StopNotify, Woken, PoolType, wavePool
  <2>3. QED
    BY <1>7, <2>1, <2>2 DEF StopNotify, BusyInv, CountInv, RestInv, StartInv, InWave, wavePool
<1>8. CASE Join
  BY <1>8 DEF Join, PoolType, BusyInv, CountInv, RestInv, StartInv, InWave, Busy, workers
<1>9. ASSUME NEW i \in Worker, Check(i)
      PROVE  PoolInv'
  <2>1. PoolType'
    BY <1>9 DEF Check, PoolType, wavePool
  <2>2. UNCHANGED <<caller, wave, gen, done, started, starts>>
    BY <1>9 DEF Check, wavePool
  <2>3. CASE stop \/ ~HasWork(i)
    <3>1. seen' = seen /\ held' = held
      BY <1>9, <2>3 DEF Check
    <3>2. \A j \in Worker : Busy(j)' <=> Busy(j)
      BY <1>9, <2>3 DEF Check, Busy, PoolType
    <3>3. Through' = Through
      BY <2>2, <3>1, <3>2, ThroughSame
    <3>4. QED
      BY <2>1, <2>2, <3>1, <3>2, <3>3 DEF BusyInv, CountInv, RestInv, StartInv, InWave
  <2>4. CASE ~stop /\ HasWork(i)
    <3>1. seen[i] # gen /\ InWave
      BY <2>4 DEF HasWork, RestInv
    <3>2. /\ seen' = [seen EXCEPT ![i] = gen] /\ held' = [held EXCEPT ![i] = wave]
          /\ wpc' = [wpc EXCEPT ![i] = "read"]
      BY <1>9, <2>4 DEF Check
    <3>3. i \notin Through /\ i \notin Through'
      BY <2>1, <2>2, <3>1, <3>2 DEF Through, Busy, PoolType
    <3>4. \A j \in Worker \ {i} : /\ Busy(j)' <=> Busy(j)
                                  /\ seen'[j] = seen[j] /\ held'[j] = held[j]
      BY <3>2 DEF Busy, PoolType
    <3>5. Through' = Through
      BY <2>2, <3>3, <3>4 DEF Through
    <3>6. BusyInv'
      BY <2>2, <3>1, <3>2, <3>4 DEF BusyInv, PoolType, InWave
    <3>7. QED
      BY <2>1, <2>2, <3>1, <3>5, <3>6 DEF CountInv, RestInv, StartInv, InWave
  <2>5. QED
    BY <2>3, <2>4
<1>10. ASSUME NEW i \in Worker, ReadLane(i)
       PROVE  PoolInv'
  <2>1. PoolType'
    BY <1>10 DEF ReadLane, PoolType, wavePool
  <2>2. UNCHANGED <<caller, wave, gen, done, started, starts, seen, held>>
    BY <1>10 DEF ReadLane, wavePool
  <2>3. \A j \in Worker : Busy(j)' <=> Busy(j)
    BY <1>10 DEF ReadLane, Busy, PoolType
  <2>4. Through' = Through
    BY <2>2, <2>3, ThroughSame
  <2>5. QED
    BY <2>1, <2>2, <2>3, <2>4 DEF BusyInv, CountInv, RestInv, StartInv, InWave
<1>11. ASSUME NEW i \in Worker, Finish(i)
       PROVE  PoolInv'
  <2>1. Busy(i) /\ InWave /\ seen[i] = gen
    BY <1>11 DEF Finish, Busy, BusyInv
  <2>2. UNCHANGED <<wave, gen, started, starts, seen, held>>
    BY <1>11 DEF Finish
  <2>3. wpc' = [wpc EXCEPT ![i] = "check"] /\ done' = done + 1
    BY <1>11 DEF Finish
  <2>4. InWave'
    BY <1>11, <2>1 DEF Finish, InWave
  <2>5. PoolType'
    BY <1>11, <2>2, <2>3 DEF Finish, PoolType
  <2>6. /\ ~Busy(i)'
        /\ \A j \in Worker \ {i} : Busy(j)' <=> Busy(j)
    BY <2>3 DEF Busy, PoolType
  <2>7. Through' = Through \cup {i} /\ i \notin Through
    BY <2>1, <2>2, <2>6 DEF Through
  <2>8. Through \in SUBSET Worker
    BY DEF Through
  <2>9. Cardinality(Through') = Cardinality(Through) + 1
    BY <2>7, <2>8, Workers, FS_AddElement
  <2>10. CountInv'
    BY <2>1, <2>2, <2>3, <2>9 DEF CountInv
  <2>11. BusyInv'
    BY <2>2, <2>4, <2>6 DEF BusyInv
  <2>12. StartInv'
    BY <2>1, <2>2, <2>4 DEF StartInv, InWave
  <2>13. QED
    BY <2>4, <2>5, <2>10, <2>11, <2>12 DEF RestInv
<1>12. ASSUME NEW i \in Worker, Spurious(i)
       PROVE  PoolInv'
  <2>1. PoolType'
    BY <1>12 DEF Spurious, PoolType, wavePool
  <2>2. UNCHANGED <<caller, wave, gen, done, started, starts, seen, held>>
    BY <1>12 DEF Spurious, wavePool
  <2>3. \A j \in Worker : Busy(j)' <=> Busy(j)
    BY <1>12 DEF Spurious, Busy, PoolType
  <2>4. Through' = Through
    BY <2>2, <2>3, ThroughSame
  <2>5. QED
    BY <2>1, <2>2, <2>3, <2>4 DEF BusyInv, CountInv, RestInv, StartInv, InWave
<1>13. CASE UNCHANGED waveVars
  <2>1. \A j \in Worker : Busy(j)' <=> Busy(j)
    BY <1>13 DEF waveVars, workers, Busy
  <2>2. Through' = Through
    BY <1>13, <2>1, ThroughSame DEF waveVars, wavePool, workers
  <2>3. QED
    BY <1>13, <2>1, <2>2 DEF waveVars, wavePool, workers, PoolType, BusyInv, CountInv, RestInv,
       StartInv, InWave
<1>14. QED
  BY <1>1, <1>2, <1>3, <1>4, <1>5, <1>6, <1>7, <1>8, <1>9, <1>10, <1>11, <1>12, <1>13
  DEF WaveNext, WaveHost, Lane

(* The wave a worker reads from and counts itself out of is on the         *)
(* caller's stack until the worker is through with it, for any number of   *)
(* lanes, in a pool that is started once.                                  *)
THEOREM WaveOutlivesItsReaders ==
  ASSUME MaxStarts = 1
  PROVE  WaveSpec => []WaveIsAlive
<1>1. PoolInv => WaveIsAlive
  BY DEF PoolInv, BusyInv, CountInv, WaveIsAlive, InWave, Busy
<1>2. QED
  BY <1>1, PoolInit, PoolStep, PTL DEF WaveSpec

(* While the host reads a wave of one on lane 0, no worker reads.          *)
THEOREM LanesAreNotShared ==
  ASSUME MaxStarts = 1
  PROVE  WaveSpec => []LaneHasOneUser
<1>1. PoolInv => LaneHasOneUser
  BY DEF PoolInv, BusyInv, LaneHasOneUser, InWave, Busy
<1>2. QED
  BY <1>1, PoolInit, PoolStep, PTL DEF WaveSpec

-----------------------------------------------------------------------------
(* The bounded counters and the requests, beside the pool's own types.     *)
RequestType == \E n \in 0..MaxReqs : result \in [1..n -> {"none", "ok", "failed"}]

WaveType ==
  /\ RequestType
  /\ next \in 1..MaxReqs + 1
  /\ waves \in 0..MaxWaves /\ gen <= IF caller = "publish" THEN waves - 1 ELSE waves
  /\ wave <= gen /\ done <= Lanes
  /\ \A i \in Worker : seen[i] <= gen /\ held[i] <= gen
  /\ at \in [Worker -> 0..MaxReqs + Lanes]

(* An answer keeps the requests what they are.                             *)
LEMMA AnswerKeeps ==
  ASSUME RequestType, NEW j \in DOMAIN result, NEW a \in {"ok", "failed"},
         result' = [result EXCEPT ![j] = a]
  PROVE  RequestType' /\ j \in 1..MaxReqs /\ DOMAIN result' = DOMAIN result
<1>1. PICK n \in 0..MaxReqs : result \in [1..n -> {"none", "ok", "failed"}]
  BY DEF RequestType
<1>2. result' \in [1..n -> {"none", "ok", "failed"}] /\ j \in 1..MaxReqs
  BY <1>1, WavePoolAssumption
<1>3. QED
  BY <1>1, <1>2 DEF RequestType

(* The requests and counters before the first wave.                        *)
LEMMA WaveTypeStarts == WaveInit => WaveType
<1> SUFFICES ASSUME WaveInit PROVE WaveType
  OBVIOUS
<1>1. result \in [1..0 -> {"none", "ok", "failed"}] /\ 0 \in 0..MaxReqs
  BY WavePoolAssumption DEF WaveInit
<1>2. RequestType
  BY <1>1 DEF RequestType
<1>3. at \in [Worker -> 0..MaxReqs + Lanes]
  BY WavePoolAssumption DEF WaveInit
<1>4. QED
  BY <1>2, <1>3, WavePoolAssumption DEF WaveInit, WaveType

(* Every step keeps them in their bounds.                                  *)
LEMMA WaveTypeKept ==
  ASSUME MaxStarts = 1, PoolInv, WaveType, [WaveNext]_waveVars
  PROVE  WaveType'
<1>b. MaxReqs \in Nat \ {0} /\ MaxWaves \in Nat /\ Lanes \in Nat \ {0}
  BY WavePoolAssumption
<1>t. PoolType
  BY DEF PoolInv
<1>p. PoolInv'
  BY PoolStep
<1>1. CASE UNCHANGED waveVars
  BY <1>1 DEF waveVars, wavePool, workers, WaveType, RequestType
<1>2. ASSUME NEW n \in 1..MaxReqs, ReadWave(n)
      PROVE  WaveType'
  <2>1. RequestType'
    <3>1. result' \in [1..n -> {"none", "ok", "failed"}] /\ n \in 0..MaxReqs
      BY <1>2, <1>b DEF ReadWave
    <3>2. QED
      BY <3>1 DEF RequestType
  <2>2. next' \in 1..MaxReqs + 1 /\ waves' \in 0..MaxWaves
    BY <1>2, <1>b DEF ReadWave, WaveType
  <2>3. gen' = gen /\ wave' = wave /\ done' = done /\ held' = held /\ at' = at
        /\ caller' \in {"inline", "publish"} /\ waves' = waves + 1 /\ caller = "idle"
    BY <1>2 DEF ReadWave, workers
  <2>4. \A i \in Worker : seen'[i] = seen[i] \/ seen'[i] = 0
    BY <1>2 DEF ReadWave, workers
  <2>5. gen \in Nat /\ waves \in Nat /\ \A i \in Worker : seen[i] \in Nat
    BY <1>t, <1>b DEF PoolType, WaveType
  <2>6. gen' <= IF caller' = "publish" THEN waves' - 1 ELSE waves'
    BY <2>3, <2>5 DEF WaveType
  <2>7. \A i \in Worker : seen'[i] <= gen' /\ held'[i] <= gen'
    BY <2>3, <2>4, <2>5 DEF WaveType
  <2>8. QED
    BY <2>1, <2>2, <2>3, <2>6, <2>7 DEF WaveType
<1>3. CASE ReadInline
  <2>1. RequestType' /\ next' \in 1..MaxReqs + 1
    <3>1. ASSUME NEW a \in {"ok", "failed"}, next \in DOMAIN result,
                 result' = [result EXCEPT ![next] = a], next' = next + 1
          PROVE  RequestType' /\ next' \in 1..MaxReqs + 1
      <4>1. RequestType' /\ next \in 1..MaxReqs
        BY <3>1, AnswerKeeps DEF WaveType
      <4>2. QED
        BY <3>1, <4>1, <1>b
    <3>2. CASE UNCHANGED <<result, next>>
      BY <3>2 DEF WaveType, RequestType
    <3>3. QED
      BY <1>3, <3>1, <3>2 DEF ReadInline
  <2>2. UNCHANGED <<gen, wave, done, seen, held, at, waves>> /\ caller = "inline" /\ caller' # "publish"
    BY <1>3 DEF ReadInline, wavePool, workers
  <2>3. QED
    BY <2>1, <2>2 DEF WaveType
<1>4. CASE Publish
  <2>1. gen \in Nat /\ waves \in Nat /\ gen <= waves - 1
    BY <1>4, <1>t, <1>b DEF PoolType, WaveType, Publish
  <2>2. gen' = gen + 1 /\ wave' = gen + 1 /\ done' = 0 /\ caller' = "notify"
        /\ UNCHANGED <<result, next, seen, held, at, waves>>
    BY <1>4 DEF Publish, workers
  <2>3. \A i \in Worker : seen'[i] <= gen' /\ held'[i] <= gen'
    BY <2>1, <2>2, <1>t DEF WaveType, PoolType
  <2>4. RequestType' /\ done' <= Lanes
    BY <2>2, <1>b DEF WaveType, RequestType
  <2>5. wave' <= gen' /\ gen' <= waves'
    BY <2>1, <2>2
  <2>6. UNCHANGED <<next, at, waves>> /\ caller' # "publish"
    BY <2>2
  <2>7. QED
    BY <2>3, <2>4, <2>5, <2>6 DEF WaveType
<1>5. CASE Notify \/ StopNotify \/ Stop \/ Join
  <2>1. UNCHANGED <<result, next, gen, wave, done, seen, held, at, waves>>
        /\ caller # "publish" /\ caller' # "publish"
    BY <1>5 DEF Notify, StopNotify, Stop, Join, wavePool, workers
  <2>2. QED
    BY <2>1 DEF WaveType, RequestType
<1>6. CASE Await
  <2>1. UNCHANGED <<result, next, gen, done, seen, held, at, waves>> /\ wave' \in {0, wave}
        /\ caller # "publish" /\ caller' # "publish"
    BY <1>6 DEF Await, workers
  <2>2. gen \in Nat
    BY <1>t DEF PoolType
  <2>3. wave' <= gen'
    BY <2>1, <2>2 DEF WaveType
  <2>4. RequestType'
    BY <2>1 DEF WaveType, RequestType
  <2>5. QED
    BY <2>1, <2>3, <2>4 DEF WaveType
<1>7. ASSUME NEW i \in Worker, Check(i)
      PROVE  WaveType'
  <2>1. UNCHANGED <<caller, result, next, gen, wave, done, waves>>
    BY <1>7 DEF Check, wavePool
  <2>2. i \in 0..Lanes - 1
    BY DEF Worker
  <2>3. i + 1 \in 0..MaxReqs + Lanes
    BY <2>2, <1>b
  <2>4. at' \in [Worker -> 0..MaxReqs + Lanes]
    BY <1>7, <2>3 DEF Check, WaveType
  <2>5. \A k \in Worker : seen'[k] \in {seen[k], gen} /\ held'[k] \in {held[k], wave}
    BY <1>7, <1>t DEF Check, PoolType
  <2>6. gen <= gen /\ wave <= gen
    BY <1>t DEF PoolType, WaveType
  <2>7. \A k \in Worker : seen'[k] <= gen /\ held'[k] <= gen
    BY <2>5, <2>6 DEF WaveType
  <2>8. RequestType'
    BY <2>1 DEF WaveType, RequestType
  <2>9. QED
    BY <2>1, <2>4, <2>7, <2>8 DEF WaveType
<1>8. ASSUME NEW i \in Worker, ReadLane(i)
      PROVE  WaveType'
  <2>1. UNCHANGED <<caller, next, gen, wave, done, seen, held, waves>>
    BY <1>8 DEF ReadLane, wavePool
  <2>2. RequestType' /\ at' \in [Worker -> 0..MaxReqs + Lanes]
    <3>1. ASSUME at[i] \in DOMAIN result, NEW a \in {"ok", "failed"},
                 result' = [result EXCEPT ![at[i]] = a],
                 at' = [at EXCEPT ![i] = @ + Stride]
          PROVE  RequestType' /\ at' \in [Worker -> 0..MaxReqs + Lanes]
      <4>1. PICK j \in DOMAIN result : j = at[i]
        BY <3>1
      <4>2. RequestType' /\ j \in 1..MaxReqs
        BY <3>1, <4>1, AnswerKeeps DEF WaveType
      <4>3. j + Lanes \in 0..MaxReqs + Lanes
        BY <4>2, <1>b
      <4>4. at' \in [Worker -> 0..MaxReqs + Lanes]
        BY <3>1, <4>1, <4>3 DEF Stride, WaveType
      <4>5. QED
        BY <4>2, <4>4
    <3>2. CASE UNCHANGED <<result, at>>
      BY <3>2 DEF WaveType, RequestType
    <3>3. QED
      BY <1>8, <3>1, <3>2 DEF ReadLane
  <2>3. QED
    BY <2>1, <2>2 DEF WaveType
<1>9. ASSUME NEW i \in Worker, Finish(i)
      PROVE  WaveType'
  <2>1. UNCHANGED <<result, next, gen, wave, seen, held, at, waves>>
        /\ (caller' = "publish" <=> caller = "publish")
    BY <1>9 DEF Finish
  <2>2. InWave /\ InWave'
    BY <1>9, <1>t DEF PoolInv, BusyInv, Busy, Finish, InWave
  <2>3. done' <= Lanes
    <3>1. done' = Cardinality(Through')
      BY <1>p, <2>2 DEF PoolInv, CountInv
    <3>2. PICK S \in SUBSET Worker : S = Through'
      BY DEF Through
    <3>3. QED
      BY <3>1, <3>2, Workers
  <2>4. RequestType'
    BY <2>1 DEF WaveType, RequestType
  <2>5. QED
    BY <2>1, <2>3, <2>4 DEF WaveType
<1>10. ASSUME NEW i \in Worker, Spurious(i)
       PROVE  WaveType'
  BY <1>10 DEF Spurious, wavePool, WaveType, RequestType
<1>11. QED
  BY <1>1, <1>2, <1>3, <1>4, <1>5, <1>6, <1>7, <1>8, <1>9, <1>10 DEF WaveNext, WaveHost, Lane

(* Every variable of the pool has its type, its counters in their bounds.  *)
LEMMA WaveIsTyped == PoolInv /\ WaveType => WaveTypeOK
<1> SUFFICES ASSUME PoolInv, WaveType PROVE WaveTypeOK
  OBVIOUS
<1>t. PoolType
  BY DEF PoolInv
<1>1. PICK g \in Nat : g = gen
  BY <1>t DEF PoolType
<1>2. g <= MaxWaves
  <2>1. waves \in Nat /\ waves <= MaxWaves /\ g <= waves
    BY <1>1, WavePoolAssumption DEF WaveType
  <2>2. QED
    BY <2>1, WavePoolAssumption
<1>3. \A x \in Nat : x <= g => x \in 0..MaxWaves
  BY <1>2, WavePoolAssumption
<1>4. \A i \in Worker : seen[i] \in 0..MaxWaves /\ held[i] \in 0..MaxWaves
  BY <1>1, <1>3, <1>t DEF PoolType, WaveType
<1>5. seen \in [Worker -> 0..MaxWaves] /\ held \in [Worker -> 0..MaxWaves]
  BY <1>4, <1>t DEF PoolType
<1>6. wave \in 0..MaxWaves /\ gen \in 0..MaxWaves /\ done \in 0..Lanes
  BY <1>1, <1>3, <1>t, WavePoolAssumption DEF PoolType, WaveType
<1>7. QED
  BY <1>5, <1>6, <1>t DEF PoolType, WaveType, WaveTypeOK, RequestType

-----------------------------------------------------------------------------
(* Request j of a wave is one of worker i's stride.                        *)
Mine(i, j) == (j - 1) % Lanes = i

(* Worker i has yet to read request j of its stride.                       *)
ToRead(i, j) == seen[i] # gen \/ (wpc[i] = "read" /\ at[i] <= j)

(* The state of the wave, with its types.                                  *)
ReadType ==
  /\ \E n \in Nat : result \in [1..n -> {"none", "ok", "failed"}]
  /\ next \in Nat \ {0} /\ at \in [Worker -> Nat]

(* A worker that reads has its cursor on its own stride.                   *)
CursorInv == \A i \in Worker : wpc[i] = "read" => at[i] > 0 /\ Mine(i, at[i])

(* The requests without an answer are those ahead of a cursor: the inline  *)
(* read's, or that of the worker whose stride they are in.                 *)
AnswerInv ==
  /\ caller = "publish" => \A j \in DOMAIN result : result[j] = "none"
  /\ caller = "inline" => \A j \in DOMAIN result : result[j] = "none" <=> next <= j
  /\ InWave => \A i \in Worker, j \in DOMAIN result :
                 Mine(i, j) => (result[j] = "none" <=> ToRead(i, j))

ReadInv == ReadType /\ CursorInv /\ AnswerInv

(* Division, as the strides need it.                                       *)
LEMMA Division ==
  ASSUME NEW d \in Nat \ {0}, NEW a \in Int
  PROVE  a % d \in 0..d - 1 /\ a \div d \in Int /\ a = d * (a \div d) + (a % d)
OBVIOUS

LEMMA Remainder ==
  ASSUME NEW d \in Nat \ {0}, NEW p \in Int, NEW q \in Int,
         NEW r \in 0..d - 1, NEW s \in 0..d - 1, d * p + r = d * q + s
  PROVE  r = s
<1>1. d * (p - q) = s - r
  OBVIOUS
<1>2. CASE p - q >= 1
  BY <1>1, <1>2
<1>3. CASE p - q <= -1
  BY <1>1, <1>3
<1>4. QED
  BY <1>1, <1>2, <1>3

LEMMA MineIs ==
  ASSUME NEW i \in Worker, NEW a \in Int
  PROVE  Mine(i, a) <=> \E q \in Int : a - 1 = Lanes * q + i
<1>1. Lanes \in Nat \ {0} /\ i \in 0..Lanes - 1
  BY WavePoolAssumption DEF Worker
<1>2. PICK m \in Int : m = a - 1
  OBVIOUS
<1>3. PICK d \in Nat \ {0} : d = Lanes
  BY <1>1
<1>4. PICK r \in 0..d - 1 : r = m % d
  BY Division
<1>5. PICK p \in Int : m = d * p + r
  BY <1>4, Division
<1>6. ASSUME NEW q \in Int, m = d * q + i
      PROVE  r = i
  BY <1>1, <1>3, <1>5, <1>6, Remainder
<1>7. Mine(i, a) <=> r = i
  BY <1>2, <1>3, <1>4 DEF Mine
<1>8. QED
  BY <1>2, <1>3, <1>5, <1>6, <1>7

(* The strides share the requests out; a worker's next request is Lanes    *)
(* further on, and its first is i + 1.                                     *)
LEMMA Strides ==
  /\ \A j \in Nat \ {0} : \E i \in Worker : Mine(i, j)
  /\ \A i \in Worker : Mine(i, i + 1)
  /\ \A i \in Worker, a \in Nat : Mine(i, a) => Mine(i, a + Lanes)
  /\ \A i \in Worker, a, b \in Nat : Mine(i, a) /\ Mine(i, b) /\ a < b => a + Lanes <= b
  /\ \A i \in Worker, j \in Nat \ {0} : Mine(i, j) => i + 1 <= j
<1>1. Lanes \in Nat \ {0} /\ \A i \in Worker : i \in 0..Lanes - 1
  BY WavePoolAssumption DEF Worker
<1>2. ASSUME NEW j \in Nat \ {0}
      PROVE  \E i \in Worker : Mine(i, j)
  <2>1. (j - 1) % Lanes \in Worker
    BY <1>1, Division DEF Worker
  <2>2. QED
    BY <2>1 DEF Mine
<1>3. ASSUME NEW i \in Worker
      PROVE  Mine(i, i + 1)
  <2>1. i \in Int /\ i + 1 \in Int /\ i + 1 - 1 = Lanes * 0 + i
    BY <1>1
  <2>2. QED
    BY <2>1, MineIs
<1>4. ASSUME NEW i \in Worker, NEW a \in Nat, Mine(i, a)
      PROVE  Mine(i, a + Lanes)
  <2>1. PICK q \in Int : a - 1 = Lanes * q + i
    BY <1>4, MineIs
  <2>2. PICK b \in Int : b = a + Lanes
    BY <1>1
  <2>3. q + 1 \in Int /\ b - 1 = Lanes * (q + 1) + i
    BY <1>1, <2>1, <2>2
  <2>4. Mine(i, b)
    BY <2>3, MineIs
  <2>5. QED
    BY <2>2, <2>4
<1>5. ASSUME NEW i \in Worker, NEW a \in Nat, NEW b \in Nat, Mine(i, a), Mine(i, b), a < b
      PROVE  a + Lanes <= b
  <2>1. PICK q \in Int : a - 1 = Lanes * q + i
    BY <1>5, MineIs
  <2>2. PICK p \in Int : b - 1 = Lanes * p + i
    BY <1>5, MineIs
  <2>3. b - a = Lanes * (p - q)
    BY <1>1, <2>1, <2>2
  <2>4. p - q >= 1
    BY <1>1, <1>5, <2>3
  <2>5. Lanes * (p - q) >= Lanes
    BY <1>1, <2>4
  <2>6. QED
    BY <1>1, <2>3, <2>5
<1>6. ASSUME NEW i \in Worker, NEW j \in Nat \ {0}, Mine(i, j)
      PROVE  i + 1 <= j
  <2>1. PICK q \in Int : j - 1 = Lanes * q + i
    BY <1>6, MineIs
  <2>2. q >= 0
    BY <1>1, <2>1
  <2>3. Lanes * q >= 0
    BY <1>1, <2>2
  <2>4. QED
    BY <1>1, <2>1, <2>3
<1>7. QED
  BY <1>2, <1>3, <1>4, <1>5, <1>6

(* No wave was published.                                                  *)
LEMMA ReadStarts == WaveInit => ReadInv
<1> SUFFICES ASSUME WaveInit PROVE ReadInv
  OBVIOUS
<1>1. ReadType
  <2>1. <<>> \in [1..0 -> {"none", "ok", "failed"}]
    OBVIOUS
  <2>2. QED
    BY <2>1 DEF WaveInit, ReadType
<1>2. CursorInv /\ AnswerInv
  BY DEF WaveInit, CursorInv, AnswerInv, InWave
<1>3. QED
  BY <1>1, <1>2 DEF ReadInv

(* A step that reads nothing and moves no cursor.                          *)
LEMMA SameReads ==
  ASSUME ReadInv, UNCHANGED <<result, next, at>>,
         \A i \in Worker : wpc'[i] = "read" <=> wpc[i] = "read",
         caller' \in {"inline", "publish"} => caller' = caller,
         InWave' => InWave /\ gen' = gen /\ seen' = seen
  PROVE  ReadInv'
<1>1. ReadType' /\ CursorInv'
  BY DEF ReadInv, ReadType, CursorInv, Mine
<1>2. AnswerInv'
  BY DEF ReadInv, AnswerInv, Mine, ToRead
<1>3. QED
  BY <1>1, <1>2 DEF ReadInv

(* The waves of the host thread.                                           *)
LEMMA HostReads ==
  ASSUME PoolInv, ReadInv, PoolInv',
         (\E n \in 1..MaxReqs : ReadWave(n)) \/ Stop \/ WaveHost
  PROVE  ReadInv'
<1>1. ASSUME NEW n \in 1..MaxReqs, ReadWave(n)
      PROVE  ReadInv'
  <2>1. /\ result' = [j \in 1..n |-> "none"] /\ next' = 1 /\ at' = at
        /\ caller' \in {"inline", "publish"}
        /\ \A i \in Worker : wpc'[i] # "read"
    <3>1. \A i \in Worker : wpc[i] # "read"
      BY <1>1 DEF ReadWave, PoolInv, BusyInv, InWave, Busy
    <3>2. QED
      BY <1>1, <3>1 DEF ReadWave, workers
  <2>2. ReadType'
    <3>1. n \in Nat /\ result' \in [1..n -> {"none", "ok", "failed"}]
      BY <2>1, WavePoolAssumption
    <3>2. QED
      BY <2>1, <3>1 DEF ReadInv, ReadType
  <2>3. CursorInv'
    BY <2>1 DEF CursorInv
  <2>4. AnswerInv'
    BY <2>1 DEF AnswerInv, InWave
  <2>5. QED
    BY <2>2, <2>3, <2>4 DEF ReadInv
<1>2. CASE Stop \/ StopNotify \/ Join
  <2>1. /\ UNCHANGED <<result, next, at>> /\ caller' \in {"stopping", "join", "idle"}
        /\ \A i \in Worker : wpc'[i] = "read" <=> wpc[i] = "read"
    BY <1>2 DEF Stop, StopNotify, Join, workers, Woken, PoolInv, PoolType
  <2>2. QED
    BY <2>1, SameReads DEF InWave
<1>3. CASE ReadInline
  <2>1. caller = "inline" /\ UNCHANGED <<wavePool, workers>>
    BY <1>3 DEF ReadInline
  <2>2. \A i \in Worker : wpc[i] # "read"
    BY <2>1 DEF PoolInv, BusyInv, InWave, Busy
  <2>3. CASE /\ next \in DOMAIN result /\ next' = next + 1 /\ UNCHANGED caller
             /\ \E a \in {"ok", "failed"} : result' = [result EXCEPT ![next] = a]
    <3>1. PICK a \in {"ok", "failed"} : result' = [result EXCEPT ![next] = a]
      BY <2>3
    <3>2. PICK n \in Nat : result \in [1..n -> {"none", "ok", "failed"}]
      BY DEF ReadInv, ReadType
    <3>3. /\ result' \in [1..n -> {"none", "ok", "failed"}]
          /\ next \in 1..n /\ result'[next] = a
          /\ \A j \in 1..n : j # next => result'[j] = result[j]
      BY <2>3, <3>1, <3>2
    <3>4. ReadType' /\ CursorInv'
      BY <2>1, <2>2, <2>3, <3>3 DEF ReadInv, ReadType, CursorInv, workers
    <3>5. AnswerInv'
      <4>1. \A j \in 1..n : result[j] = "none" <=> next <= j
        BY <2>1, <3>2 DEF ReadInv, AnswerInv
      <4>2. \A j \in 1..n : result'[j] = "none" <=> next + 1 <= j
        BY <3>3, <4>1
      <4>3. DOMAIN result' = 1..n /\ caller' = "inline"
        BY <2>1, <2>3, <3>3
      <4>4. QED
        BY <2>3, <4>2, <4>3 DEF AnswerInv, InWave
    <3>6. QED
      BY <3>4, <3>5 DEF ReadInv
  <2>4. CASE caller' = "idle" /\ UNCHANGED <<result, next>>
    BY <2>1, <2>4, SameReads DEF InWave, workers
  <2>5. QED
    BY <1>3, <2>3, <2>4 DEF ReadInline
<1>4. CASE Publish
  <2>1. /\ caller = "publish" /\ caller' = "notify" /\ gen' = gen + 1
        /\ UNCHANGED <<result, next, workers>> /\ gen \in Nat
    BY <1>4 DEF Publish, PoolInv, PoolType
  <2>2. \A i \in Worker : seen[i] = gen
    BY <2>1 DEF PoolInv, RestInv, InWave
  <2>3. ReadType' /\ CursorInv'
    BY <2>1 DEF ReadInv, ReadType, CursorInv, Mine, workers
  <2>4. AnswerInv'
    BY <2>1, <2>2 DEF ReadInv, AnswerInv, ToRead, workers
  <2>5. QED
    BY <2>3, <2>4 DEF ReadInv
<1>5. CASE Notify
  <2>1. /\ UNCHANGED <<result, next, at, gen, seen>> /\ caller = "notify" /\ caller' = "await"
        /\ \A i \in Worker : wpc'[i] = "read" <=> wpc[i] = "read"
    BY <1>5 DEF Notify, Woken, PoolInv, PoolType, wavePool
  <2>2. QED
    BY <2>1, SameReads DEF InWave
<1>6. CASE Await
  <2>1. /\ UNCHANGED <<result, next, workers, gen>> /\ caller = "await"
        /\ caller' \in {"idle", "asleep"}
    BY <1>6 DEF Await
  <2>2. QED
    BY <2>1, SameReads DEF InWave, workers
<1>7. QED
  BY <1>1, <1>2, <1>3, <1>4, <1>5, <1>6 DEF WaveHost

(* A worker reads the requests of its stride, one after the other.         *)
LEMMA LaneReads ==
  ASSUME PoolInv, ReadInv, PoolInv', NEW i \in Worker, Lane(i) \/ Spurious(i)
  PROVE  ReadInv'
<1>1. CASE Check(i)
  <2>1. UNCHANGED <<caller, result, next, gen>>
    BY <1>1 DEF Check, wavePool
  <2>2. CASE stop \/ ~HasWork(i)
    <3>1. /\ UNCHANGED <<seen, at>>
          /\ \A k \in Worker : wpc'[k] = "read" <=> wpc[k] = "read"
      BY <1>1, <2>2 DEF Check, PoolInv, PoolType
    <3>2. QED
      BY <2>1, <3>1, SameReads DEF InWave
  <2>3. CASE ~stop /\ HasWork(i)
    <3>1. /\ wpc' = [wpc EXCEPT ![i] = "read"] /\ seen' = [seen EXCEPT ![i] = gen]
          /\ at' = [at EXCEPT ![i] = i + 1] /\ seen[i] # gen
      BY <1>1, <2>3 DEF Check, HasWork
    <3>2. /\ wpc'[i] = "read" /\ seen'[i] = gen /\ at'[i] = i + 1
          /\ \A k \in Worker : k # i => /\ wpc'[k] = wpc[k] /\ seen'[k] = seen[k]
                                        /\ at'[k] = at[k]
      BY <3>1 DEF PoolInv, PoolType, ReadInv, ReadType
    <3>3. i + 1 \in Nat \ {0} /\ Mine(i, i + 1)
      BY Strides, WavePoolAssumption DEF Worker
    <3>4. ReadType' /\ CursorInv'
      <4>1. at' \in [Worker -> Nat]
        BY <3>1, <3>3 DEF ReadInv, ReadType
      <4>2. ReadType'
        BY <2>1, <4>1 DEF ReadInv, ReadType
      <4>3. CursorInv'
        BY <3>2, <3>3 DEF ReadInv, CursorInv, Mine
      <4>4. QED
        BY <4>2, <4>3
    <3>5. InWave
      BY <3>1 DEF PoolInv, RestInv
    <3>6. ASSUME NEW k \in Worker, NEW j \in DOMAIN result, Mine(k, j)
          PROVE  result[j] = "none" <=> ToRead(k, j)'
      <4>1. result[j] = "none" <=> ToRead(k, j)
        BY <3>5, <3>6 DEF ReadInv, AnswerInv
      <4>2. CASE k = i
        <5>1. j \in Nat \ {0}
          BY DEF ReadInv, ReadType
        <5>2. i + 1 <= j
          BY <3>6, <4>2, <5>1, Strides
        <5>3. QED
          BY <2>1, <3>1, <3>2, <4>1, <4>2, <5>2 DEF ToRead
      <4>3. CASE k # i
        BY <2>1, <3>2, <4>1, <4>3 DEF ToRead
      <4>4. QED
        BY <4>2, <4>3
    <3>7. AnswerInv'
      BY <2>1, <3>5, <3>6 DEF AnswerInv, InWave, Mine
    <3>8. QED
      BY <3>4, <3>7 DEF ReadInv
  <2>4. QED
    BY <2>2, <2>3
<1>2. CASE ReadLane(i)
  <2>1. /\ wpc[i] = "read" /\ UNCHANGED <<caller, next, gen, seen>>
        /\ InWave /\ seen[i] = gen
    BY <1>2 DEF ReadLane, wavePool, PoolInv, BusyInv, Busy
  <2>2. at[i] \in Nat \ {0} /\ Mine(i, at[i]) /\ Lanes \in Nat \ {0}
    BY <2>1, WavePoolAssumption DEF ReadInv, ReadType, CursorInv
  <2>3. PICK n \in Nat : result \in [1..n -> {"none", "ok", "failed"}]
    BY DEF ReadInv, ReadType
  <2>4. CASE at[i] \in DOMAIN result
    <3>1. PICK a \in {"ok", "failed"} : result' = [result EXCEPT ![at[i]] = a]
      BY <1>2, <2>4 DEF ReadLane
    <3>2. at' = [at EXCEPT ![i] = @ + Lanes] /\ UNCHANGED wpc
      BY <1>2, <2>4 DEF ReadLane, Stride
    <3>3. /\ at'[i] = at[i] + Lanes /\ at' \in [Worker -> Nat]
          /\ \A k \in Worker : k # i => at'[k] = at[k]
      BY <2>2, <3>2 DEF ReadInv, ReadType
    <3>4. /\ result' \in [1..n -> {"none", "ok", "failed"}] /\ result'[at[i]] = a
          /\ \A j \in 1..n : j # at[i] => result'[j] = result[j]
      BY <2>3, <2>4, <3>1
    <3>5. Mine(i, at[i] + Lanes)
      BY <2>2, Strides
    <3>6. ReadType' /\ CursorInv'
      <4>1. ReadType'
        BY <2>1, <3>3, <3>4 DEF ReadInv, ReadType
      <4>2. CursorInv'
        BY <2>2, <3>2, <3>3, <3>5 DEF ReadInv, CursorInv, Mine
      <4>3. QED
        BY <4>1, <4>2
    <3>7. ASSUME NEW k \in Worker, NEW j \in 1..n, Mine(k, j)
          PROVE  result'[j] = "none" <=> ToRead(k, j)'
      <4>1. result[j] = "none" <=> ToRead(k, j)
        BY <2>1, <2>3, <3>7 DEF ReadInv, AnswerInv
      <4>2. CASE k # i
        <5>1. j # at[i]
          BY <2>2, <3>7, <4>2 DEF Mine
        <5>2. QED
          BY <2>1, <3>2, <3>3, <3>4, <4>1, <4>2, <5>1 DEF ToRead
      <4>3. CASE k = i
        <5>1. at[i] < j <=> at[i] + Lanes <= j
          BY <2>2, <3>7, <4>3, Strides
        <5>2. ToRead(i, j) <=> at[i] <= j
          BY <2>1 DEF ToRead
        <5>3. ToRead(i, j)' <=> at[i] + Lanes <= j
          BY <2>1, <3>2, <3>3 DEF ToRead
        <5>4. CASE j = at[i]
          BY <2>2, <3>4, <4>3, <5>3, <5>4
        <5>5. CASE j # at[i]
          <6>1. at[i] <= j <=> at[i] < j
            BY <2>2, <5>5
          <6>2. QED
            BY <3>4, <4>1, <4>3, <5>1, <5>2, <5>3, <5>5, <6>1
        <5>6. QED
          BY <5>4, <5>5
      <4>4. QED
        BY <4>2, <4>3
    <3>8. AnswerInv'
      <4>1. DOMAIN result' = 1..n /\ InWave' /\ caller' \notin {"publish", "inline"}
        BY <2>1, <3>4 DEF InWave
      <4>2. QED
        BY <3>7, <4>1 DEF AnswerInv, Mine
    <3>9. QED
      BY <3>6, <3>8 DEF ReadInv
  <2>5. CASE at[i] \notin DOMAIN result
    <3>1. wpc' = [wpc EXCEPT ![i] = "finish"] /\ UNCHANGED <<result, at>>
      BY <1>2, <2>5 DEF ReadLane
    <3>2. wpc'[i] = "finish" /\ \A k \in Worker : k # i => wpc'[k] = wpc[k]
      BY <3>1 DEF PoolInv, PoolType
    <3>3. ReadType' /\ CursorInv'
      BY <2>1, <3>1, <3>2 DEF ReadInv, ReadType, CursorInv, Mine
    <3>4. ASSUME NEW k \in Worker, NEW j \in 1..n, Mine(k, j)
          PROVE  result[j] = "none" <=> ToRead(k, j)'
      <4>1. result[j] = "none" <=> ToRead(k, j)
        BY <2>1, <2>3, <3>4 DEF ReadInv, AnswerInv
      <4>2. CASE k # i
        BY <2>1, <3>1, <3>2, <4>1, <4>2 DEF ToRead
      <4>3. CASE k = i
        <5>1. j < at[i]
          BY <2>2, <2>3, <2>5
        <5>2. QED
          BY <2>1, <2>2, <3>2, <4>1, <4>3, <5>1 DEF ToRead
      <4>4. QED
        BY <4>2, <4>3
    <3>5. AnswerInv'
      BY <2>1, <2>3, <3>1, <3>4 DEF AnswerInv, InWave, Mine
    <3>6. QED
      BY <3>3, <3>5 DEF ReadInv
  <2>6. QED
    BY <2>4, <2>5
<1>3. CASE Finish(i) \/ Spurious(i)
  <2>1. /\ UNCHANGED <<result, next, at, gen, seen>>
        /\ \A k \in Worker : wpc'[k] = "read" <=> wpc[k] = "read"
    BY <1>3 DEF Finish, Spurious, PoolInv, PoolType, wavePool
  <2>2. caller' = caller \/ (caller = "asleep" /\ caller' = "await")
    BY <1>3 DEF Finish, Spurious
  <2>3. QED
    BY <2>1, <2>2, SameReads DEF InWave
<1>4. QED
  BY <1>1, <1>2, <1>3 DEF Lane

(* Every step of host and workers.                                         *)
LEMMA ReadKept ==
  ASSUME PoolInv, PoolInv', ReadInv, [WaveNext]_waveVars
  PROVE  ReadInv'
<1>1. CASE UNCHANGED waveVars
  BY <1>1, SameReads DEF waveVars, workers, wavePool, InWave
<1>2. CASE WaveNext
  BY <1>2, HostReads, LaneReads DEF WaveNext
<1>3. QED
  BY <1>1, <1>2

(* A wave that is over has been read.                                      *)
LEMMA WaveIsRead ==
  ASSUME PoolInv, ReadInv, caller = "await", BarrierMet
  PROVE  Unanswered = {}
<1>1. InWave /\ Through \in SUBSET Worker
  BY DEF InWave, Through
<1>2. Through = Worker
  BY <1>1, Workers, WavePoolAssumption DEF PoolInv, CountInv, BarrierMet
<1>3. \A i \in Worker : \A j : ~ToRead(i, j)
  BY <1>2 DEF Through, ToRead, Busy
<1>4. ASSUME NEW j \in DOMAIN result
      PROVE  result[j] # "none"
  <2>1. j \in Nat \ {0}
    BY DEF ReadInv, ReadType
  <2>2. PICK i \in Worker : Mine(i, j)
    BY <2>1, Strides
  <2>3. QED
    BY <1>1, <1>3, <2>2 DEF ReadInv, AnswerInv
<1>5. QED
  BY <1>4 DEF Unanswered

Occupied == caller \in {"inline", "publish", "notify", "await", "asleep"}

(* Each step of the pool is a step of what it promises, or none.           *)
LEMMA StepPromised ==
  ASSUME PoolInv, ReadInv, [WaveNext]_waveVars
  PROVE  [Promise!Next]_<<Occupied, result>>
<1>1. ASSUME NEW n \in 1..MaxReqs, ReadWave(n)
      PROVE  Promise!Begin
  BY <1>1 DEF ReadWave, Promise!Begin
<1>2. CASE ReadInline
  <2>1. PICK n \in Nat : result \in [1..n -> {"none", "ok", "failed"}]
    BY DEF ReadInv, ReadType
  <2>2. caller = "inline" /\ next \in Nat \ {0}
        /\ \A j \in 1..n : result[j] = "none" <=> next <= j
    BY <1>2, <2>1 DEF ReadInline, ReadInv, ReadType, AnswerInv
  <2>3. CASE next \in DOMAIN result
    <3>1. next \in Promise!Unanswered
      BY <2>1, <2>2, <2>3 DEF Promise!Unanswered
    <3>2. QED
      BY <1>2, <2>2, <2>3, <3>1 DEF ReadInline, Promise!Answered, Promise!Next, Occupied
  <2>4. CASE next \notin DOMAIN result
    <3>1. \A j \in 1..n : j < next
      BY <2>1, <2>2, <2>4
    <3>2. Promise!Unanswered = {}
      BY <2>1, <2>2, <3>1 DEF Promise!Unanswered
    <3>3. QED
      BY <1>2, <2>2, <2>4, <3>2 DEF ReadInline, Promise!Return, Promise!Next
  <2>5. QED
    BY <2>3, <2>4
<1>3. CASE Await
  <2>1. CASE BarrierMet
    <3>1. Promise!Unanswered = {}
      BY <1>3, <2>1, WaveIsRead DEF Await, Unanswered, Promise!Unanswered
    <3>2. QED
      BY <1>3, <2>1, <3>1 DEF Await, Promise!Return, Promise!Next
  <2>2. CASE ~BarrierMet
    BY <1>3, <2>2 DEF Await, Occupied
  <2>3. QED
    BY <2>1, <2>2
<1>4. ASSUME NEW i \in Worker, ReadLane(i)
      PROVE  [Promise!Next]_<<Occupied, result>>
  <2>1. wpc[i] = "read" /\ caller' = caller /\ InWave /\ seen[i] = gen
    BY <1>4 DEF ReadLane, PoolInv, BusyInv, Busy
  <2>2. CASE at[i] \in DOMAIN result
    <3>1. at[i] \in Promise!Unanswered
      <4>1. Mine(i, at[i]) /\ at[i] \in Nat
        BY <2>1 DEF ReadInv, ReadType, CursorInv
      <4>2. ToRead(i, at[i])
        BY <2>1, <4>1 DEF ToRead
      <4>3. QED
        BY <2>1, <2>2, <4>1, <4>2 DEF ReadInv, AnswerInv, Promise!Unanswered
    <3>2. QED
      BY <1>4, <2>1, <2>2, <3>1
         DEF ReadLane, Promise!Answered, Promise!Next, Occupied, InWave
  <2>3. CASE at[i] \notin DOMAIN result
    BY <1>4, <2>1, <2>3 DEF ReadLane, Occupied
  <2>4. QED
    BY <2>2, <2>3
<1>5. CASE Publish \/ Notify
  BY <1>5 DEF Publish, Notify, Occupied
<1>6. CASE Stop \/ StopNotify \/ Join
  BY <1>6 DEF Stop, StopNotify, Join, Occupied
<1>7. ASSUME NEW i \in Worker, Check(i) \/ Finish(i) \/ Spurious(i)
      PROVE  UNCHANGED <<Occupied, result>>
  BY <1>7 DEF Check, Finish, Spurious, Occupied
<1>8. CASE UNCHANGED waveVars
  BY <1>8 DEF waveVars, Occupied
<1>9. QED
  BY <1>1, <1>2, <1>3, <1>4, <1>5, <1>6, <1>7, <1>8
     DEF WaveNext, WaveHost, Lane, Promise!Next

(* ReadsEveryRequest: whatever the threads' interleaving, the caller of a  *)
(* wave goes on only when each request has been answered, and each is      *)
(* answered once: the pool implements WaveRead.                            *)
THEOREM WavesReadEveryRequest ==
  ASSUME MaxStarts = 1
  PROVE  WaveSpec => ReadsEveryRequest
<1>1. WaveInit => Promise!Init
  BY DEF WaveInit, Promise!Init
<1>2. PoolInv /\ ReadInv /\ [WaveNext]_waveVars => PoolInv' /\ ReadInv'
  BY PoolStep, ReadKept
<1>3. PoolInv /\ ReadInv /\ [WaveNext]_waveVars => [Promise!Next]_<<Occupied, result>>
  BY StepPromised
<1>4. QED
  BY <1>1, <1>2, <1>3, PoolInit, ReadStarts, PTL
     DEF WaveSpec, ReadsEveryRequest, Promise!Spec, Occupied
=============================================================================
