------------------------------ MODULE WavePool ------------------------------
(***************************************************************************)
(* The read lanes: a wave of expert reads is handed to a pool of threads,  *)
(* each reading synchronously through its own file handle, behind a        *)
(* barrier the caller waits on.  The wave lives on the caller's stack.     *)
(*                                                                         *)
(* A thread between its wake-up and its next wait is one of "check"        *)
(* (about to test its predicate under g_wave_mutex), "read" and "finish".  *)
(* A waiting thread is "asleep" until a notify, or nothing, wakes it.      *)
(***************************************************************************)
EXTENDS Integers

CONSTANTS
  Lanes,       \* the pool's width: sb_io_depth() bounded by the lanes
  MaxReqs,     \* bound: requests of a wave (SABAH_LLAMA_IO_DEPTH)
  MaxWaves,    \* bound: waves
  MaxStarts    \* bound: times the pool is started

ASSUME WavePoolAssumption ==
  /\ Lanes \in Nat \ {0} /\ MaxReqs \in Nat \ {0}
  /\ MaxWaves \in Nat /\ MaxStarts \in Nat

Worker == 0..Lanes - 1

VARIABLES
  caller,      \* where the host thread is
  result,      \* the requests of the wave: answered, and how
  next,        \* next request an inline read turns to
  wave,        \* g_wave: the published wave, 0 for nullptr
  gen,         \* g_wave_gen: also names the wave it published
  done,        \* w.done
  started,     \* g_wave_started, and g_wave_workers > 0
  stop,        \* g_wave_stop
  wpc, seen, held, at,      \* of each worker
  waves, starts             \* bounds

wavePool == <<wave, gen, done, started, stop>>
workers == <<wpc, seen, held, at>>
waveVars == <<caller, result, next, wavePool, workers, waves, starts>>

Unanswered == {i \in DOMAIN result : result[i] = "none"}

(* Whom a notify_all on g_wave_start_cv wakes.                             *)
Woken == [i \in Worker |-> IF wpc[i] = "asleep" THEN "check" ELSE wpc[i]]

-----------------------------------------------------------------------------
(* The host thread.                                                        *)

(* sb_io_read_wave, up to sb_io_pool_start, which spawns the threads.      *)
ReadWave(n) ==
  /\ caller = "idle" /\ waves < MaxWaves
  /\ waves' = waves + 1
  /\ result' = [i \in 1..n |-> "none"] /\ next' = 1
  /\ IF n = 1 \/ started
     THEN UNCHANGED <<started, stop, workers, starts>>
     ELSE /\ starts < MaxStarts /\ starts' = starts + 1
          /\ started' = TRUE /\ stop' = FALSE
          /\ wpc' = [i \in Worker |-> "check"] /\ seen' = [i \in Worker |-> 0]
          /\ UNCHANGED <<held, at>>
  /\ caller' = IF n = 1 \/ Lanes = 1 THEN "inline" ELSE "publish"
  /\ UNCHANGED <<wave, gen, done>>

(* A wave of one, or a pool of one: read here, on lane 0.                  *)
ReadInline ==
  /\ caller = "inline"
  /\ \/ /\ next \in DOMAIN result
        /\ \E a \in {"ok", "failed"} : result' = [result EXCEPT ![next] = a]
        /\ next' = next + 1
        /\ UNCHANGED caller
     \/ /\ next \notin DOMAIN result
        /\ caller' = "idle"
        /\ UNCHANGED <<result, next>>
  /\ UNCHANGED <<wavePool, workers, waves, starts>>

Publish ==
  /\ caller = "publish"
  /\ gen' = gen + 1 /\ wave' = gen + 1 /\ done' = 0
  /\ caller' = "notify"
  /\ UNCHANGED <<result, next, started, stop, workers, waves, starts>>

Notify ==
  /\ caller = "notify"
  /\ wpc' = Woken
  /\ caller' = "await"
  /\ UNCHANGED <<result, next, wavePool, seen, held, at, waves, starts>>

(* Mutant of BarrierMet: one worker is not waited for.                     *)
BarrierAlmostMet == done >= Lanes - 1

BarrierMet == done >= Lanes

(* The wait on g_wave_done_cv; past it the wave is gone.                   *)
Await ==
  /\ caller = "await"
  /\ IF BarrierMet THEN caller' = "idle" /\ wave' = 0
     ELSE caller' = "asleep" /\ UNCHANGED wave
  /\ UNCHANGED <<result, next, gen, done, started, stop, workers, waves, starts>>

(* sb_io_pool_stop, from sabah_rt_shutdown.                                *)
Stop ==
  /\ caller = "idle" /\ starts > 0
  /\ started' = FALSE /\ stop' = TRUE
  /\ caller' = "stopping"
  /\ UNCHANGED <<result, next, wave, gen, done, workers, waves, starts>>

StopNotify ==
  /\ caller = "stopping"
  /\ wpc' = Woken
  /\ caller' = "join"
  /\ UNCHANGED <<result, next, wavePool, seen, held, at, waves, starts>>

Join ==
  /\ caller = "join" /\ \A i \in Worker : wpc[i] = "gone"
  /\ stop' = FALSE
  /\ caller' = "idle"
  /\ UNCHANGED <<result, next, wave, gen, done, started, workers, waves, starts>>

-----------------------------------------------------------------------------
(* A worker.                                                               *)

(* Mutant of HasWork: the generation is not remembered.                    *)
HasWorkAlways(i) == gen > 0

HasWork(i) == gen # seen[i]

(* The predicate of the wait, and what follows it under the same lock.     *)
Check(i) ==
  /\ wpc[i] = "check"
  /\ \/ /\ stop
        /\ wpc' = [wpc EXCEPT ![i] = "gone"]
        /\ UNCHANGED <<seen, held, at>>
     \/ /\ ~stop /\ HasWork(i)
        /\ wpc' = [wpc EXCEPT ![i] = "read"]
        /\ held' = [held EXCEPT ![i] = wave] /\ seen' = [seen EXCEPT ![i] = gen]
        /\ at' = [at EXCEPT ![i] = i + 1]
     \/ /\ ~stop /\ ~HasWork(i)
        /\ wpc' = [wpc EXCEPT ![i] = "asleep"]
        /\ UNCHANGED <<seen, held, at>>
  /\ UNCHANGED <<caller, result, next, wavePool, waves, starts>>

(* Mutant of Stride: a worker walks every request after its first.         *)
StrideOne == 1

Stride == Lanes

(* One synchronous read on the worker's own lane.                          *)
ReadLane(i) ==
  /\ wpc[i] = "read" /\ held[i] # 0
  /\ IF at[i] \in DOMAIN result
     THEN /\ \E a \in {"ok", "failed"} : result' = [result EXCEPT ![at[i]] = a]
          /\ at' = [at EXCEPT ![i] = @ + Stride]
          /\ UNCHANGED wpc
     ELSE wpc' = [wpc EXCEPT ![i] = "finish"] /\ UNCHANGED <<result, at>>
  /\ UNCHANGED <<caller, next, wavePool, seen, held, waves, starts>>

(* Mutant of LastOne: the caller is told when the first worker is done.    *)
FirstOne == done = 0

(* This worker is the one the caller waits for.                            *)
LastOne == done + 1 = Lanes

(* The increment and the wake-up of the caller, in one critical section.   *)
Finish(i) ==
  /\ wpc[i] = "finish"
  /\ done' = done + 1
  /\ wpc' = [wpc EXCEPT ![i] = "check"]
  /\ caller' = IF LastOne /\ caller = "asleep" THEN "await" ELSE caller
  /\ UNCHANGED <<result, next, wave, gen, started, stop, seen, held, at, waves, starts>>

(* A condition variable may wake a thread for nothing.                     *)
Spurious(i) ==
  /\ wpc[i] = "asleep"
  /\ wpc' = [wpc EXCEPT ![i] = "check"]
  /\ UNCHANGED <<caller, result, next, wavePool, seen, held, at, waves, starts>>

WaveInit ==
  /\ caller = "idle" /\ result = <<>> /\ next = 1
  /\ wave = 0 /\ gen = 0 /\ done = 0 /\ started = FALSE /\ stop = FALSE
  /\ wpc = [i \in Worker |-> "gone"] /\ seen = [i \in Worker |-> 0]
  /\ held = [i \in Worker |-> 0] /\ at = [i \in Worker |-> 0]
  /\ waves = 0 /\ starts = 0

WaveHost ==
  ReadInline \/ Publish \/ Notify \/ Await \/ StopNotify \/ Join

Lane(i) == Check(i) \/ ReadLane(i) \/ Finish(i)

WaveNext ==
  \/ \E n \in 1..MaxReqs : ReadWave(n)
  \/ Stop \/ WaveHost
  \/ \E i \in Worker : Lane(i) \/ Spurious(i)

(* The threads run, and reads return; no fairness makes a host ask.        *)
WaveSpec ==
  /\ WaveInit /\ [][WaveNext]_waveVars
  /\ WF_waveVars(WaveHost) /\ \A i \in Worker : WF_waveVars(Lane(i))

-----------------------------------------------------------------------------
WaveTypeOK ==
  /\ caller \in {"idle", "inline", "publish", "notify", "await", "asleep",
                 "stopping", "join"}
  /\ \E n \in 0..MaxReqs : result \in [1..n -> {"none", "ok", "failed"}]
  /\ next \in 1..MaxReqs + 1
  /\ wave \in 0..MaxWaves /\ gen \in 0..MaxWaves /\ done \in 0..Lanes
  /\ started \in BOOLEAN /\ stop \in BOOLEAN
  /\ wpc \in [Worker -> {"gone", "check", "asleep", "read", "finish"}]
  /\ seen \in [Worker -> 0..MaxWaves] /\ held \in [Worker -> 0..MaxWaves]
  /\ at \in [Worker -> 0..MaxReqs + Lanes]

(* A worker is inside a wave only while the caller is: the wave it reads   *)
(* and counts itself out of is still on the caller's stack.                *)
WaveIsAlive ==
  \A i \in Worker : wpc[i] \in {"read", "finish"} =>
    held[i] = wave /\ wave # 0 /\ caller \in {"notify", "await", "asleep"}

(* A file handle has one user: a wave of one is read on lane 0 only while  *)
(* no worker reads.                                                        *)
LaneHasOneUser == caller = "inline" => \A i \in Worker : wpc[i] # "read"

(* A pool can be started again after a stop: a worker that wakes up finds  *)
(* a wave.                                                                 *)
WaveWhenWoken == \A i \in Worker : wpc[i] = "read" => held[i] # 0

(* The wave returns with every request answered once.                      *)
Promise == INSTANCE WaveRead
             WITH busy <- caller \in {"inline", "publish", "notify", "await", "asleep"}
ReadsEveryRequest == Promise!Spec

(* A wave or a stop holds the host, which no lost wake-up may make for ever. *)
WaveHolds == caller # "idle"
=============================================================================
