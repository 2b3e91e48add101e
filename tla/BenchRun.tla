------------------------------ MODULE BenchRun ------------------------------
(***************************************************************************)
(* The in-process benchmarks: run_model and run_locality, which time one   *)
(* tier, and bench_moe, which sweeps tiers over one block.  The host       *)
(* launches kernels and expert copies that the two streams of the device   *)
(* execute later, and everything it allocates it must give back itself.    *)
(***************************************************************************)
EXTENDS Integers, Sequences, FiniteSets, SequencesExt

CONSTANTS
  SweepPoints,            \* number of tier sizes bench_moe tries
  TimedTokens, WarmTokens,
  TraceTokens             \* lengths a trace may have

ASSUME BenchAssumption ==
  /\ SweepPoints \in Nat \ {0} /\ TimedTokens \in Nat \ {0} /\ WarmTokens \in Nat \ {0}
  /\ TraceTokens \subseteq Nat

Program == {"sweep", "single"}        \* bench_moe; run_model and run_locality
Resource == {"fixed", "bank", "tier", "ex", "sampler"}

VARIABLES
  program, step,          \* where the host is
  available,              \* tokens the trace has
  held,                   \* live allocations, <<resource, point>>
  point,                  \* position in the sweep, from 1
  kernels, copies,        \* submitted and not executed, by the phase of their submitter
  launched,               \* tokens launched in this phase
  window,                 \* kernels executed while the timer ran, by phase
  counted,                \* Telemetry: blocks executed, by phase
  stalls, stalled,        \* recorded stall pairs not read yet, and those in the counters
  prefetching,
  rows,                   \* results reported
  clockValid,             \* what the sampler's record will say
  skipped,                \* points given up
  exit

benchVars == <<program, step, available, held, point, kernels, copies, launched, window,
               counted, stalls, stalled, prefetching, rows, clockValid, skipped, exit>>

Phase == {"warm", "timed"}
None == [ph \in Phase |-> 0]
Points == IF program = "sweep" THEN SweepPoints ELSE 1
Holds(r) == \E h \in held : h[1] = r
Mine(r) == <<r, IF r \in {"tier", "ex"} THEN point ELSE 0>>

BenchInit ==
  /\ program \in Program /\ step = "start" /\ available \in TraceTokens
  /\ held = {} /\ point = 1 /\ kernels = <<>> /\ copies = <<>> /\ launched = 0
  /\ window = None /\ counted = None /\ stalls = <<>> /\ stalled = None
  /\ prefetching \in BOOLEAN /\ (prefetching => program = "sweep")
  /\ rows = <<>> /\ clockValid \in BOOLEAN /\ skipped = {} /\ exit = "running"

-----------------------------------------------------------------------------
(* Acquisition, in the order of main.                                      *)

StepsOn(from, to) == exit = "running" /\ step = from /\ step' = to

Untimed == UNCHANGED <<launched, window, counted, stalls, stalled>>
SameSetup == UNCHANGED <<program, available, prefetching, clockValid>>

Leaves(code) == exit' = code /\ step' = "done"

(* An exception main does not catch ends the process, which gives back all *)
(* it held.                                                                *)
Dies ==
  /\ exit = "running" /\ step \in {"bank", "trace", "tier", "ex", "warm", "timed"}
  /\ Leaves("raised") /\ held' = {} /\ kernels' = <<>> /\ copies' = <<>>
  /\ SameSetup /\ Untimed /\ UNCHANGED <<point, rows, skipped>>

Unavailable ==
  /\ exit = "running" /\ step = "start" /\ Leaves("2")
  /\ SameSetup /\ Untimed /\ UNCHANGED <<held, point, kernels, copies, rows, skipped>>

(* rt_init, inspect_model; the fixed path only when it is asked for.       *)
PinFixed(asked) ==
  /\ StepsOn("start", "bank") /\ held' = IF asked THEN {Mine("fixed")} ELSE {}
  /\ SameSetup /\ Untimed /\ UNCHANGED <<point, kernels, copies, rows, skipped, exit>>

OpenBenchBank ==
  /\ StepsOn("bank", IF program = "sweep" THEN "trace" ELSE "tier")
  /\ held' = held \cup {Mine("bank")}
  /\ SameSetup /\ Untimed /\ UNCHANGED <<point, kernels, copies, rows, skipped, exit>>

(* bench_moe reads its trace before it builds a tier; the sampler starts.  *)
LoadSweepTrace ==
  /\ StepsOn("trace", "tier") /\ held' = held \cup {Mine("sampler")}
  /\ SameSetup /\ Untimed /\ UNCHANGED <<point, kernels, copies, rows, skipped, exit>>

BuildTier ==
  /\ StepsOn("tier", "ex") /\ held' = held \cup {Mine("tier")}
  /\ SameSetup /\ Untimed /\ UNCHANGED <<point, kernels, copies, rows, skipped, exit>>

BuildExecutor ==
  /\ StepsOn("ex", "warm") /\ held' = held \cup {Mine("ex")}
  /\ launched' = 0 /\ counted' = None /\ stalled' = None /\ stalls' = <<>>
  /\ SameSetup /\ UNCHANGED <<point, kernels, copies, window, rows, skipped, exit>>

-----------------------------------------------------------------------------
(* One token: a miss queues a copy and a stall pair, the block a kernel.   *)

LaunchLayer(ph, miss) ==
  /\ launched' = launched + 1
  /\ kernels' = Append(kernels, ph)
  /\ copies' = IF miss THEN Append(copies, ph) ELSE copies
  /\ stalls' = IF miss THEN Append(stalls, ph) ELSE stalls
  /\ counted' = [counted EXCEPT ![ph] = @ + 1]
  /\ SameSetup /\ UNCHANGED <<held, point, window, stalled, rows, skipped, exit>>

ToWarm == IF program = "sweep" THEN 1 ELSE WarmTokens

WarmToken(miss) ==
  /\ exit = "running" /\ step = "warm" /\ launched < ToWarm
  /\ available > launched          \* ids[0], traces[b][t]
  /\ LaunchLayer("warm", miss) /\ UNCHANGED step

(* Tokens the timed loop runs; bench_moe takes what the trace supplies.    *)
ToTime == IF program = "sweep" /\ available < TimedTokens THEN available ELSE TimedTokens

(* With a prefetcher, warm_ahead may queue a copy behind the block.        *)
TimedToken(miss, ahead) ==
  /\ exit = "running" /\ step = "timed" /\ launched < ToTime
  /\ program = "single" => available > WarmTokens + launched
  /\ ahead => prefetching
  /\ LaunchLayer("timed", miss \/ ahead) /\ UNCHANGED step

(* The device takes the oldest kernel, after the copies it waits for.      *)
RunKernel ==
  /\ kernels # <<>> /\ kernels' = Tail(kernels)
  /\ window' = IF step = "timed" THEN [window EXCEPT ![Head(kernels)] = @ + 1] ELSE window
  /\ SameSetup /\ UNCHANGED <<step, held, point, copies, launched, counted, stalls, stalled,
                            rows, skipped, exit>>

RunCopy ==
  /\ copies # <<>> /\ copies' = Tail(copies)
  /\ SameSetup /\ UNCHANGED <<step, held, point, kernels, launched, window, counted, stalls,
                            stalled, rows, skipped, exit>>

(* drain_stalls reads the pairs back into the counters; run_model never    *)
(* calls it and reports no stall.                                          *)
Drained ==
  [ph \in Phase |->
     IF program = "sweep"
     THEN stalled[ph] + Cardinality({i \in DOMAIN stalls : stalls[i] = ph}) ELSE 0]

(* Mutant of SyncWarm: the timer starts without the synchronisations.      *)
StartNow ==
  /\ StepsOn("warm", "timed") /\ launched = ToWarm
  /\ launched' = 0 /\ window' = None /\ counted' = None /\ stalled' = None
  /\ stalls' = IF program = "sweep" THEN <<>> ELSE stalls
  /\ SameSetup /\ UNCHANGED <<held, point, kernels, copies, rows, skipped, exit>>

(* ex.sync, drain_stalls in the sweep, tel.reset, sync_all, t0.            *)
SyncWarm ==
  /\ StepsOn("warm", "timed") /\ launched = ToWarm /\ kernels = <<>> /\ copies = <<>>
  /\ launched' = 0 /\ window' = None /\ counted' = None /\ stalled' = None
  /\ stalls' = IF program = "sweep" THEN <<>> ELSE stalls
  /\ SameSetup /\ UNCHANGED <<held, point, kernels, copies, rows, skipped, exit>>

Row == [point |-> point, window |-> window, left |-> Len(kernels),
        counted |-> counted, stalled |-> Drained, tokens |-> ToTime]

(* ex.sync waits for the compute stream only, dt, drain_stalls.            *)
StopTimer ==
  /\ StepsOn("timed", "free") /\ launched = ToTime /\ ToTime > 0 /\ kernels = <<>>
  /\ rows' = Append(rows, Row)
  /\ stalled' = Drained /\ stalls' = IF program = "sweep" THEN <<>> ELSE stalls
  /\ SameSetup /\ UNCHANGED <<held, point, kernels, copies, launched, window, counted,
                            skipped, exit>>

-----------------------------------------------------------------------------
(* ex.free, tier.free: cudaFree returns when the device is idle.           *)
Idle == kernels = <<>> /\ copies = <<>>

(* A CUDA error in run_one skips the point; the finally clause covers what *)
(* comes after the executor's constructor.  A tier whose executor could    *)
(* not be made, or the pool of a tier whose staging could not, stays.      *)
SkipPoint ==
  /\ program = "sweep" /\ exit = "running" /\ step \in {"tier", "ex", "warm", "timed"} /\ Idle
  /\ held' \in CASE step = "tier" -> {held, held \cup {Mine("tier")}}
                [] step = "ex" -> {held}
                [] OTHER -> {held \ {Mine("tier"), Mine("ex")}}
  /\ step' = IF point < Points THEN "tier" ELSE "report"
  /\ point' = IF point < Points THEN point + 1 ELSE point
  /\ skipped' = skipped \cup {point}
  /\ SameSetup /\ Untimed /\ UNCHANGED <<kernels, copies, rows, exit>>

(* A trace that holds too few tokens is an IndexError, or a division by    *)
(* zero, that nobody catches.                                              *)
TraceRunsOut ==
  /\ exit = "running"
  /\ \/ step = "warm" /\ launched < ToWarm /\ available <= launched
     \/ /\ step = "timed" /\ program = "single" /\ launched < ToTime
        /\ available <= WarmTokens + launched
  /\ Leaves("raised") /\ held' = {} /\ kernels' = <<>> /\ copies' = <<>>
  /\ SameSetup /\ Untimed /\ UNCHANGED <<point, rows, skipped>>

(* tier.free and ex.free; the next point of the sweep, or the report.      *)
FreePoint ==
  /\ exit = "running" /\ step = "free" /\ Idle
  /\ held' = held \ {Mine("tier"), Mine("ex")}
  /\ step' = IF point < Points THEN "tier" ELSE "report"
  /\ point' = IF point < Points THEN point + 1 ELSE point
  /\ SameSetup /\ Untimed /\ UNCHANGED <<kernels, copies, rows, skipped, exit>>

(* The sampler stops, the record is judged, fixed path and bank are given  *)
(* back, and only then may a bad clock become exit code 4.                 *)
Report(allowed) ==
  /\ exit = "running" /\ step = "report"
  /\ Leaves(IF program = "sweep" /\ ~clockValid /\ ~allowed THEN "4" ELSE "0")
  /\ held' = held \ ({Mine("sampler"), Mine("fixed")} \cup
                     (IF program = "sweep" THEN {Mine("bank")} ELSE {}))
  /\ SameSetup /\ Untimed /\ UNCHANGED <<point, kernels, copies, rows, skipped>>

BenchNext ==
  \/ Dies \/ Unavailable \/ (\E asked \in BOOLEAN : PinFixed(asked)) \/ OpenBenchBank
  \/ LoadSweepTrace \/ BuildTier \/ BuildExecutor
  \/ (\E miss \in BOOLEAN : WarmToken(miss))
  \/ (\E miss, ahead \in BOOLEAN : TimedToken(miss, ahead))
  \/ RunKernel \/ RunCopy \/ SyncWarm \/ StopTimer \/ SkipPoint \/ TraceRunsOut
  \/ FreePoint \/ (\E allowed \in BOOLEAN : Report(allowed))

BenchSpec == BenchInit /\ [][BenchNext]_benchVars

-----------------------------------------------------------------------------
BenchTypeOK ==
  /\ program \in Program /\ point \in 1..Points /\ skipped \subseteq 1..SweepPoints
  /\ held \subseteq Resource \X (0..SweepPoints)
  /\ kernels \in Seq(Phase) /\ copies \in Seq(Phase) /\ stalls \in Seq(Phase)
  /\ launched \in 0..TimedTokens + WarmTokens
  /\ exit \in {"running", "0", "2", "4", "raised"}

(* What a row says was executed while its timer ran is exactly its own     *)
(* timed tokens: nothing of the warm-up or of an earlier point was still   *)
(* queued at t0, and nothing timed is still queued at dt.                  *)
RowIsTimed ==
  \A i \in DOMAIN rows :
    /\ rows[i].window = [warm |-> 0, timed |-> rows[i].tokens] /\ rows[i].left = 0

(* A row's counters and stall intervals are those of its timed tokens.     *)
RowCountsTimed ==
  \A i \in DOMAIN rows :
    /\ rows[i].counted = [warm |-> 0, timed |-> rows[i].tokens]
    /\ rows[i].stalled["warm"] = 0 /\ rows[i].stalled["timed"] <= rows[i].tokens

(* VRAM a later point could have used is held only by a tier that was not  *)
(* completed or whose executor was not: a point reported as skipped.       *)
SweepKeepsOnlyOrphans ==
  \A h \in held : h[1] \in {"tier", "ex"} /\ h[2] < point => h[1] = "tier" /\ h[2] \in skipped

(* When a program returns by itself, with a result or with exit code 4,    *)
(* only orphaned tiers, and the bank of run_model and run_locality, which  *)
(* never close it, are left.                                               *)
ReturnsWhatItHeld ==
  exit \in {"0", "4"} =>
    \A h \in held : \/ h[1] = "tier" /\ h[2] \in skipped
                    \/ h[1] = "bank" /\ program = "single"
(* A reported row is a measurement of its own tokens, and a program that    *)
(* returns gave back what it took (run_model.py:57-176, bench_moe.py).      *)
RowsAreMeasured ==
  /\ BenchTypeOK
  /\ RowIsTimed
  /\ RowCountsTimed
  /\ SweepKeepsOnlyOrphans
  /\ ReturnsWhatItHeld
=============================================================================
