------------------------------ MODULE MCTools -------------------------------
(* The programs around the runtime, each on a small instance: what `sabah`  *)
(* inspects, qualifies and plans, and what the measurements and the release *)
(* validation run and keep.  They share nothing that they write, so an      *)
(* execution runs one part (part); the others stay in one initial state.    *)
EXTENDS MCPlanner, Inspector, Qualify, BenchRun, Clocks, Harness, Validation, Policies,
        QuantLayout, Evidence, DiskProbe, Launch

CONSTANTS g1, g2, s1, s2, p1, p2

VARIABLE part

(* Disks: a bank whose gate tensor is whole or cut, named or typed in ways  *)
(* the inspector must tell apart, over shards that may be missing, and      *)
(* files of another architecture or without experts.                        *)
Experts(kind, block, q, n0, n2, bytes) ==
  [kind |-> kind, block |-> block, qtype |-> q, ne |-> <<n0, 2, n2>>, bytes |-> bytes, shard |-> 0]
Whole8(kind, block) == Experts(kind, block, "Q8_0", 64, 2, 272)
Beside(kind) ==
  [kind |-> kind, block |-> 0, qtype |-> "F16", ne |-> <<8, 1, 1>>, bytes |-> 16, shard |-> 0]
Gates ==
  {Experts("gate", 0, q, n0, n2, bytes) :
     q \in {"Q8_0", "Q4_K", "F16"}, n0 \in {48, 64, 256}, n2 \in {2, 3},
     bytes \in {204, 272, 576, 1088, 2048}}
Shard(there, tensors) == [exists |-> there, tensors |-> tensors]
File(arch, n, shards) ==
  [arch |-> arch, nExperts |-> n, nUsed |-> 1, nBlocks |-> 2, shards |-> shards]

MCDisks ==
  {File("qwen4exp", 2, <<Shard(TRUE, {Beside("token_embd"), Beside("norm")}),
                         Shard(there, {Whole8("up", 0), x}),
                         Shard(TRUE, {Whole8("gate", 1), y})>>) :
     there \in BOOLEAN, x \in Gates,
     y \in {Whole8("down", 1), Whole8("up", 1), Whole8("up", 0), Beside("norm")}}
  \cup {File(a, n, <<Shard(TRUE, {Whole8("up", 0)})>>) : a \in {"qwen4exp", "llama"}, n \in {0, 2}}

(* Two GPUs that nvidia-smi and CUDA list in the same order; the first is   *)
(* partly in use, and CUDA may not see the second.                          *)
SmiList   == <<g1, g2>>
SameOrder == {<<g1, g2>>, <<g1>>}
Mem       == [g \in Gpu |-> IF g = g1 THEN 8 ELSE 6]
Depths    == <<1, 2, 2>>
Held      == {[g \in Gpu |-> IF g = g1 THEN 3 ELSE 0]}

(* A matrix whose second row sets the budget and whose third sets the       *)
(* checks; shells that pin what the launcher sets, ships or takes away.     *)
MCMatrix == <<[own |-> {}, passes |-> 2], [own |-> {"hot_bytes"}, passes |-> 2],
              [own |-> Checks, passes |-> 1], [own |-> {}, passes |-> 4]>>
MCPins   == {{}, {"diag_exe", "rt_lib"}, {"diag_exe", "graph_seg", "verify"},
             {"status_file", "layer_merge", "hot_bytes"}}
MCSets   == {{}, {"graph_seg"}, {"verify", "status_file"}, {"hot_bytes"}, {"malformed"}}
AllGood  == [calls |-> 1, verify_ok |-> 1, verify_fail |-> 0, id_ok |-> 1, id_fail |-> 0,
             fallbacks |-> 0]
MCCounts == {AllGood} \cup {[AllGood EXCEPT ![f] = 1 - @] : f \in DOMAIN AllGood}

(* Both clocks at their floor or one of them below, and no memory clock.    *)
MCShown == {[sm |-> 4, mem |-> 4], [sm |-> 1, mem |-> 4], [sm |-> 4, mem |-> 1], [sm |-> 4, mem |-> 0]}

(* The order statistic of Clocks is what sorting puts in that place.       *)
ASSUME NthIsSorted ==
  \A v \in UNION {[1..n -> {1, 2, 4}] : n \in 1..4} :
    \A n \in DOMAIN v : Nth(v, DOMAIN v, n) = SortSeq(v, LAMBDA a, b : a < b)[n]

(* UnitsOf counts what is summed; two tensors of a name, in one set, are   *)
(* the same.                                                               *)
ASSUME SumIsCounted ==
  \A f \in [1..3 -> 0..3] : SumOf(f) = MapThenSumSet(LAMBDA x : f[x], DOMAIN f)
ASSUME NamesAgree == \A d \in Disks : OneOfAName(d)

InspectRuns == part = "inspect" /\ InspectNext
QualifyRuns == part = "qualify" /\ QualifyNext
PlannerRuns == part = "plan" /\ PlannerNext
BenchRuns   == part = "bench" /\ BenchNext
ClockRuns   == part = "clocks" /\ ClockNext
HarnessRuns == part = "harness" /\ HarnessNext
ValRuns     == part = "validate" /\ ValNext
PolRuns     == part = "policies" /\ PolNext
QuantRuns   == part = "quants" /\ QuantNext
ProbeRuns   == part = "probe" /\ ProbeNext
EvidenceRuns == part = "evidence" /\ EvidenceNext
LaunchRuns  == part = "launch" /\ LaunchNext

ToolsInit ==
  /\ part \in {"inspect", "qualify", "plan", "bench", "clocks", "harness", "validate", "policies",
             "quants", "evidence", "probe", "launch"}
  /\ ClockInit /\ ValInit /\ PolInit
  /\ HarnessInit /\ (part # "harness" => tool = CHOOSE t \in Tool : TRUE)
  /\ EvidenceInit /\ (part # "evidence" => emode = "forced")
  /\ ProbeInit
  /\ LaunchInit
  /\ part # "launch" =>
       lcommand = "run" /\ userSet = {} /\ shell = From({}, "shell") /\ flagged = {} /\ timesPrompt
  /\ QuantInit /\ (part # "quants" => qt = "Q8_0")
  /\ BenchInit
  /\ part # "bench" => program = "single" /\ available = 0 /\ clockValid
  /\ QualifyInit
  /\ part # "qualify" =>
       qualifierBuilt /\ file = Absent
  /\ InspectInit
  /\ part # "inspect" => gguf.arch = "llama" /\ gguf.nExperts = 0
  /\ PlannerInit
  /\ part # "plan" =>
       /\ model = FlashNext("auto", TRUE, FALSE) /\ batch = 0
       /\ hw = [gpus |-> <<>>, h2d |-> 0, ram |-> 1000, ramBw |-> 0, storage |-> 0]

toolsVars == <<part, inspectVars, qualifyVars, plannerVars, benchVars, clockVars,
               harnessVars, valVars, polVars, quantVars, evidenceVars, probeVars, launchVars>>

ToolsNext ==
  /\ UNCHANGED part
  /\ \/ InspectRuns  /\ UNCHANGED <<qualifyVars, plannerVars, benchVars, clockVars, harnessVars, valVars,
              polVars, quantVars, evidenceVars, probeVars, launchVars>>
     \/ QualifyRuns  /\ UNCHANGED <<inspectVars, plannerVars, benchVars, clockVars, harnessVars, valVars,
              polVars, quantVars, evidenceVars, probeVars, launchVars>>
     \/ PlannerRuns  /\ UNCHANGED <<inspectVars, qualifyVars, benchVars, clockVars, harnessVars, valVars,
              polVars, quantVars, evidenceVars, probeVars, launchVars>>
     \/ BenchRuns    /\ UNCHANGED <<inspectVars, qualifyVars, plannerVars, clockVars, harnessVars, valVars,
              polVars, quantVars, evidenceVars, probeVars, launchVars>>
     \/ ClockRuns    /\ UNCHANGED <<inspectVars, qualifyVars, plannerVars, benchVars, harnessVars, valVars,
              polVars, quantVars, evidenceVars, probeVars, launchVars>>
     \/ HarnessRuns  /\ UNCHANGED <<inspectVars, qualifyVars, plannerVars, benchVars, clockVars, valVars,
              polVars, quantVars, evidenceVars, probeVars, launchVars>>
     \/ ValRuns      /\ UNCHANGED <<inspectVars, qualifyVars, plannerVars, benchVars, clockVars, harnessVars,
              polVars, quantVars, evidenceVars, probeVars, launchVars>>
     \/ QuantRuns    /\ UNCHANGED <<inspectVars, qualifyVars, plannerVars, benchVars, clockVars, harnessVars,
              valVars, polVars, evidenceVars, probeVars, launchVars>>
     \/ PolRuns      /\ UNCHANGED <<inspectVars, qualifyVars, plannerVars, benchVars, clockVars, harnessVars,
              valVars, quantVars, evidenceVars, probeVars, launchVars>>
     \/ EvidenceRuns /\ UNCHANGED <<inspectVars, qualifyVars, plannerVars, benchVars, clockVars, harnessVars,
              valVars, polVars, quantVars, probeVars, launchVars>>
     \/ ProbeRuns    /\ UNCHANGED <<inspectVars, qualifyVars, plannerVars, benchVars, clockVars, harnessVars,
              valVars, polVars, quantVars, evidenceVars, launchVars>>
     \/ LaunchRuns   /\ UNCHANGED <<inspectVars, qualifyVars, plannerVars, benchVars, clockVars, harnessVars,
              valVars, polVars, quantVars, evidenceVars, probeVars>>

(* The commands of one shell go on; nothing else here waits for anything.  *)
ToolsFair == \A p \in Proc : WF_qualifyVars(part = "qualify" /\ CommandStep(p))

ToolsSpec == ToolsInit /\ [][ToolsNext]_toolsVars /\ ToolsFair
-----------------------------------------------------------------------------
(* A command that is not killed ends, and no item of a validation is done   *)
(* a second time without its reason in the log.                             *)
ToolsAnswer == CommandsEnd /\ RepeatsAreLogged

(* The three decoders of a quantised row agree, in the part that runs them. *)
DecodersAgree == part = "quants" => QuantsAreRead

(* The gates over counters and captures say what the runtime did, the rows  *)
(* of the disk probe are of the reads that were done, and a launch reports  *)
(* what it ran.                                                             *)
ReportsAreTrue ==
  /\ part = "evidence" => EvidenceCounts
  /\ part = "probe" => ProbeIsMeasured
  /\ part = "launch" => LaunchIsRecorded
=============================================================================
