------------------------------- MODULE Launch -------------------------------
(* `sabah run`, `sabah matrix` and `sabah gate`: sabah/tools/stream.py      *)
(* starts llama-sabah-diag in an environment of settings laid over one      *)
(* another, splits its step times into fill, warm-up and steady state, and  *)
(* the command turns the record into a report, a document or a verdict.     *)
(* A setting's value is modelled by who gave it; a step time by what the    *)
(* pass was.                                                                *)
(*                                                                          *)
(* The driver of patches/llama.cpp/0002 times the prompt as step 0; the     *)
(* drivers stream.py also reads time it in chunks of its own.               *)
EXTENDS Integers, Sequences, FiniteSets, Functions

CONSTANTS
  LaunchMatrix,      \* MATRIX: its rows, [own: settings, passes: -n]
  ShellPins,         \* sets of settings the shell may hold
  UserSets,          \* sets of settings --set may give
  WarmupDecodes,     \* decodes of the warm-up (128)
  RunPasses,         \* -n of `sabah run` and `sabah gate`
  CounterValues      \* what the runtime may count in a run with every check on

BaseSettings    == {"direct_io"}              \* BASE_ENV
ShippedSettings == {"graph_seg", "tile3"}     \* SHIPPED_ENV
Checks          == {"verify", "id_check"}

(* No row of MATRIX sets anything but the budget and the checks.            *)
ASSUME LaunchAssumption ==
  /\ WarmupDecodes \in Nat /\ RunPasses \in Nat \ {0}
  /\ LaunchMatrix \in Seq([own : SUBSET ({"hot_bytes"} \cup Checks), passes : Nat \ {0}])
  /\ LaunchMatrix # <<>>

VARIABLES
  lcommand,          \* run, matrix, gate
  flagged,           \* which of --diag and --rt were given
  userSet,           \* settings of --set, "malformed" for one without a "="
  shell,             \* os.environ of the command: setting -> who gave it
  shellAtStart,
  lpc,
  child,             \* the driver's environment
  timesPrompt,       \* does the driver time the prompt by itself?
  passes,            \* done by the driver: the prompt, then the decodes
  printed,           \* lines "step N" with N >= 1
  stepFile,          \* step_ms.f64
  driverExit,        \* exit code, -1 while it runs
  lcounters,         \* what the runtime printed at its end
  records,           \* of the runs so far
  document,          \* results/matrix.json
  exitStatus         \* of the command, -1 while it runs

launchSettings == <<lcommand, flagged, userSet, shellAtStart>>
launchDriver   == <<timesPrompt, passes, printed, stepFile, driverExit, lcounters>>
launchVars     == <<launchSettings, shell, lpc, child, launchDriver, records, document, exitStatus>>

From(settings, who) == [s \in settings |-> who]

(* The settings of f over those of g: what an update of g with f leaves.    *)
LaidOver(f, g) == [s \in DOMAIN f \cup DOMAIN g |-> IF s \in DOMAIN f THEN f[s] ELSE g[s]]
Uncounted == [calls |-> 0, verify_ok |-> 0, verify_fail |-> 0, id_ok |-> 0, id_fail |-> 0,
              fallbacks |-> 0]
OldDocument == [rows |-> <<>>, names |-> [driver |-> "before", runtime |-> "before"]]

-----------------------------------------------------------------------------
(* The settings of a run.                                                   *)

(* What the command's own row sets, and how many passes it asks for.        *)
RowOwn ==
  IF lcommand = "matrix" THEN LaunchMatrix[Len(records) + 1].own
  ELSE IF lcommand = "gate" THEN Checks ELSE {}
RowPasses ==
  IF lcommand = "matrix" THEN LaunchMatrix[Len(records) + 1].passes ELSE RunPasses

ExtraSettings == LaidOver(From(userSet, "user"), From(RowOwn, "row"))

(* The shipped profile, unless the shell already pins a value.              *)
ShippedHere == From(ShippedSettings \ DOMAIN shell, "shipped")

Launched == From({"hot_bytes", "rt_lib", "prefetch"}, "launcher")

ChildEnv ==
  LET laid == LaidOver(Launched, LaidOver(ShippedHere, LaidOver(From(BaseSettings, "base"), shell)))
  IN  LaidOver(ExtraSettings, Restrict(laid, DOMAIN laid \ {"status_file", "layer_merge"}))

(* Mutant of ShellAfter: the run writes its settings into os.environ.       *)
ShellIsTheChilds == ChildEnv

(* The driver's environment is a copy of the command's.                     *)
ShellAfter == shell

(* The budget the record names, and the one the driver gets.                *)
RecordedBudget == IF "hot_bytes" \in RowOwn THEN "row" ELSE "launcher"

-----------------------------------------------------------------------------
(* The run.                                                                 *)

LaunchEnds(status) == exitStatus' = status /\ lpc' = "done"

BadSet ==
  /\ lpc = "settings" /\ "malformed" \in userSet
  /\ LaunchEnds(2)
  /\ UNCHANGED <<launchSettings, shell, child, launchDriver, records, document>>

(* RunError: no driver was named, or one of the three files is not there.   *)
LaunchRefused ==
  /\ lpc = "settings" /\ "malformed" \notin userSet /\ LaunchEnds(2)
  /\ UNCHANGED <<launchSettings, shell, child, launchDriver, records, document>>

DriverFile ==
  IF "diag" \in flagged THEN "given" ELSE IF "diag_exe" \in DOMAIN shell THEN "shell" ELSE "none"
RuntimeFile ==
  IF "rt" \in flagged THEN "given" ELSE IF "rt_lib" \in DOMAIN shell THEN "shell" ELSE "default"

StartDriver ==
  /\ lpc = "settings" /\ "malformed" \notin userSet /\ DriverFile # "none"
  /\ child' = ChildEnv /\ shell' = ShellAfter
  /\ passes' = 0 /\ printed' = 0 /\ stepFile' = <<>> /\ driverExit' = -1
  /\ lcounters' = Uncounted /\ lpc' = "driver"
  /\ UNCHANGED <<launchSettings, timesPrompt, records, document, exitStatus>>

(* A pass and its line; the prompt's line is step 0.                        *)
DriverPass ==
  /\ lpc = "driver" /\ passes < RowPasses
  /\ passes' = passes + 1 /\ printed' = IF passes = 0 THEN 0 ELSE printed + 1
  /\ UNCHANGED <<launchSettings, shell, lpc, child, timesPrompt, stepFile, driverExit, lcounters,
                 records, document, exitStatus>>

StepTimes ==
  LET decodes == [i \in 1..RowPasses - 1 |-> "decode"]
  IN  IF timesPrompt THEN decodes ELSE <<"prompt">> \o decodes

(* finish_item, after the last pass.                                        *)
DriverFinishes ==
  /\ lpc = "driver" /\ passes = RowPasses /\ stepFile = <<>>
  /\ stepFile' = StepTimes
  /\ UNCHANGED <<launchSettings, shell, lpc, child, timesPrompt, passes, printed, driverExit,
                 lcounters, records, document, exitStatus>>

(* The runtime counts only what it was told to check, and prints it unless  *)
(* the process is killed; only the gate judges what it prints.              *)
CountedHere(c) ==
  IF lcommand # "gate" THEN Uncounted
  ELSE [c EXCEPT !.verify_ok   = IF "verify" \in DOMAIN child THEN @ ELSE 0,
                 !.verify_fail = IF "verify" \in DOMAIN child THEN @ ELSE 0,
                 !.id_ok       = IF "id_check" \in DOMAIN child THEN @ ELSE 0,
                 !.id_fail     = IF "id_check" \in DOMAIN child THEN @ ELSE 0]

DriverLeaves ==
  /\ lpc = "driver"
  /\ \/ passes = RowPasses /\ (stepFile # <<>> \/ StepTimes = <<>>) /\ driverExit' = 0
        /\ \E c \in CounterValues : lcounters' = CountedHere(c)
     \/ driverExit' = 3
        /\ \E c \in CounterValues \cup {Uncounted} : lcounters' = CountedHere(c)
  /\ lpc' = "record"
  /\ UNCHANGED <<launchSettings, shell, child, timesPrompt, passes, printed, stepFile, records,
                 document, exitStatus>>

(* A driver that takes longer than the timeout is killed, and the exception *)
(* is not one the commands catch.                                           *)
LaunchTimesOut ==
  /\ lpc = "driver" /\ LaunchEnds(1)
  /\ UNCHANGED <<launchSettings, shell, child, launchDriver, records, document>>

-----------------------------------------------------------------------------
(* The record.                                                              *)

NoRegimes == [fill |-> "none", warmup |-> <<>>, steady |-> <<>>]

Split(fill, decodes) ==
  [fill   |-> fill,
   warmup |-> IF Len(decodes) < WarmupDecodes THEN decodes ELSE SubSeq(decodes, 1, WarmupDecodes),
   steady |-> SubSeq(decodes, WarmupDecodes + 1, Len(decodes))]

(* The prompt's own time is in the log as soon as the prompt is done.       *)
Regimes ==
  IF timesPrompt /\ passes > 0
  THEN IF stepFile = <<>> THEN NoRegimes ELSE Split("prompt", stepFile)
  ELSE IF Len(stepFile) < 2 THEN NoRegimes ELSE Split(Head(stepFile), Tail(stepFile))

RunRecord ==
  [row |-> Len(records) + 1, budget |-> RecordedBudget, exit |-> driverExit, decodes |-> printed,
   regimes |-> Regimes, counters |-> lcounters, env |-> child, passes |-> passes,
   driver |-> DriverFile, runtime |-> RuntimeFile]

(* gate_checks.                                                             *)
GateGood(r) ==
  /\ r.counters.calls > 0
  /\ r.counters.verify_ok > 0 /\ r.counters.verify_fail = 0
  /\ r.counters.id_ok > 0 /\ r.counters.id_fail = 0
  /\ r.counters.fallbacks = 0
  /\ r.exit = 0

RunReports ==
  /\ lpc = "record" /\ lcommand = "run"
  /\ records' = <<RunRecord>> /\ LaunchEnds(IF driverExit = 0 THEN 0 ELSE 3)
  /\ UNCHANGED <<launchSettings, shell, child, launchDriver, document>>

GateReports ==
  /\ lpc = "record" /\ lcommand = "gate"
  /\ records' = <<RunRecord>> /\ LaunchEnds(IF GateGood(RunRecord) THEN 0 ELSE 1)
  /\ UNCHANGED <<launchSettings, shell, child, launchDriver, document>>

(* A row is kept whatever its driver's exit code was.                       *)
MatrixKeeps ==
  /\ lpc = "record" /\ lcommand = "matrix"
  /\ records' = Append(records, RunRecord)
  /\ lpc' = IF Len(records') = Len(LaunchMatrix) THEN "write" ELSE "settings"
  /\ UNCHANGED <<launchSettings, shell, child, launchDriver, document, exitStatus>>

(* environment_fingerprint is given the options, not what they were         *)
(* completed with.                                                          *)
Fingerprint ==
  [driver |-> IF "diag" \in flagged THEN "given" ELSE "none",
   runtime |-> IF "rt" \in flagged THEN "given" ELSE "default"]

MatrixWrites ==
  /\ lpc = "write" /\ document' = [rows |-> records, names |-> Fingerprint] /\ LaunchEnds(0)
  /\ UNCHANGED <<launchSettings, shell, child, launchDriver, records>>

LaunchInit ==
  /\ lcommand \in {"run", "matrix", "gate"} /\ flagged \in SUBSET {"diag", "rt"}
  /\ userSet \in (IF lcommand = "run" THEN UserSets ELSE {{}})
  /\ \E pins \in ShellPins : shell = From(pins, "shell")
  /\ shellAtStart = shell /\ lpc = "settings" /\ child = From({}, "shell")
  /\ timesPrompt \in BOOLEAN
  /\ passes = 0 /\ printed = 0 /\ stepFile = <<>> /\ driverExit = -1 /\ lcounters = Uncounted
  /\ records = <<>> /\ document = OldDocument /\ exitStatus = -1

LaunchNext ==
  \/ BadSet \/ LaunchRefused \/ StartDriver
  \/ DriverPass \/ DriverFinishes \/ DriverLeaves \/ LaunchTimesOut
  \/ RunReports \/ GateReports \/ MatrixKeeps \/ MatrixWrites

LaunchSpec == LaunchInit /\ [][LaunchNext]_launchVars
-----------------------------------------------------------------------------
(* The kind of value every variable of a launch holds.                      *)
LaunchTypeOK ==
  /\ lpc \in {"settings", "driver", "record", "write", "done"}
  /\ driverExit \in {-1, 0, 3} /\ exitStatus \in -1..3
  /\ Len(records) <= Len(LaunchMatrix) \/ lcommand # "matrix"
  /\ (lpc = "done") = (exitStatus # -1)

(* Every run has the settings of its own row over those the shell had when  *)
(* the command began: no row leaves a check, a budget or a launcher's value *)
(* to the ones after it, a value pinned in the shell beats the profile, and *)
(* no timed run writes the status file or takes over a merged layer from    *)
(* the shell (stream.py:315-333).                                           *)
SettingsAreTheRows ==
  \A i \in DOMAIN records :
    LET env == records[i].env
        own == IF lcommand = "matrix" THEN LaunchMatrix[records[i].row].own
               ELSE IF lcommand = "gate" THEN Checks ELSE {}
    IN  /\ own \subseteq {s \in DOMAIN env : env[s] = "row"} \cup userSet
        /\ \A s \in DOMAIN env : env[s] = "row" => s \in own
        /\ \A s \in Checks \ (own \cup userSet \cup DOMAIN shellAtStart) : s \notin DOMAIN env
        /\ \A s \in ShippedSettings \ userSet :
             env[s] = IF s \in DOMAIN shellAtStart THEN "shell" ELSE "shipped"
        /\ \A s \in {"status_file", "layer_merge"} : s \in DOMAIN env => s \in userSet

(* The budget a record names is the one its driver ran with, unless --set   *)
(* gave another (stream.py:364, 486).                                       *)
BudgetIsTheRuns ==
  \A i \in DOMAIN records :
    "hot_bytes" \notin userSet => records[i].env["hot_bytes"] = records[i].budget

(* The fill is the prompt and nothing else, the warm-up and the steady      *)
(* state are the decodes, all of them, in both kinds of driver; and the     *)
(* count from the log is the count of the file (stream.py:126-134, 247).    *)
RegimesAreThePasses ==
  \A i \in DOMAIN records :
    LET r == records[i].regimes IN
      r # NoRegimes =>
        /\ r.fill = "prompt" /\ Range(r.warmup) \cup Range(r.steady) = {"decode"}
        /\ Len(r.warmup) + Len(r.steady) = records[i].decodes
        /\ records[i].decodes = records[i].passes - 1
        /\ r.steady # <<>> => Len(r.warmup) = WarmupDecodes

(* A gate that passes did run with its checks on, to the end of a driver    *)
(* that compared something and found no difference (stream.py:534-555).     *)
GateIsEvidence ==
  lcommand = "gate" /\ exitStatus = 0 =>
    LET r == records[1] IN
      /\ \A s \in Checks : s \in DOMAIN r.env /\ r.env[s] = "row"
      /\ r.passes = RunPasses /\ r.exit = 0
      /\ r.counters.verify_ok > 0 /\ r.counters.id_ok > 0
      /\ r.counters.verify_fail + r.counters.id_fail + r.counters.fallbacks = 0

(* The document is replaced by one with all its rows, in order, or not at   *)
(* all (cli.py:262-275).                                                    *)
DocumentIsWhole ==
  /\ document # OldDocument =>
       /\ lcommand = "matrix" /\ exitStatus = 0 /\ Len(document.rows) = Len(LaunchMatrix)
       /\ \A i \in DOMAIN document.rows : document.rows[i].row = i
  /\ lcommand = "matrix" /\ exitStatus = 0 => document.rows = records

(* The document's fingerprint is of the driver and the runtime its rows ran *)
(* with.  It is not, when the shell names them (stream.py:493): no run      *)
(* checks it.                                                               *)
DocumentNamesItsFiles ==
  \A i \in DOMAIN document.rows :
    document.names = [driver |-> document.rows[i].driver, runtime |-> document.rows[i].runtime]

(* What a launch reports is what it ran.                                    *)
LaunchIsRecorded ==
  /\ LaunchTypeOK /\ SettingsAreTheRows /\ BudgetIsTheRuns /\ RegimesAreThePasses
  /\ GateIsEvidence /\ DocumentIsWhole
=============================================================================
