------------------------------ MODULE Harness ------------------------------
(* The measuring harness: tools/phase0_measure.py and sabah/tools/stream.py *)
(* run the driver in the directory of a label, and the acceptance tools     *)
(* judge what it left there.  The directory outlives the runs: a file is    *)
(* modelled by the number of the run that wrote it.                         *)
(*                                                                          *)
(* The driver writes its files one after the other and may die at any       *)
(* point, inside a file too; so may phase0_measure, a process of its own    *)
(* whose exit code only seg_verify looks at.  What a run should remove of   *)
(* the one before may stay: a removal that fails is passed over.            *)
EXTENDS Naturals, Sequences, FiniteSets

CONSTANT MaxRuns                      \* bound: runs of the label

ASSUME HarnessAssumption == MaxRuns \in Nat

(* What finish_item writes, in its order; "prefill" stands for the chunk   *)
(* files of the drivers that time the prompt, written before the decodes.  *)
Written == <<"prompt_tokens", "prefill", "logits", "argmax", "fed", "step_ms", "run">>

RunFile == {Written[i] : i \in DOMAIN Written}

(* A run with a prompt file goes through a manifest: its files land in      *)
(* <label>/main/, which the run before it may have left.                    *)
Acceptor == {"p1_accept", "b_verify", "p2_ub", "p3_warmup"}
Tool     == Acceptor \cup {"seg_verify file", "seg_verify literal", "slab_sweep", "gate"}

VARIABLES
  tool,        \* the tool that runs the label
  nrun,        \* number of the run
  hpc,         \* where the run is
  files,       \* file -> number of the run that wrote it, 0: no such file
  cutShort,    \* files cut short by the end of their driver
  stayed,      \* files a removal failed on, until they are written anew
  at,          \* files the driver has written or skipped
  recorded,    \* measurement.json: the run of each number in it
  exitCode,    \* of the process the tool waits for
  judged       \* what the tool made of the run

harnessVars == <<tool, nrun, hpc, files, cutShort, stayed, at, recorded, exitCode, judged>>

NoRecord == [run |-> 0, steps |-> 0, prompt |-> 0, prefill |-> 0, old |-> {}, whole |-> FALSE]
Nothing  == [verdict |-> "none", runs |-> {}, whole |-> FALSE]

Manifest == tool \in Acceptor \cup {"seg_verify file"}

There(f) == files[f] # 0

(* A file as long as its run meant it to be.                               *)
FullSize(f) == There(f) /\ f \notin cutShort

(* seg_verify takes a fed.i32 of the length asked for as a run done before. *)
Cached == tool \in {"seg_verify file", "seg_verify literal"} /\ FullSize("fed")

LabelFiles == <<files, cutShort, stayed>>

HarnessBegin ==
  /\ hpc = "idle" /\ nrun < MaxRuns /\ ~Cached
  /\ nrun' = nrun + 1 /\ hpc' = "prepare" /\ judged' = Nothing /\ exitCode' = 0
  /\ UNCHANGED <<tool, LabelFiles, at, recorded>>

Judge(runs, whole) ==
  judged' = [verdict |-> "taken", runs |-> runs, whole |-> whole]

Reject == judged' = [Nothing EXCEPT !.verdict = "failed"]

Artifacts == {"fed", "argmax", "logits"}

ArtifactRuns    == {files[f] : f \in Artifacts}
ArtifactsWhole  == \A f \in Artifacts : FullSize(f)

(* Only fed.i32 is looked at; the other two may be missing, and then their  *)
(* digest is None.                                                          *)
HarnessCached ==
  /\ hpc = "idle" /\ Cached /\ judged.verdict # "taken"
  /\ Judge(ArtifactRuns, ArtifactsWhole)
  /\ UNCHANGED <<tool, nrun, hpc, LabelFiles, at, recorded, exitCode>>

(* clean_run_dir removes RUN_OUTPUTS from the label's directory; a manifest *)
(* run removes the whole of main/.  Both come before the driver starts, and *)
(* both pass over a file that cannot be removed.                            *)
RunOutputs == RunFile \ {"prefill"}

CleanedTopOnly == IF Manifest THEN {} ELSE RunOutputs
Cleaned == IF Manifest THEN RunFile ELSE RunOutputs

Removes(gone) ==
  /\ files' = [f \in RunFile |-> IF f \in gone THEN 0 ELSE files[f]]
  /\ cutShort' = cutShort \ gone

Clean ==
  /\ hpc = "prepare"
  /\ \E locked \in SUBSET {f \in Cleaned : There(f)} :
       /\ Removes(Cleaned \ locked)
       /\ stayed' = (stayed \ Cleaned) \cup locked
  /\ hpc' = "driver" /\ at' = 0
  /\ UNCHANGED <<tool, nrun, recorded, exitCode, judged>>

(* The process dies between two removals, or before the first: a prompt     *)
(* file that cannot be read raises.                                         *)
DiesCleaning ==
  /\ hpc = "prepare"
  /\ \E gone \in SUBSET Cleaned : Removes(gone) /\ stayed' = stayed \ gone
  /\ hpc' = "exited" /\ exitCode' = 1
  /\ UNCHANGED <<tool, nrun, at, recorded, judged>>

WriteNext(cut) ==
  LET f == Written[at + 1] IN
    /\ files' = [files EXCEPT ![f] = nrun] /\ stayed' = stayed \ {f}
    /\ cutShort' = IF cut THEN cutShort \cup {f} ELSE cutShort \ {f}

(* An older driver writes no prefill files.                                *)
DriverWrites ==
  /\ hpc = "driver" /\ at < Len(Written)
  /\ \/ WriteNext(FALSE)
     \/ Written[at + 1] = "prefill" /\ UNCHANGED LabelFiles
  /\ at' = at + 1
  /\ UNCHANGED <<tool, nrun, hpc, recorded, exitCode, judged>>

(* What the record takes from the files: the step times with their regimes, *)
(* the prompt, the chunks; and from the log, the counters of its last lines. *)
StepsRead   == files["step_ms"]
PromptRead  == files["prompt_tokens"]
PrefillRead == files["prefill"]
LogIsWhole  == at = Len(Written)

(* It ends after its last file, or before, and then in the middle of one,   *)
(* or of none.                                                              *)
DriverEnds ==
  /\ hpc = "driver"
  /\ \/ LogIsWhole /\ exitCode' = 0 /\ UNCHANGED LabelFiles
     \/ exitCode' = 3 /\ UNCHANGED LabelFiles
     \/ exitCode' = 3 /\ at < Len(Written) /\ WriteNext(TRUE)
  /\ hpc' = IF tool = "gate" THEN "exited" ELSE "measure"
  /\ UNCHANGED <<tool, nrun, at, recorded, judged>>

(* measurement.json is written whatever the driver's exit code was, from   *)
(* the log and from the files that are there.  An invalid clock changes    *)
(* the exit code of a run that ended well or not.                          *)
Measure ==
  /\ hpc = "measure"
  /\ recorded' = [run |-> nrun, steps |-> StepsRead,
                  prompt |-> PromptRead, prefill |-> PrefillRead,
                  old |-> stayed, whole |-> exitCode = 0]
  /\ \/ UNCHANGED exitCode
     \/ tool \in {"seg_verify file", "seg_verify literal"} /\ exitCode' = 4
  /\ hpc' = "exited"
  /\ UNCHANGED <<tool, nrun, LabelFiles, at, judged>>

(* phase0_measure dies with the driver still there: its finally waits.     *)
DiesMeasuring ==
  /\ hpc = "measure" /\ hpc' = "exited" /\ exitCode' = 1
  /\ UNCHANGED <<tool, nrun, LabelFiles, at, recorded, judged>>

(* A tool that opens an artifact that is not there ends with the exception; *)
(* one that is cut short it reads as it is.                                 *)
TakeOrRaise(runs) ==
  IF \A f \in Artifacts : There(f) THEN Judge(runs, ArtifactsWhole) ELSE Reject

(* p1_accept looks for argmax.i32, and parses run.json; b_verify looks for  *)
(* logits.f32.                                                              *)
AcceptFiles ==
  \/ tool = "p1_accept"
     /\ IF There("argmax") /\ FullSize("run") THEN TakeOrRaise(ArtifactRuns) ELSE Reject
  \/ tool = "b_verify"
     /\ IF There("logits") THEN TakeOrRaise(ArtifactRuns) ELSE Reject

(* p2_ub and p3_warmup look for prefill_ms.f64 and read the record too.     *)
AcceptRows ==
  /\ tool \in {"p2_ub", "p3_warmup"}
  /\ IF There("prefill") /\ recorded.run # 0
     THEN TakeOrRaise(ArtifactRuns \cup {recorded.run}) ELSE Reject

ExitOk  == exitCode = 0

AcceptDone ==
  /\ tool \in {"seg_verify file", "seg_verify literal"}
  /\ IF ExitOk THEN TakeOrRaise(ArtifactRuns) ELSE Reject

AcceptRecord ==
  /\ tool = "slab_sweep"
  /\ IF recorded.run # 0 THEN Judge({recorded.run}, recorded.whole) ELSE Reject

(* gate_checks: the counters come from the log, which a driver that died    *)
(* may have written as far as its verify line; exit_code is a check too.    *)
DecodeFinished    == exitCode = 0

Gate ==
  /\ tool = "gate"
  /\ \/ DecodeFinished /\ Judge({nrun}, LogIsWhole)
     \/ Reject

HarnessJudge ==
  /\ hpc = "exited" /\ hpc' = "idle"
  /\ AcceptFiles \/ AcceptRows \/ AcceptDone \/ AcceptRecord \/ Gate
  /\ UNCHANGED <<tool, nrun, LabelFiles, at, recorded, exitCode>>

HarnessInit ==
  /\ tool \in Tool /\ nrun = 0 /\ hpc = "idle" /\ at = 0 /\ exitCode = 0
  /\ files = [f \in RunFile |-> 0] /\ cutShort = {} /\ stayed = {} /\ recorded = NoRecord /\ judged = Nothing

HarnessNext ==
  \/ HarnessBegin \/ HarnessCached \/ Clean \/ DiesCleaning \/ DriverWrites
  \/ DriverEnds \/ Measure \/ DiesMeasuring \/ HarnessJudge

HarnessSpec == HarnessInit /\ [][HarnessNext]_harnessVars
-----------------------------------------------------------------------------
(* The kind of value every variable of the harness holds.                   *)
HarnessTypeOK ==
  /\ tool \in Tool /\ nrun \in 0..MaxRuns
  /\ hpc \in {"idle", "prepare", "driver", "measure", "exited"}
  /\ files \in [RunFile -> 0..MaxRuns] /\ at \in 0..Len(Written)
  /\ cutShort \subseteq RunFile /\ stayed \subseteq RunFile
  /\ exitCode \in {0, 1, 3, 4} /\ recorded.run \in 0..MaxRuns
  /\ judged.verdict \in {"none", "taken", "failed"}

Taken(tools) == judged.verdict = "taken" /\ tool \in tools

NoneStayed == stayed \cap Artifacts = {}

(* The three artifacts a byte comparison hashes come from one run, however *)
(* many runs before it died half way in the same directory, unless one of  *)
(* them could not be removed: the removal before the driver starts has to  *)
(* be of everything the comparison reads.                                  *)
ArtifactsAreOneRun ==
  Taken({"p1_accept", "b_verify"}) /\ NoneStayed => Cardinality(judged.runs) = 1

(* Those that p1_accept takes are whole: it reads run.json, written last.   *)
AcceptedIsWhole == Taken({"p1_accept"}) /\ NoneStayed /\ "run" \notin stayed => judged.whole

(* seg_verify's reference is a run whose three artifacts are there, whole   *)
(* and its own, also when it finds them instead of making them, by the      *)
(* length of one: fed.i32 is written after the other two, and none begins   *)
(* to remove them while it is there (seg_verify.py:51).                     *)
ReferenceIsOneRun ==
  Taken({"seg_verify file", "seg_verify literal"}) /\ NoneStayed
    => judged.whole /\ 0 \notin judged.runs /\ Cardinality(judged.runs) = 1

(* What a tool takes is of the run it made, the record it reads included,   *)
(* if that run's process came to its end; slab_sweep and the acceptance     *)
(* tools do not look whether it did (slab_sweep.py:66, p2_ub.py:37).        *)
TakenIsThisRun == Taken(Tool) /\ exitCode # 1 /\ NoneStayed => judged.runs = {nrun}

(* The steps and the prompt in a record are those of the run it is of, or  *)
(* absent, never what an earlier configuration or a run that died left, if *)
(* that could be removed.                                                  *)
RecordIsItsRun ==
  /\ recorded.steps \in {0, recorded.run} \/ "step_ms" \in recorded.old
  /\ recorded.prompt \in {0, recorded.run} \/ "prompt_tokens" \in recorded.old

(* So are the prefill chunks, of a run with a prompt file: only there are   *)
(* they removed (phase0_measure.py:172-174, 307).                           *)
PrefillIsItsRun ==
  Manifest => recorded.prefill \in {0, recorded.run} \/ "prefill" \in recorded.old

(* The gate passes on the log of a driver that came to its end.            *)
GatePassIsWhole == Taken({"gate"}) => judged.whole

(* What a tool takes from a label's directory is of one run, a whole one    *)
(* where the tool says so (stream.py, phase0_measure.py and its readers).   *)
TakenIsOneRun ==
  /\ HarnessTypeOK
  /\ ArtifactsAreOneRun
  /\ AcceptedIsWhole
  /\ ReferenceIsOneRun
  /\ TakenIsThisRun
  /\ RecordIsItsRun
  /\ PrefillIsItsRun
  /\ GatePassIsWhole

(* Said and not so, in no run: "a file left by an earlier configuration or  *)
(* by a run that died before finishing must never be read back as this      *)
(* run's numbers" (stream.py:84-88).  Not of the prefill chunks of a        *)
(* literal prompt, which no list of outputs names, and not of a file that   *)
(* cannot be removed.                                                       *)
NothingIsReadBack ==
  {recorded.steps, recorded.prompt, recorded.prefill} \subseteq {0, recorded.run}

(* Expected and not so, in no run: what seg_verify rejected, for its clock  *)
(* or its exit code, it takes as cached the next time.                      *)
RejectedIsNotTaken == [][judged.verdict = "failed" => judged'.verdict # "taken"]_harnessVars
=============================================================================
