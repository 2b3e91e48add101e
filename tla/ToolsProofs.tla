---------------------------- MODULE ToolsProofs -----------------------------
(***************************************************************************)
(* Proofs about the tools that measure: the harness for any number of runs,*)
(* the hardware profile for every machine and any number of commands, the  *)
(* benchmarks for every number of sweep points and tokens, the validation  *)
(* for any number of sessions and prompts, the clock record for every      *)
(* length of run, the inspector for every GGUF set, a launch for every row.*)
(***************************************************************************)
EXTENDS Harness, Qualify, BenchRun, Validation, Clocks, Inspector, Launch,
        WellFoundedInduction, NaturalsInduction, SequenceTheorems, FiniteSetTheorems, TLAPS
-----------------------------------------------------------------------------
(* Harness.                                                                *)

Reference == {"seg_verify file", "seg_verify literal"}

HaType ==
  /\ tool \in Tool /\ nrun \in 0..MaxRuns
  /\ hpc \in {"idle", "prepare", "driver", "measure", "exited"}
  /\ hpc # "idle" => nrun # 0
  /\ files \in [RunFile -> 0..MaxRuns] /\ at \in 0..Len(Written)
  /\ cutShort \subseteq RunFile /\ stayed \subseteq RunFile
  /\ exitCode \in {0, 1, 3, 4} /\ recorded.run \in 0..MaxRuns
  /\ judged.verdict \in {"none", "taken", "failed"}

(* The outputs that are there are of one run, but those a removal failed   *)
(* on: a run removes all of them before its driver starts, and one that    *)
(* dies removing leaves fewer.                                             *)
OneRunInv ==
  \A f, g \in RunOutputs \ stayed : There(f) /\ There(g) => files[f] = files[g]

(* While the driver runs, what it has written so far, and nothing else.    *)
DriverInv ==
  hpc = "driver" =>
    \A i \in 1..7 : Written[i] \in RunOutputs =>
      IF i <= at
      THEN files[Written[i]] = nrun /\ Written[i] \notin stayed \cup cutShort
      ELSE files[Written[i]] = 0 \/ Written[i] \in stayed

(* From then on, what the run had to remove is gone or written anew.       *)
OwnInv ==
  /\ hpc \in {"driver", "measure"} \/ (hpc \in {"exited", "idle"} /\ exitCode # 1)
       => \A f \in Cleaned \ stayed : files[f] \in {0, nrun}
  /\ hpc \in {"exited", "idle"} /\ exitCode # 1 /\ tool # "gate" => recorded.run = nrun
  /\ hpc = "measure" => tool # "gate"

(* A driver that ended well left its files whole, and its log.             *)
ExitInv ==
  /\ hpc \in {"measure", "exited"} /\ exitCode = 0 => ArtifactsWhole
  /\ tool = "gate" /\ hpc = "exited" /\ exitCode = 0 => LogIsWhole

(* What was written before a whole run.json is whole.                      *)
RunInv ==
  FullSize("run") /\ "run" \notin stayed => \A f \in Artifacts \ stayed : f \notin cutShort

(* A reference that seems to be there is: fed.i32 is the last of the three,*)
(* and no run of the label begins, and removes, while it is there.         *)
ReferenceInv ==
  tool \in Reference =>
    /\ FullSize("fed") /\ NoneStayed => ArtifactsWhole
    /\ hpc = "prepare" => ~FullSize("fed")

JudgedInv ==
  /\ hpc # "idle" => judged.verdict # "taken"
  /\ ArtifactsAreOneRun /\ AcceptedIsWhole /\ ReferenceIsOneRun /\ TakenIsThisRun
  /\ RecordIsItsRun /\ PrefillIsItsRun /\ GatePassIsWhole

DiskInv == OneRunInv /\ DriverInv /\ OwnInv /\ ExitInv /\ RunInv /\ ReferenceInv

HaInv == HaType /\ DiskInv /\ JudgedInv

(* The driver's files and their order.                                     *)
LEMMA DriverFiles ==
  /\ Len(Written) = 7 /\ DOMAIN Written = 1..7
  /\ Written[1] = "prompt_tokens" /\ Written[2] = "prefill" /\ Written[3] = "logits"
  /\ Written[4] = "argmax" /\ Written[5] = "fed" /\ Written[6] = "step_ms" /\ Written[7] = "run"
  /\ RunFile = {"prompt_tokens", "prefill", "logits", "argmax", "fed", "step_ms", "run"}
  /\ RunOutputs = {"prompt_tokens", "logits", "argmax", "fed", "step_ms", "run"}
  /\ RunOutputs \subseteq Cleaned /\ Cleaned \subseteq RunFile
<1>1. /\ Len(Written) = 7 /\ DOMAIN Written = 1..7
      /\ Written[1] = "prompt_tokens" /\ Written[2] = "prefill" /\ Written[3] = "logits"
      /\ Written[4] = "argmax" /\ Written[5] = "fed" /\ Written[6] = "step_ms"
      /\ Written[7] = "run"
  BY DEF Written
<1>2. 1..7 = {1, 2, 3, 4, 5, 6, 7}
  OBVIOUS
<1>3. RunFile = {"prompt_tokens", "prefill", "logits", "argmax", "fed", "step_ms", "run"}
  BY <1>1, <1>2 DEF RunFile
<1>4. RunOutputs = {"prompt_tokens", "logits", "argmax", "fed", "step_ms", "run"}
  BY <1>3 DEF RunOutputs
<1>5. RunOutputs \subseteq Cleaned /\ Cleaned \subseteq RunFile
  BY DEF RunOutputs, Cleaned
<1>6. QED
  BY <1>1, <1>3, <1>4, <1>5

(* Artifacts that are all there, none of them stayed, are one run's.       *)
LEMMA ArtifactsOfOneRun ==
  ASSUME HaType, OneRunInv, NoneStayed, \A f \in Artifacts : There(f)
  PROVE  /\ Cardinality(ArtifactRuns) = 1 /\ 0 \notin ArtifactRuns
         /\ (\A f \in Cleaned \ stayed : files[f] \in {0, nrun}) => ArtifactRuns = {nrun}
<1>1. Artifacts \subseteq RunOutputs \ stayed /\ "fed" \in Artifacts
  BY DriverFiles DEF Artifacts, NoneStayed
<1>2. \A f \in Artifacts : files[f] = files["fed"] /\ files[f] # 0
  BY <1>1 DEF OneRunInv, There
<1>3. ArtifactRuns = {files["fed"]}
  BY <1>1, <1>2 DEF ArtifactRuns
<1>4. (\A f \in Cleaned \ stayed : files[f] \in {0, nrun}) => files["fed"] = nrun
  BY <1>1, <1>2, DriverFiles
<1>5. QED
  BY <1>1, <1>2, <1>3, <1>4, FS_Singleton

(* Before the first run there are no files.                                *)
LEMMA HaStarts == HarnessAssumption /\ HarnessInit => HaInv
<1> SUFFICES ASSUME HarnessAssumption, HarnessInit PROVE HaInv
  OBVIOUS
<1> USE DEF HarnessInit
<1>1. HaType
  BY DriverFiles DEF HaType, HarnessAssumption, NoRecord, Nothing
<1>2. \A f \in RunFile : files[f] = 0
  BY DriverFiles
<1>3. OneRunInv /\ DriverInv /\ ExitInv /\ RunInv /\ ReferenceInv
  BY <1>2, DriverFiles DEF OneRunInv, There, FullSize, DriverInv, ExitInv, RunInv, ReferenceInv
<1>4. OwnInv
  BY <1>2, DriverFiles DEF OwnInv, NoRecord
<1>5. JudgedInv
  BY DEF JudgedInv, ArtifactsAreOneRun, AcceptedIsWhole, ReferenceIsOneRun, TakenIsThisRun,
         RecordIsItsRun, PrefillIsItsRun, GatePassIsWhole, Taken, NoRecord, Nothing
<1>6. QED
  BY <1>1, <1>3, <1>4, <1>5 DEF HaInv, DiskInv

(* A step that takes nothing for a result and records nothing.             *)
LEMMA NothingIsJudged ==
  ASSUME HaInv, judged'.verdict # "taken", recorded' = recorded, tool' = tool
  PROVE  JudgedInv'
BY DEF HaInv, JudgedInv, ArtifactsAreOneRun, AcceptedIsWhole, ReferenceIsOneRun, TakenIsThisRun,
       RecordIsItsRun, PrefillIsItsRun, GatePassIsWhole, Taken, Manifest

(* A step that leaves the files alone.                                     *)
LEMMA DiskStays ==
  ASSUME HaInv, UNCHANGED <<files, cutShort, stayed>>, tool' = tool,
         hpc' = "prepare" => ~FullSize("fed") \/ tool \notin Reference
  PROVE  OneRunInv' /\ RunInv' /\ ReferenceInv'
BY DEF HaInv, DiskInv, OneRunInv, RunInv, ReferenceInv, There, FullSize, NoneStayed, ArtifactsWhole

(* The driver writes its next file, whole or not.                          *)
LEMMA NextFile ==
  ASSUME HaInv, HarnessAssumption, hpc = "driver", at < Len(Written), NEW cut \in BOOLEAN,
         WriteNext(cut), tool' = tool, nrun' = nrun
  PROVE  /\ files' \in [RunFile -> 0..MaxRuns] /\ cutShort' \subseteq RunFile /\ stayed' \subseteq RunFile
         /\ \A i \in 1..7 : Written[i] \in RunOutputs =>
              /\ i <= at + 1 => files'[Written[i]] = nrun /\ Written[i] \notin stayed'
              /\ i <= at => Written[i] \notin cutShort'
              /\ i = at + 1 => (Written[i] \in cutShort' <=> cut)
              /\ i > at + 1 => files'[Written[i]] = 0 \/ Written[i] \in stayed'
         /\ \A f \in Cleaned \ stayed' : files'[f] \in {0, nrun}
<1> USE DEF HaInv, DiskInv
<1>1. at \in 0..6 /\ at + 1 \in 1..7
  BY DriverFiles DEF HaType
<1>2. PICK j \in 1..7 : j = at + 1
  BY <1>1
<1>3. PICK w \in RunFile : w = Written[j]
  BY <1>2, DriverFiles DEF RunFile
<1>4. /\ files' = [files EXCEPT ![w] = nrun] /\ stayed' = stayed \ {w}
      /\ cutShort' = IF cut THEN cutShort \cup {w} ELSE cutShort \ {w}
  BY <1>2, <1>3 DEF WriteNext
<1>5. \A i \in 1..7 : Written[i] = w <=> i = j
  BY <1>3, DriverFiles
<1>6. files'[w] = nrun /\ (\A f \in RunFile \ {w} : files'[f] = files[f])
  BY <1>4 DEF HaType
<1>7. files' \in [RunFile -> 0..MaxRuns] /\ cutShort' \subseteq RunFile /\ stayed' \subseteq RunFile
  BY <1>4 DEF HaType
<1>8. ASSUME NEW i \in 1..7, Written[i] \in RunOutputs
      PROVE  /\ i <= at + 1 => files'[Written[i]] = nrun /\ Written[i] \notin stayed'
             /\ i <= at => Written[i] \notin cutShort'
             /\ i = at + 1 => (Written[i] \in cutShort' <=> cut)
             /\ i > at + 1 => files'[Written[i]] = 0 \/ Written[i] \in stayed'
  <2>1. CASE i = j
    BY <1>1, <1>2, <1>3, <1>4, <1>6, <2>1
  <2>2. CASE i # j
    <3>1. Written[i] # w /\ Written[i] \in RunFile
      BY <1>5, <1>8, <2>2, DriverFiles
    <3>2. IF i <= at
          THEN files[Written[i]] = nrun /\ Written[i] \notin stayed \cup cutShort
          ELSE files[Written[i]] = 0 \/ Written[i] \in stayed
      BY <1>8 DEF DriverInv
    <3>3. files'[Written[i]] = files[Written[i]]
      BY <1>6, <3>1
    <3>4. /\ Written[i] \in stayed' <=> Written[i] \in stayed
          /\ Written[i] \in cutShort' <=> Written[i] \in cutShort
      BY <1>4, <3>1
    <3>5. i <= at + 1 => i <= at
      BY <1>1, <1>2, <2>2
    <3>6. i <= at => i # at + 1 /\ ~ (i > at + 1)
      BY <1>1
    <3>7. i # at + 1
      BY <1>2, <2>2
    <3>8. CASE i <= at
      BY <3>2, <3>3, <3>4, <3>6, <3>8
    <3>9. CASE ~ (i <= at)
      BY <3>2, <3>3, <3>4, <3>5, <3>7, <3>9
    <3>10. QED
      BY <3>8, <3>9
  <2>3. QED
    BY <2>1, <2>2
<1>9. \A f \in Cleaned \ stayed' : files'[f] \in {0, nrun}
  <2>1. \A f \in Cleaned \ stayed : files[f] \in {0, nrun}
    BY DEF OwnInv
  <2>2. QED
    BY <1>4, <1>6, <2>1, DriverFiles
<1>10. QED
  BY <1>7, <1>8, <1>9

(* The first n files are written, the first k of them whole, and n is k or  *)
(* its successor, cut short.                                                *)
SoFar(n, k, fs, old, cuts, r) ==
  /\ \A i \in 1..7 : Written[i] \in RunOutputs =>
       /\ i <= n => fs[Written[i]] = r /\ Written[i] \notin old
       /\ i <= k => Written[i] \notin cuts
       /\ i > n => fs[Written[i]] = 0 \/ Written[i] \in old
  /\ k = n \/ (k + 1 = n /\ (Written[n] \in RunOutputs => Written[n] \in cuts))

(* What there is then, of what no removal failed on.                       *)
LEMMA WrittenSoFar ==
  ASSUME NEW n \in 0..7, NEW fs, NEW old, NEW cuts, NEW r, r # 0, NEW k \in 0..n,
         SoFar(n, k, fs, old, cuts, r)
  PROVE  /\ \A f, g \in RunOutputs \ old : fs[f] # 0 /\ fs[g] # 0 => fs[f] = fs[g]
         /\ fs["run"] # 0 /\ "run" \notin cuts \cup old => \A f \in Artifacts \ old : f \notin cuts
         /\ fs["fed"] # 0 /\ "fed" \notin cuts \cup old =>
              \A f \in Artifacts : fs[f] # 0 /\ f \notin cuts
<1>1. /\ 1 <= n => fs["prompt_tokens"] = r
      /\ 3 <= n => fs["logits"] = r
      /\ 4 <= n => fs["argmax"] = r
      /\ 5 <= n => fs["fed"] = r
      /\ 6 <= n => fs["step_ms"] = r
      /\ 7 <= n => fs["run"] = r
  BY DriverFiles DEF SoFar
<1>2. /\ 1 > n => fs["prompt_tokens"] = 0 \/ "prompt_tokens" \in old
      /\ 3 > n => fs["logits"] = 0 \/ "logits" \in old
      /\ 4 > n => fs["argmax"] = 0 \/ "argmax" \in old
      /\ 5 > n => fs["fed"] = 0 \/ "fed" \in old
      /\ 6 > n => fs["step_ms"] = 0 \/ "step_ms" \in old
      /\ 7 > n => fs["run"] = 0 \/ "run" \in old
  BY DriverFiles DEF SoFar
<1>3. /\ 3 <= k => "logits" \notin cuts
      /\ 4 <= k => "argmax" \notin cuts
      /\ 5 <= k => "fed" \notin cuts
      /\ 7 <= k => "run" \notin cuts
  BY DriverFiles DEF SoFar
<1>4. /\ n = 5 /\ k = 4 => "fed" \in cuts
      /\ n = 7 /\ k = 6 => "run" \in cuts
  BY DriverFiles DEF SoFar
<1>5. \A f \in RunOutputs \ old : fs[f] \in {0, r}
  BY <1>1, <1>2, DriverFiles
<1>o. k = n \/ k + 1 = n
  BY DEF SoFar
<1>6. fs["run"] # 0 /\ "run" \notin cuts \cup old => k = 7
  BY <1>2, <1>4, <1>o
<1>7. fs["fed"] # 0 /\ "fed" \notin cuts \cup old => 5 <= k /\ 5 <= n
  BY <1>2, <1>4, <1>o
<1>8. Artifacts = {"fed", "argmax", "logits"}
  BY DEF Artifacts
<1>9. k = 7 => \A f \in Artifacts \ old : f \notin cuts
  BY <1>3, <1>8
<1>10. 5 <= k /\ 5 <= n => \A f \in Artifacts : fs[f] # 0 /\ f \notin cuts
  BY <1>1, <1>3, <1>8
<1>11. QED
  BY <1>5, <1>6, <1>7, <1>9, <1>10

(* The next file keeps what is said of the files.                          *)
LEMMA NextFileKeeps ==
  ASSUME HaInv, HarnessAssumption, hpc = "driver", at < Len(Written), NEW cut \in BOOLEAN,
         WriteNext(cut), tool' = tool, nrun' = nrun, hpc' # "prepare"
  PROVE  OneRunInv' /\ RunInv' /\ ReferenceInv'
<1>1. at \in 0..6 /\ nrun # 0
  BY DriverFiles DEF HaInv, HaType
<1>2. PICK n \in 1..7 : n = at + 1
  BY <1>1
<1>3. PICK k \in 0..n : k = IF cut THEN at ELSE at + 1
  BY <1>1, <1>2
<1>4. \A i \in 1..7 : Written[i] \in RunOutputs =>
        /\ i <= n => files'[Written[i]] = nrun /\ Written[i] \notin stayed'
        /\ i <= k => Written[i] \notin cutShort'
        /\ i > n => files'[Written[i]] = 0 \/ Written[i] \in stayed'
  <2>1. \A i \in 1..7 : Written[i] \in RunOutputs =>
          /\ i <= at + 1 => files'[Written[i]] = nrun /\ Written[i] \notin stayed'
          /\ i <= at => Written[i] \notin cutShort'
          /\ i = at + 1 => (Written[i] \in cutShort' <=> cut)
          /\ i > at + 1 => files'[Written[i]] = 0 \/ Written[i] \in stayed'
    BY NextFile
  <2>2. ASSUME NEW i \in 1..7 PROVE i <= k => i <= at \/ (i = at + 1 /\ ~cut)
    BY <1>1, <1>2, <1>3
  <2>3. QED
    BY <1>2, <2>1, <2>2
<1>5. k = n \/ (k + 1 = n /\ (Written[n] \in RunOutputs => Written[n] \in cutShort'))
  <2>1. n \in 1..7 /\ n = at + 1 => (Written[n] \in RunOutputs => (Written[n] \in cutShort' <=> cut))
    BY NextFile
  <2>2. CASE cut
    BY <1>1, <1>2, <1>3, <2>1, <2>2
  <2>3. CASE ~cut
    BY <1>2, <1>3, <2>3
  <2>4. QED
    BY <2>2, <2>3
<1>6. PICK fs : fs = files'
  OBVIOUS
<1>7. PICK old : old = stayed'
  OBVIOUS
<1>8. PICK cuts : cuts = cutShort'
  OBVIOUS
<1>9. /\ \A f, g \in RunOutputs \ old : fs[f] # 0 /\ fs[g] # 0 => fs[f] = fs[g]
      /\ fs["run"] # 0 /\ "run" \notin cuts \cup old => \A f \in Artifacts \ old : f \notin cuts
      /\ fs["fed"] # 0 /\ "fed" \notin cuts \cup old =>
           \A f \in Artifacts : fs[f] # 0 /\ f \notin cuts
  <2>1. \A i \in 1..7 : Written[i] \in RunOutputs =>
          /\ i <= n => fs[Written[i]] = nrun /\ Written[i] \notin old
          /\ i <= k => Written[i] \notin cuts
          /\ i > n => fs[Written[i]] = 0 \/ Written[i] \in old
    BY <1>4, <1>6, <1>7, <1>8
  <2>2. k = n \/ (k + 1 = n /\ (Written[n] \in RunOutputs => Written[n] \in cuts))
    BY <1>5, <1>8
  <2>3. SoFar(n, k, fs, old, cuts, nrun)
    BY <2>1, <2>2 DEF SoFar
  <2>4. n \in 0..7 /\ nrun # 0
    BY <1>1
  <2>5. QED
    BY <2>3, <2>4, WrittenSoFar
<1>10. OneRunInv' /\ RunInv'
  BY <1>6, <1>7, <1>8, <1>9 DEF OneRunInv, RunInv, There, FullSize
<1>11. ReferenceInv'
  BY <1>6, <1>7, <1>8, <1>9
     DEF ReferenceInv, There, FullSize, NoneStayed, ArtifactsWhole, Artifacts
<1>12. QED
  BY <1>10, <1>11

(* Removing keeps it too.                                                  *)
LEMMA RemovingKeeps ==
  ASSUME HaInv, NEW gone \in SUBSET RunFile, Removes(gone), stayed \ gone \subseteq stayed',
         tool' = tool, hpc = "prepare"
  PROVE  OneRunInv' /\ RunInv' /\ ReferenceInv'
<1>1. \A f \in RunFile : /\ f \in gone => files'[f] = 0
                         /\ f \notin gone => files'[f] = files[f]
                         /\ f \in cutShort' <=> f \in cutShort /\ f \notin gone
  BY DEF Removes
<1>2. RunOutputs \subseteq RunFile /\ Artifacts \subseteq RunOutputs /\ "run" \in RunFile
      /\ "fed" \in Artifacts
  BY DriverFiles DEF Artifacts
<1>3. \A f \in RunFile \ stayed' : files'[f] # 0 => files'[f] = files[f] /\ f \notin stayed /\ f \notin gone
  BY <1>1
<1>4. OneRunInv'
  BY <1>2, <1>3 DEF HaInv, DiskInv, OneRunInv, There
<1>5. RunInv'
  <2>1. SUFFICES ASSUME FullSize("run")', "run" \notin stayed', NEW f \in Artifacts \ stayed'
                 PROVE  f \notin cutShort'
    BY DEF RunInv
  <2>2. FullSize("run") /\ "run" \notin stayed
    BY <1>1, <1>2, <1>3, <2>1 DEF FullSize, There
  <2>3. f \notin stayed => f \notin cutShort
    BY <2>1, <2>2 DEF HaInv, DiskInv, RunInv
  <2>4. QED
    BY <1>1, <1>2, <2>1, <2>3
<1>6. ReferenceInv'
  <2>1. ASSUME tool \in Reference PROVE ~FullSize("fed")'
    BY <1>1, <1>2, <2>1 DEF HaInv, DiskInv, ReferenceInv, FullSize, There
  <2>2. QED
    BY <2>1 DEF ReferenceInv
<1>7. QED
  BY <1>4, <1>5, <1>6

(* What is judged of the run that ended, or of the one that is there.      *)
LEMMA JudgedOnes ==
  ASSUME HaInv, hpc \in {"idle", "exited"}, UNCHANGED <<tool, nrun, LabelFiles, recorded, exitCode>>,
         NEW whole \in BOOLEAN, Judge(ArtifactRuns, whole),
         whole <=> ArtifactsWhole,
         tool \in Reference => ArtifactsWhole \/ ~NoneStayed,
         \A f \in Artifacts : There(f) \/ ~NoneStayed,
         tool = "p1_accept" => FullSize("run") /\ \A f \in Artifacts : There(f),
         tool \notin {"gate", "slab_sweep", "p2_ub", "p3_warmup"}, hpc' = "idle"
  PROVE  JudgedInv'
<1> USE DEF HaInv, DiskInv, LabelFiles
<1>1. judged' = [verdict |-> "taken", runs |-> ArtifactRuns, whole |-> whole]
  BY DEF Judge
<1>2. judged'.verdict = "taken" /\ judged'.runs = ArtifactRuns /\ judged'.whole = whole
  BY <1>1
<1>3. NoneStayed => /\ Cardinality(ArtifactRuns) = 1 /\ 0 \notin ArtifactRuns
                    /\ exitCode # 1 => ArtifactRuns = {nrun}
  BY ArtifactsOfOneRun DEF OwnInv
<1>4. NoneStayed' <=> NoneStayed
  BY DEF NoneStayed
<1>5. tool = "p1_accept" /\ NoneStayed /\ "run" \notin stayed => ArtifactsWhole
  BY DEF RunInv, ArtifactsWhole, FullSize, NoneStayed
<1>6. RecordIsItsRun' /\ PrefillIsItsRun'
  BY DEF JudgedInv, RecordIsItsRun, PrefillIsItsRun, Manifest
<1>7. ArtifactsAreOneRun' /\ AcceptedIsWhole' /\ TakenIsThisRun' /\ GatePassIsWhole'
  BY <1>2, <1>3, <1>4, <1>5 DEF ArtifactsAreOneRun, AcceptedIsWhole, TakenIsThisRun, GatePassIsWhole, Taken
<1>8. ReferenceIsOneRun'
  BY <1>2, <1>3, <1>4 DEF ReferenceIsOneRun, Taken, Reference
<1>9. QED
  BY <1>6, <1>7, <1>8 DEF JudgedInv

(* The same of a tool that takes a record, or the log, too.                *)
LEMMA JudgedRecord ==
  ASSUME HaInv, UNCHANGED <<tool, nrun, LabelFiles, recorded, exitCode>>,
         NEW runs, NEW whole \in BOOLEAN, Judge(runs, whole), hpc' = "idle",
         tool \in {"gate", "slab_sweep", "p2_ub", "p3_warmup"},
         tool = "gate" => whole,
         exitCode # 1 /\ NoneStayed => runs = {nrun}
  PROVE  JudgedInv'
<1> USE DEF HaInv, LabelFiles
<1>1. judged'.verdict = "taken" /\ judged'.runs = runs /\ judged'.whole = whole
  BY DEF Judge
<1>2. NoneStayed' <=> NoneStayed
  BY DEF NoneStayed
<1>3. RecordIsItsRun' /\ PrefillIsItsRun'
  BY DEF JudgedInv, RecordIsItsRun, PrefillIsItsRun, Manifest
<1>4. QED
  BY <1>1, <1>2, <1>3 DEF JudgedInv, ArtifactsAreOneRun, AcceptedIsWhole, ReferenceIsOneRun,
     TakenIsThisRun, GatePassIsWhole, Taken

(* Every step of a run, of its driver and of what judges it.               *)
LEMMA HaStep ==
  ASSUME HarnessAssumption, HaInv, [HarnessNext]_harnessVars
  PROVE  HaInv'
<1>i. HaType /\ OneRunInv /\ DriverInv /\ OwnInv /\ ExitInv /\ RunInv /\ ReferenceInv /\ JudgedInv
  BY DEF HaInv, DiskInv
<1>1. CASE HarnessBegin
  <2> USE <1>1 DEF HarnessBegin, LabelFiles
  <2>1. HaType'
    BY <1>i DEF HaType, HarnessAssumption, Nothing
  <2>2. OneRunInv' /\ RunInv' /\ ReferenceInv'
    BY <1>i, DiskStays DEF Cached, Reference
  <2>3. DriverInv' /\ OwnInv' /\ ExitInv'
    BY DEF DriverInv, OwnInv, ExitInv
  <2>4. JudgedInv'
    BY NothingIsJudged DEF Nothing
  <2>5. QED
    BY <2>1, <2>2, <2>3, <2>4 DEF HaInv, DiskInv
<1>2. CASE HarnessCached
  <2> USE <1>2 DEF HarnessCached, LabelFiles
  <2>1. HaType'
    BY <1>i DEF HaType, Judge
  <2>2. OneRunInv' /\ RunInv' /\ ReferenceInv'
    BY DiskStays
  <2>3. DriverInv' /\ OwnInv' /\ ExitInv'
    BY <1>i DEF DriverInv, OwnInv, ExitInv, Cleaned, Manifest, CleanedTopOnly
  <2>4. tool \in Reference /\ (ArtifactsWhole \/ ~NoneStayed) /\ hpc' = "idle"
    BY <1>i DEF Cached, Reference, ReferenceInv
  <2>5. \A f \in Artifacts : There(f) \/ ~NoneStayed
    BY <2>4 DEF ArtifactsWhole, FullSize
  <2>6. PICK w \in BOOLEAN : w <=> ArtifactsWhole
    OBVIOUS
  <2>7. ArtifactsWhole \in BOOLEAN
    BY DEF ArtifactsWhole
  <2>8. JudgedInv'
    BY <2>4, <2>5, <2>7, JudgedOnes DEF Reference
  <2>9. QED
    BY <2>1, <2>2, <2>3, <2>8 DEF HaInv, DiskInv
<1>3. CASE Clean
  <2> USE <1>3 DEF Clean
  <2>1. PICK locked \in SUBSET {f \in Cleaned : There(f)} :
          Removes(Cleaned \ locked) /\ stayed' = (stayed \ Cleaned) \cup locked
    OBVIOUS
  <2>2. /\ \A f \in Cleaned \ stayed' : files'[f] = 0
        /\ files' \in [RunFile -> 0..MaxRuns] /\ cutShort' \subseteq RunFile
        /\ stayed' \subseteq RunFile
    BY <1>i, <2>1, DriverFiles DEF Removes, HaType, HarnessAssumption
  <2>3. HaType'
    BY <1>i, <2>2, DriverFiles DEF HaType
  <2>4. OneRunInv' /\ RunInv' /\ ReferenceInv'
    <3>1. PICK gone \in SUBSET RunFile : gone = Cleaned \ locked
      BY DriverFiles
    <3>2. \A f \in RunOutputs \ stayed' : files'[f] = 0
      BY <2>2, DriverFiles
    <3>3. OneRunInv' /\ RunInv'
      BY <3>2, DriverFiles DEF OneRunInv, RunInv, There, FullSize
    <3>4. ReferenceInv'
      BY <3>2, DriverFiles DEF ReferenceInv, There, FullSize, NoneStayed, Artifacts
    <3>5. QED
      BY <3>3, <3>4
  <2>5. DriverInv'
    BY <2>2, DriverFiles DEF DriverInv
  <2>6. OwnInv' /\ ExitInv'
    <3>1. Cleaned' = Cleaned
      BY DEF Cleaned, Manifest
    <3>2. QED
      BY <2>2, <3>1 DEF OwnInv, ExitInv
  <2>7. JudgedInv'
    BY <1>i, NothingIsJudged DEF JudgedInv
  <2>8. QED
    BY <2>3, <2>4, <2>5, <2>6, <2>7 DEF HaInv, DiskInv
<1>4. CASE DiesCleaning
  <2> USE <1>4 DEF DiesCleaning
  <2>1. PICK gone \in SUBSET Cleaned : Removes(gone) /\ stayed' = stayed \ gone
    OBVIOUS
  <2>2. gone \in SUBSET RunFile
    BY DriverFiles
  <2>3. HaType'
    BY <1>i, <2>1, <2>2 DEF HaType, HarnessAssumption, Removes
  <2>4. OneRunInv' /\ RunInv' /\ ReferenceInv'
    BY <2>1, <2>2, RemovingKeeps
  <2>5. DriverInv' /\ OwnInv' /\ ExitInv'
    BY DEF DriverInv, OwnInv, ExitInv
  <2>6. JudgedInv'
    BY <1>i, NothingIsJudged DEF JudgedInv
  <2>7. QED
    BY <2>3, <2>4, <2>5, <2>6 DEF HaInv, DiskInv
<1>5. CASE DriverWrites
  <2> USE <1>5 DEF DriverWrites
  <2>1. at \in 0..6 /\ at' = at + 1
    BY <1>i, DriverFiles DEF HaType
  <2>f. Cleaned' = Cleaned
    BY DEF Cleaned, Manifest
  <2>2. CASE WriteNext(FALSE)
    <3>1. /\ files' \in [RunFile -> 0..MaxRuns] /\ cutShort' \subseteq RunFile /\ stayed' \subseteq RunFile
          /\ \A i \in 1..7 : Written[i] \in RunOutputs =>
               /\ i <= at + 1 => files'[Written[i]] = nrun /\ Written[i] \notin stayed'
               /\ i <= at => Written[i] \notin cutShort'
               /\ i = at + 1 => (Written[i] \in cutShort' <=> FALSE)
               /\ i > at + 1 => files'[Written[i]] = 0 \/ Written[i] \in stayed'
          /\ \A f \in Cleaned \ stayed' : files'[f] \in {0, nrun}
      BY <2>2, NextFile
    <3>2. HaType'
      BY <1>i, <2>1, <3>1, DriverFiles DEF HaType
    <3>3. DriverInv'
      <4>1. ASSUME NEW i \in 1..7 PROVE i <= at + 1 <=> i <= at \/ i = at + 1
        BY <2>1
      <4>2. ASSUME NEW i \in 1..7 PROVE ~ (i <= at + 1) => i > at + 1
        BY <2>1
      <4>3. QED
        BY <2>1, <3>1, <4>1, <4>2 DEF DriverInv
    <3>4. OwnInv'
      BY <2>f, <3>1 DEF OwnInv
    <3>5. OneRunInv' /\ RunInv' /\ ReferenceInv'
      BY <2>2, NextFileKeeps
    <3>6. QED
      BY <1>i, <3>2, <3>3, <3>4, <3>5, NothingIsJudged DEF HaInv, DiskInv, ExitInv, JudgedInv
  <2>3. CASE Written[at + 1] = "prefill" /\ UNCHANGED LabelFiles
    <3> USE <2>3 DEF LabelFiles
    <3>1. HaType'
      BY <1>i, <2>1, DriverFiles DEF HaType
    <3>2. DriverInv'
      <4>1. PICK j \in 1..7 : j = at + 1
        BY <2>1
      <4>2. Written[j] \notin RunOutputs
        BY <4>1, DriverFiles
      <4>3. ASSUME NEW i \in 1..7, Written[i] \in RunOutputs PROVE i <= at + 1 <=> i <= at
        BY <2>1, <4>1, <4>2, <4>3
      <4>4. QED
        BY <1>i, <2>1, <4>3 DEF DriverInv
    <3>3. OwnInv'
      BY <1>i, <2>f DEF OwnInv
    <3>4. OneRunInv' /\ RunInv' /\ ReferenceInv'
      BY DiskStays
    <3>5. QED
      BY <1>i, <3>1, <3>2, <3>3, <3>4, NothingIsJudged DEF HaInv, DiskInv, ExitInv, JudgedInv
  <2>4. QED
    BY <2>2, <2>3
<1>6. CASE DriverEnds
  <2> USE <1>6 DEF DriverEnds
  <2>f. Cleaned' = Cleaned
    BY DEF Cleaned, Manifest
  <2>e. hpc' = IF tool = "gate" THEN "exited" ELSE "measure"
    OBVIOUS
  <2>o. (\A f \in Cleaned \ stayed' : files'[f] \in {0, nrun}) => OwnInv'
    <3>1. hpc' = "exited" => tool = "gate"
      BY <2>e
    <3>2. hpc' = "measure" => tool # "gate"
      BY <2>e
    <3>3. QED
      BY <2>e, <2>f, <3>1, <3>2 DEF OwnInv
  <2>1. CASE UNCHANGED LabelFiles
    <3> USE <2>1 DEF LabelFiles
    <3>1. HaType'
      BY <1>i DEF HaType
    <3>2. OneRunInv' /\ RunInv' /\ ReferenceInv'
      BY DiskStays
    <3>3. DriverInv' /\ OwnInv'
      BY <1>i, <2>o DEF DriverInv, OwnInv
    <3>4. ExitInv'
      <4>1. CASE exitCode' = 0
        <5>1. LogIsWhole
          BY <4>1
        <5>2. /\ files["logits"] = nrun /\ files["argmax"] = nrun /\ files["fed"] = nrun
              /\ {"logits", "argmax", "fed"} \cap cutShort = {}
          BY <1>i, <5>1, DriverFiles DEF DriverInv, LogIsWhole
        <5>3. nrun # 0
          BY <1>i DEF HaType
        <5>4. ArtifactsWhole'
          BY <5>2, <5>3 DEF ArtifactsWhole, Artifacts, FullSize, There
        <5>5. QED
          BY <5>1, <5>4 DEF ExitInv, LogIsWhole
      <4>2. CASE exitCode' # 0
        BY <4>2 DEF ExitInv
      <4>3. QED
        BY <4>1, <4>2
    <3>5. QED
      BY <1>i, <3>1, <3>2, <3>3, <3>4, NothingIsJudged DEF HaInv, DiskInv, JudgedInv
  <2>2. CASE exitCode' = 3 /\ at < Len(Written) /\ WriteNext(TRUE)
    <3>1. /\ files' \in [RunFile -> 0..MaxRuns] /\ cutShort' \subseteq RunFile /\ stayed' \subseteq RunFile
          /\ \A f \in Cleaned \ stayed' : files'[f] \in {0, nrun}
      BY <2>2, NextFile
    <3>2. HaType'
      BY <1>i, <2>2, <3>1 DEF HaType
    <3>3. OneRunInv' /\ RunInv' /\ ReferenceInv'
      BY <2>2, NextFileKeeps
    <3>4. DriverInv' /\ OwnInv' /\ ExitInv'
      BY <2>2, <2>o, <3>1 DEF DriverInv, ExitInv
    <3>5. QED
      BY <1>i, <3>2, <3>3, <3>4, NothingIsJudged DEF HaInv, DiskInv, JudgedInv
  <2>3. QED
    BY <2>1, <2>2
<1>7. CASE Measure
  <2> USE <1>7 DEF Measure, LabelFiles
  <2>1. HaType'
    BY <1>i DEF HaType
  <2>2. OneRunInv' /\ RunInv' /\ ReferenceInv'
    BY DiskStays
  <2>f. Cleaned' = Cleaned
    BY DEF Cleaned, Manifest
  <2>3. DriverInv' /\ OwnInv' /\ ExitInv'
    <3>1. (\A f \in Cleaned \ stayed : files[f] \in {0, nrun}) /\ tool # "gate"
      BY <1>i DEF OwnInv
    <3>2. recorded'.run = nrun
      OBVIOUS
    <3>3. OwnInv'
      BY <2>f, <3>1, <3>2 DEF OwnInv
    <3>4. exitCode' = 0 => exitCode = 0
      OBVIOUS
    <3>5. ExitInv'
      BY <1>i, <3>1, <3>4 DEF ExitInv, ArtifactsWhole, FullSize, There
    <3>6. QED
      BY <3>3, <3>5 DEF DriverInv
  <2>4. /\ recorded'.run = nrun /\ recorded'.steps = files["step_ms"]
        /\ recorded'.prompt = files["prompt_tokens"] /\ recorded'.prefill = files["prefill"]
        /\ recorded'.old = stayed
    BY DEF StepsRead, PromptRead, PrefillRead
  <2>5. \A f \in Cleaned \ stayed : files[f] \in {0, nrun}
    BY <1>i DEF OwnInv
  <2>6. Manifest => "prefill" \in Cleaned
    BY DriverFiles DEF Cleaned
  <2>7. RecordIsItsRun' /\ PrefillIsItsRun'
    BY <2>4, <2>5, <2>6, DriverFiles DEF RecordIsItsRun, PrefillIsItsRun, Manifest
  <2>8. JudgedInv'
    BY <1>i, <2>7 DEF JudgedInv, ArtifactsAreOneRun, AcceptedIsWhole, ReferenceIsOneRun, TakenIsThisRun,
       GatePassIsWhole, Taken
  <2>9. QED
    BY <2>1, <2>2, <2>3, <2>8 DEF HaInv, DiskInv
<1>8. CASE DiesMeasuring
  <2> USE <1>8 DEF DiesMeasuring, LabelFiles
  <2>1. HaType'
    BY <1>i DEF HaType
  <2>2. OneRunInv' /\ RunInv' /\ ReferenceInv'
    BY DiskStays
  <2>3. DriverInv' /\ OwnInv' /\ ExitInv'
    BY DEF DriverInv, OwnInv, ExitInv
  <2>4. QED
    BY <1>i, <2>1, <2>2, <2>3, NothingIsJudged DEF HaInv, DiskInv, JudgedInv
<1>9. CASE HarnessJudge
  <2> USE <1>9 DEF HarnessJudge
  <2>1. OneRunInv' /\ RunInv' /\ ReferenceInv'
    BY DiskStays DEF LabelFiles
  <2>f. Cleaned' = Cleaned
    BY DEF Cleaned, Manifest
  <2>2. DriverInv' /\ OwnInv' /\ ExitInv'
    BY <1>i, <2>f DEF DriverInv, OwnInv, ExitInv, LabelFiles
  <2>3. CASE Reject
    <3>1. judged'.verdict = "failed"
      BY <2>3 DEF Reject, Nothing
    <3>2. HaType'
      BY <1>i, <3>1 DEF HaType, LabelFiles
    <3>3. QED
      BY <2>1, <2>2, <3>1, <3>2, NothingIsJudged DEF HaInv, DiskInv
  <2>4. CASE ~Reject
    <3>1. PICK runs, whole : Judge(runs, whole)
      BY <2>4 DEF AcceptFiles, AcceptRows, AcceptDone, AcceptRecord, Gate, TakeOrRaise
    <3>2. HaType'
      BY <1>i, <3>1 DEF Judge, HaType, LabelFiles
    <3>w. ArtifactsWhole \in BOOLEAN
      BY DEF ArtifactsWhole
    <3>3. CASE AcceptFiles
      <4>1. /\ \A f \in Artifacts : There(f)
            /\ Judge(ArtifactRuns, ArtifactsWhole)
            /\ tool = "p1_accept" => FullSize("run")
            /\ tool \in {"p1_accept", "b_verify"}
        BY <2>4, <3>3 DEF AcceptFiles, TakeOrRaise
      <4>2. JudgedInv'
        BY <3>w, <4>1, JudgedOnes DEF Reference
      <4>3. QED
        BY <2>1, <2>2, <3>2, <4>2 DEF HaInv, DiskInv
    <3>4. CASE AcceptRows
      <4>1. /\ \A f \in Artifacts : There(f)
            /\ Judge(ArtifactRuns \cup {recorded.run}, ArtifactsWhole)
            /\ tool \in {"p2_ub", "p3_warmup"}
        BY <2>4, <3>4 DEF AcceptRows, TakeOrRaise
      <4>2. exitCode # 1 /\ NoneStayed => ArtifactRuns \cup {recorded.run} = {nrun}
        BY <1>i, <4>1, ArtifactsOfOneRun DEF OwnInv
      <4>3. JudgedInv'
        BY <3>w, <4>1, <4>2, JudgedRecord
      <4>4. QED
        BY <2>1, <2>2, <3>2, <4>3 DEF HaInv, DiskInv
    <3>5. CASE AcceptDone
      <4>1. /\ exitCode = 0 /\ \A f \in Artifacts : There(f)
            /\ Judge(ArtifactRuns, ArtifactsWhole)
            /\ tool \in Reference
        BY <2>4, <3>5 DEF AcceptDone, TakeOrRaise, ExitOk, Reference
      <4>2. ArtifactsWhole
        BY <1>i, <4>1 DEF ExitInv
      <4>3. JudgedInv'
        BY <3>w, <4>1, <4>2, JudgedOnes DEF Reference
      <4>4. QED
        BY <2>1, <2>2, <3>2, <4>3 DEF HaInv, DiskInv
    <3>6. CASE AcceptRecord
      <4>1. tool = "slab_sweep" /\ Judge({recorded.run}, recorded.whole)
        BY <2>4, <3>6 DEF AcceptRecord
      <4>2. exitCode # 1 => recorded.run = nrun
        BY <1>i, <4>1 DEF OwnInv
      <4>3. QED
        BY <1>i, <2>1, <2>2, <3>2, <4>1, <4>2
           DEF HaInv, DiskInv, JudgedInv, Judge, ArtifactsAreOneRun, AcceptedIsWhole, ReferenceIsOneRun,
               TakenIsThisRun, RecordIsItsRun, PrefillIsItsRun, Manifest, GatePassIsWhole, Taken
    <3>7. CASE Gate
      <4>1. tool = "gate" /\ exitCode = 0 /\ Judge({nrun}, LogIsWhole)
        BY <2>4, <3>7 DEF Gate, DecodeFinished
      <4>2. LogIsWhole
        BY <1>i, <4>1 DEF ExitInv
      <4>3. LogIsWhole \in BOOLEAN
        BY DEF LogIsWhole
      <4>4. JudgedInv'
        BY <4>1, <4>2, <4>3, JudgedRecord
      <4>5. QED
        BY <2>1, <2>2, <3>2, <4>4 DEF HaInv, DiskInv
    <3>8. QED
      BY <3>3, <3>4, <3>5, <3>6, <3>7
  <2>5. QED
    BY <2>3, <2>4
<1>10. CASE UNCHANGED harnessVars
  <2> USE <1>10 DEF harnessVars
  <2>1. HaType' /\ OneRunInv' /\ RunInv' /\ ReferenceInv'
    BY <1>i DEF HaType, OneRunInv, RunInv, ReferenceInv, There, FullSize, NoneStayed, ArtifactsWhole
  <2>2. DriverInv' /\ OwnInv' /\ ExitInv'
    BY <1>i DEF DriverInv, OwnInv, ExitInv, Cleaned, Manifest, ArtifactsWhole, FullSize, There, LogIsWhole
  <2>3. JudgedInv'
    BY <1>i DEF JudgedInv, ArtifactsAreOneRun, AcceptedIsWhole, ReferenceIsOneRun, TakenIsThisRun,
       RecordIsItsRun, PrefillIsItsRun, GatePassIsWhole, Taken, NoneStayed, Manifest
  <2>4. QED
    BY <2>1, <2>2, <2>3 DEF HaInv, DiskInv
<1>11. QED
  BY <1>1, <1>2, <1>3, <1>4, <1>5, <1>6, <1>7, <1>8, <1>9, <1>10 DEF HarnessNext

(* What a tool takes up as a result is of one run of the label, wherever   *)
(* drivers and measuring processes died before it in the same directory,   *)
(* and of the run just made unless that one's process died; only files a   *)
(* removal failed on are excepted (stream.py:84-99, phase0_measure.py,     *)
(* seg_verify.py, slab_sweep.py and the acceptance tools).                 *)
THEOREM LabelsAreOfOneRun == HarnessSpec => []TakenIsOneRun
<1>1. HarnessInit => HaInv
  BY HaStarts, HarnessAssumption
<1>2. HaInv /\ [HarnessNext]_harnessVars => HaInv'
  BY HaStep, HarnessAssumption
<1>3. HaInv => TakenIsOneRun
  BY DEF HaInv, HaType, JudgedInv, TakenIsOneRun, HarnessTypeOK
<1>4. QED
  BY <1>1, <1>2, <1>3, PTL DEF HarnessSpec
-----------------------------------------------------------------------------
(* Qualify.                                                                *)

(* CUDA's list of the devices begins as nvidia-smi's does: the code pairs  *)
(* them by their index.                                                    *)
SmiIsCudas ==
  \A cuda \in CudaOrders : \A i \in DOMAIN cuda : i \in DOMAIN SmiOrder /\ cuda[i] = SmiOrder[i]

IsCurrent(x) == x.is = "profile" /\ x.version = Version

(* What a profile says for itself: that it was not measured; that what it  *)
(* calls usable is there while the other programs hold u, as far as it was *)
(* told what they hold.                                                    *)
Told(x) == IsCurrent(x) /\ ~x.h2d => x.told
IsUsable(x, u) ==
  \A i \in DOMAIN x.gpus :
    x.gpus[i].usable <= ZeroIfLess(KnownFree(x.gpus[i].gpu, x.smi, u) - Reserve)

QuType ==
  /\ inUse \in OthersHold
  /\ report \in {"none", "torn", "whole"}
  /\ file.is \in {"absent", "torn", "profile"}
  /\ cmdPc \in [Proc -> {"idle", "load", "measure", "writing", "exited 0", "no report",
                         "save", "saving", "done", "ended"}]
  /\ command \in [Proc -> {"none", "qualify", "plan", "status"}]
  /\ hwp = [p \in Proc |-> hwp[p]]

(* A command that holds a profile holds a current one, and one it measured *)
(* itself is of this machine.                                              *)
HoldsInv ==
  \A p \in Proc :
    /\ cmdPc[p] = "idle" <=> command[p] = "none"
    /\ cmdPc[p] \in {"save", "saving", "done"} => IsCurrent(hwp[p])
    /\ cmdPc[p] \in {"save", "saving"} => IsUsable(hwp[p], inUse)

ToldInv == Told(file) /\ \A p \in Proc : Told(hwp[p])

QuInv == QuType /\ HoldsInv /\ ToldInv

(* An entry is of one device, and what it calls usable is at most what is  *)
(* left of it, or its total if its row was not read.                       *)
LEMMA EntryOfOneDevice ==
  ASSUME QualifyAssumption, SmiIsCudas, NEW cuda \in CudaOrders \cup {<<>>}, NEW shown \in Rows,
         inUse \in OthersHold, NEW i \in 1..MostRows(Cardinality(shown), Len(cuda))
  PROVE  LET e == Entry(i, cuda, shown)
         IN  e.usable <= ZeroIfLess(KnownFree(e.gpu, shown, inUse) - Reserve)
<1>1. /\ cuda \in Seq(Gpu) /\ Len(cuda) \in Nat
      /\ Cardinality(shown) \in Nat /\ Cardinality(Gpu) \in Nat
      /\ Cardinality(shown) <= Cardinality(Gpu)
  <2>1. /\ Cardinality(Gpu) \in Nat /\ Cardinality(shown) \in Nat
        /\ Cardinality(shown) <= Cardinality(Gpu)
    BY FS_CardinalityType, FS_Subset DEF QualifyAssumption, Rows
  <2>2. cuda \in Seq(Gpu)
    <3>1. <<>> \in Seq(Gpu)
      OBVIOUS
    <3>2. QED
      BY <3>1 DEF QualifyAssumption
  <2>3. QED
    BY <2>1, <2>2
<1>2. DOMAIN cuda = 1..Len(cuda) /\ DOMAIN SmiOrder = 1..Len(SmiOrder)
  BY <1>1 DEF QualifyAssumption
<1>3. i \in DOMAIN SmiOrder
  <2>1. CASE i <= Cardinality(shown)
    BY <1>1, <1>2, <2>1 DEF QualifyAssumption
  <2>2. CASE i > Cardinality(shown)
    <3>1. i \in 1..Len(cuda)
      BY <1>1, <2>2 DEF MostRows
    <3>2. cuda \in CudaOrders
      BY <3>1
    <3>3. QED
      BY <1>2, <3>1, <3>2 DEF SmiIsCudas
  <2>3. QED
    BY <1>1, <2>1, <2>2
<1>4. SmiOrder[i] \in Gpu
  BY <1>3 DEF QualifyAssumption
<1>5. i \in DOMAIN cuda => cuda[i] = SmiOrder[i]
  BY DEF SmiIsCudas
<1> DEFINE g    == SmiOrder[i]
           t    == Total[g]
           rest == t - (IF g \in shown THEN inUse[g] ELSE 0)
<1>6. t \in Nat /\ inUse[g] \in Nat
  BY <1>4 DEF QualifyAssumption
<1>7. rest \in Int /\ rest <= t
  BY <1>6
<1>8. Entry(i, cuda, shown).gpu = g
  BY <1>3, <1>5 DEF Entry
<1>9. KnownFree(g, shown, inUse) = rest
  BY DEF KnownFree
<1>10. ZeroIfLess(rest - Reserve) \in Nat
  BY <1>7 DEF ZeroIfLess, Reserve
<1>11. Entry(i, cuda, shown).usable <= ZeroIfLess(rest - Reserve)
  <2>1. CASE g \in shown
    <3>1. Entry(i, cuda, shown).usable = ZeroIfLess((IF t - inUse[g] < t THEN t - inUse[g] ELSE t) - Reserve)
      BY <1>3, <1>5, <2>1 DEF Entry
    <3>2. (IF t - inUse[g] < t THEN t - inUse[g] ELSE t) = rest
      BY <1>6, <2>1
    <3>3. QED
      BY <1>10, <3>1, <3>2
  <2>2. CASE g \notin shown /\ i \in DOMAIN cuda
    <3>1. Entry(i, cuda, shown).usable = ZeroIfLess((IF t < t THEN t ELSE t) - Reserve)
      BY <1>3, <1>5, <2>2 DEF Entry
    <3>2. rest = t
      BY <1>6, <2>2
    <3>3. QED
      BY <1>10, <3>1, <3>2
  <2>3. CASE g \notin shown /\ i \notin DOMAIN cuda
    <3>1. Entry(i, cuda, shown).usable = ZeroIfLess((IF 0 < 0 THEN 0 ELSE 0) - Reserve)
      BY <1>3, <2>3 DEF Entry
    <3>2. Entry(i, cuda, shown).usable = 0
      BY <3>1 DEF ZeroIfLess, Reserve
    <3>3. QED
      BY <1>10, <3>2
  <2>4. QED
    BY <2>1, <2>2, <2>3
<1>12. QED
  BY <1>8, <1>9, <1>11

(* What is measured is current, says when it was not, and is of this       *)
(* machine.                                                                *)
LEMMA Measured ==
  ASSUME QualifyAssumption, SmiIsCudas, NEW cuda \in CudaOrders \cup {<<>>}, inUse \in OthersHold,
         NEW shown \in Rows, NEW h2d \in BOOLEAN
  PROVE  LET x == ProfileFrom(cuda, shown, h2d, ~h2d)
         IN  IsCurrent(x) /\ Told(x) /\ IsUsable(x, inUse)
<1> DEFINE x == ProfileFrom(cuda, shown, h2d, ~h2d)
<1>1. /\ x.is = "profile" /\ x.version = Version /\ x.smi = shown
      /\ x.h2d = h2d /\ x.told = ~h2d
      /\ x.gpus = [i \in 1..MostRows(Cardinality(shown), Len(cuda)) |-> Entry(i, cuda, shown)]
  BY DEF ProfileFrom
<1>2. IsUsable(x, inUse)
  <2>1. SUFFICES ASSUME NEW i \in DOMAIN x.gpus
                 PROVE  LET e == x.gpus[i]
                        IN  e.usable <= ZeroIfLess(KnownFree(e.gpu, shown, inUse) - Reserve)
    BY <1>1 DEF IsUsable
  <2>2. i \in 1..MostRows(Cardinality(shown), Len(cuda)) /\ x.gpus[i] = Entry(i, cuda, shown)
    <3>1. PICK gs : gs = x.gpus
      OBVIOUS
    <3>2. i \in DOMAIN gs
      BY <2>1, <3>1
    <3> HIDE DEF x
    <3>3. QED
      BY <1>1, <3>1, <3>2
  <2>3. QED
    BY <2>2, EntryOfOneDevice
<1>3. IsCurrent(x) /\ Told(x)
  BY <1>1 DEF IsCurrent, Told
<1>4. QED
  BY <1>2, <1>3

(* Before the first command there is no profile.                           *)
LEMMA QuStarts == QualifyInit => QuInv
<1> SUFFICES ASSUME QualifyInit PROVE QuInv
  OBVIOUS
<1> USE DEF QualifyInit
<1>1. QuType
  BY DEF QuType, Absent
<1>2. HoldsInv
  BY DEF HoldsInv
<1>3. ToldInv
  BY DEF ToldInv, Told, IsCurrent, Absent, Version
<1>4. QED
  BY <1>1, <1>2, <1>3 DEF QuInv

(* A command that goes on with the profile it holds.                       *)
LEMMA GoesOn ==
  ASSUME QuType, HoldsInv, NEW p \in Proc, NEW from, NEW to, CmdGoes(p, from, to),
         from # "idle", to \in {"load", "measure", "writing", "exited 0", "no report",
                                "save", "saving", "done", "ended"},
         UNCHANGED <<inUse, command>>, hwp' = hwp,
         to \in {"save", "saving", "done"} => from \in {"save", "saving"}
  PROVE  HoldsInv' /\ cmdPc' \in [Proc -> {"idle", "load", "measure", "writing", "exited 0",
                                           "no report", "save", "saving", "done", "ended"}]
  BY DEF QuType, HoldsInv, CmdGoes

(* A command that comes to hold profile x.                                 *)
LEMMA Takes ==
  ASSUME QuType, HoldsInv, ToldInv, NEW p \in Proc, NEW from, NEW to, CmdGoes(p, from, to), NEW x,
         from # "idle", to \in {"save", "done"}, UNCHANGED <<inUse, command, file>>,
         hwp' = [hwp EXCEPT ![p] = x],
         IsCurrent(x), Told(x), to = "save" => IsUsable(x, inUse)
  PROVE  /\ HoldsInv' /\ ToldInv' /\ hwp' = [q \in Proc |-> hwp'[q]]
         /\ cmdPc' \in [Proc -> {"idle", "load", "measure", "writing", "exited 0",
                                 "no report", "save", "saving", "done", "ended"}]
<1>1. /\ \A q \in Proc : hwp'[q] = IF q = p THEN x ELSE hwp[q]
      /\ hwp' = [q \in Proc |-> hwp'[q]]
  BY DEF QuType
<1>2. /\ \A q \in Proc : cmdPc'[q] = IF q = p THEN to ELSE cmdPc[q]
      /\ cmdPc' \in [Proc -> {"idle", "load", "measure", "writing", "exited 0",
                              "no report", "save", "saving", "done", "ended"}]
      /\ cmdPc[p] = from
  BY DEF QuType, CmdGoes
<1>3. HoldsInv'
  BY <1>1, <1>2 DEF HoldsInv
<1>4. ToldInv'
  BY <1>1 DEF ToldInv
<1>5. QED
  BY <1>1, <1>2, <1>3, <1>4

(* A command that is over.                                                 *)
LEMMA Over ==
  ASSUME QuInv, NEW p \in Proc, cmdPc' = [cmdPc EXCEPT ![p] = "idle"],
         command' = [command EXCEPT ![p] = "none"], hwp' = [hwp EXCEPT ![p] = Absent],
         UNCHANGED <<inUse, file, report>>
  PROVE  QuInv'
<1> USE DEF QuInv
<1>1. /\ \A q \in Proc : hwp'[q] = IF q = p THEN Absent ELSE hwp[q]
      /\ \A q \in Proc : cmdPc'[q] = IF q = p THEN "idle" ELSE cmdPc[q]
      /\ \A q \in Proc : command'[q] = IF q = p THEN "none" ELSE command[q]
      /\ hwp' = [q \in Proc |-> hwp'[q]]
  BY DEF QuType
<1>2. QuType'
  BY <1>1 DEF QuType
<1>3. HoldsInv'
  BY <1>1 DEF HoldsInv
<1>4. Told(Absent)
  BY DEF Told, IsCurrent, Absent
<1>5. ToldInv'
  BY <1>1, <1>4 DEF ToldInv
<1>6. QED
  BY <1>2, <1>3, <1>5

(* Every step of the commands and of the programs beside them.             *)
LEMMA QuStep ==
  ASSUME QualifyAssumption, SmiIsCudas, QuInv, [QualifyNext]_qualifyVars
  PROVE  QuInv'
<1> USE DEF QuInv
<1>1. ASSUME NEW p \in Proc, Start(p) PROVE QuInv'
  <2> USE <1>1 DEF Start
  <2>1. QuType' /\ ToldInv'
    BY DEF QuType, ToldInv, CmdGoes
  <2>2. HoldsInv'
    BY DEF HoldsInv, CmdGoes, QuType
  <2>3. QED
    BY <2>1, <2>2
<1>2. ASSUME NEW p \in Proc, LoadProfile(p) PROVE QuInv'
  <2> USE <1>2 DEF LoadProfile
  <2>1. CASE Loads /\ CmdGoes(p, "load", "done") /\ hwp' = [hwp EXCEPT ![p] = file]
    <3>0. PICK x : x = file
      OBVIOUS
    <3>1. IsCurrent(x) /\ Told(x)
      BY <2>1, <3>0 DEF Loads, IsCurrent, ToldInv
    <3>2. /\ HoldsInv' /\ ToldInv' /\ hwp' = [q \in Proc |-> hwp'[q]]
          /\ cmdPc' \in [Proc -> {"idle", "load", "measure", "writing", "exited 0",
                                  "no report", "save", "saving", "done", "ended"}]
      <4>1. PICK from, to : from = "load" /\ to = "done"
        OBVIOUS
      <4>2. /\ CmdGoes(p, from, to) /\ from # "idle" /\ to \in {"save", "done"} /\ to # "save"
            /\ UNCHANGED <<inUse, command, file>> /\ hwp' = [hwp EXCEPT ![p] = x]
        BY <2>1, <3>0, <4>1
      <4>3. QED
        BY <3>1, <4>2, Takes
    <3>3. QED
      BY <3>2 DEF QuType
  <2>2. CASE hwp' = hwp /\ (CmdGoes(p, "load", "measure") \/ CmdGoes(p, "load", "ended"))
    <3>1. /\ HoldsInv'
          /\ cmdPc' \in [Proc -> {"idle", "load", "measure", "writing", "exited 0",
                                  "no report", "save", "saving", "done", "ended"}]
      BY <2>2, GoesOn
    <3>2. QED
      BY <2>2, <3>1 DEF QuType, ToldInv
  <2>3. QED
    BY <2>1, <2>2
<1>3. ASSUME NEW p \in Proc, RunQualifier(p) \/ QualifierEnds(p) PROVE QuInv'
  <2> USE <1>3 DEF RunQualifier, QualifierEnds
  <2>1. /\ HoldsInv'
        /\ cmdPc' \in [Proc -> {"idle", "load", "measure", "writing", "exited 0",
                                "no report", "save", "saving", "done", "ended"}]
    BY GoesOn
  <2>2. QED
    BY <2>1 DEF QuType, ToldInv
<1>4. ASSUME NEW p \in Proc, ReadReport(p) \/ Unmeasured(p) PROVE QuInv'
  <2>1. PICK shown \in Rows, cuda \in CudaOrders \cup {<<>>}, h2d \in BOOLEAN :
          hwp' = [hwp EXCEPT ![p] = ProfileFrom(cuda, shown, h2d, ~h2d)]
    BY <1>4, Zenon DEF ReadReport, Unmeasured
  <2>2. PICK from \in {"exited 0", "no report"} : CmdGoes(p, from, "save")
    BY <1>4 DEF ReadReport, Unmeasured
  <2>3. /\ UNCHANGED <<inUse, command, file>> /\ report' \in {"none", report}
    BY <1>4 DEF ReadReport, Unmeasured
  <2>4. PICK x : x = ProfileFrom(cuda, shown, h2d, ~h2d)
    OBVIOUS
  <2>5. IsCurrent(x) /\ Told(x) /\ IsUsable(x, inUse)
    BY <2>4, Measured DEF QuType
  <2>6. /\ HoldsInv' /\ ToldInv' /\ hwp' = [q \in Proc |-> hwp'[q]]
        /\ cmdPc' \in [Proc -> {"idle", "load", "measure", "writing", "exited 0",
                                "no report", "save", "saving", "done", "ended"}]
    BY <2>1, <2>2, <2>3, <2>4, <2>5, Takes
  <2>7. QED
    BY <2>3, <2>6 DEF QuType
<1>5. ASSUME NEW p \in Proc, SaveOpens(p) PROVE QuInv'
  <2> USE <1>5 DEF SaveOpens
  <2>1. /\ HoldsInv'
        /\ cmdPc' \in [Proc -> {"idle", "load", "measure", "writing", "exited 0",
                                "no report", "save", "saving", "done", "ended"}]
    BY GoesOn
  <2>2. QED
    BY <2>1 DEF QuType, ToldInv, Told, IsCurrent, Torn
<1>6. ASSUME NEW p \in Proc, SaveCloses(p) PROVE QuInv'
  <2> USE <1>6 DEF SaveCloses
  <2>1. /\ HoldsInv'
        /\ cmdPc' \in [Proc -> {"idle", "load", "measure", "writing", "exited 0",
                                "no report", "save", "saving", "done", "ended"}]
    BY GoesOn
  <2>2. file'.is \in {"torn", "profile"} /\ Told(file')
    BY DEF HoldsInv, ToldInv, CmdGoes, IsCurrent, Told, Torn
  <2>3. QED
    BY <2>1, <2>2 DEF QuType, ToldInv
<1>7. ASSUME NEW p \in Proc, Prints(p) \/ Killed(p) PROVE QuInv'
  <2>1. /\ cmdPc' = [cmdPc EXCEPT ![p] = "idle"] /\ command' = [command EXCEPT ![p] = "none"]
        /\ hwp' = [hwp EXCEPT ![p] = Absent] /\ UNCHANGED <<inUse, file, report>>
    BY <1>7 DEF Prints, Killed
  <2>2. QED
    BY <2>1, Over
<1>8. CASE UNCHANGED qualifyVars
  BY <1>8 DEF qualifyVars, QuType, HoldsInv, ToldInv
<1>9. QED
  BY <1>1, <1>2, <1>3, <1>4, <1>5, <1>6, <1>7, <1>8 DEF QualifyNext, CommandStep

(* A plan or a status is printed from a whole profile of this version, a   *)
(* profile whose transfers were not measured says so, on disk and in hand, *)
(* and the memory it calls usable is there on each device whose row of     *)
(* nvidia-smi was read (profile.py:132-141, 257-312).  Where CUDA lists    *)
(* the devices as nvidia-smi does, which the code takes for granted when   *)
(* it pairs the two lists by index.                                        *)
THEOREM HardwareIsAlwaysTold == SmiIsCudas => (QualifySpec => []HardwareIsTold)
<1>1. QualifyInit => QuInv
  BY QuStarts
<1>2. SmiIsCudas /\ QuInv /\ [QualifyNext]_qualifyVars => QuInv'
  BY QuStep, QualifyAssumption
<1>3. QuInv => HardwareIsTold
  <2> SUFFICES ASSUME QuInv PROVE HardwareIsTold
    OBVIOUS
  <2> USE DEF QuInv
  <2>1. QualifyTypeOK /\ PrintsWholeProfile
    BY DEF QuType, HoldsInv, QualifyTypeOK, PrintsWholeProfile, IsCurrent
  <2>2. UnmeasuredIsTold
    BY DEF ToldInv, Told, IsCurrent, UnmeasuredIsTold
  <2>3. UsableIsThere
    BY DEF HoldsInv, IsUsable, UsableIsThere
  <2>4. QED
    BY <2>1, <2>2, <2>3 DEF HardwareIsTold
<1>4. SUFFICES ASSUME SmiIsCudas PROVE QualifySpec => []HardwareIsTold
  OBVIOUS
<1>5. QualifySpec => []HardwareIsTold
  BY <1>1, <1>2, <1>3, <1>4, PTL DEF QualifySpec
<1>6. QED
  BY <1>5
-----------------------------------------------------------------------------
(* BenchRun.                                                               *)

Count == [Phase -> Nat]
TimedOnly(c, n) == c["warm"] = 0 /\ c["timed"] = n
BenchRow ==
  [point : Nat, window : Count, left : Nat, counted : Count, stalled : Count, tokens : Nat]

BeType ==
  /\ program \in Program /\ available \in Nat /\ point \in 1..Points
  /\ skipped \subseteq 1..SweepPoints /\ held \subseteq Resource \X (0..SweepPoints)
  /\ kernels \in Seq(Phase) /\ copies \in Seq(Phase) /\ stalls \in Seq(Phase)
  /\ launched \in 0..TimedTokens + WarmTokens
  /\ exit \in {"running", "0", "2", "4", "raised"}
  /\ window \in Count /\ counted \in Count /\ stalled \in Count
  /\ rows \in Seq(BenchRow)

(* Under the timer, every token launched is executed or still queued, and  *)
(* nothing that is queued or recorded is of the warm-up.                   *)
TimerInv ==
  step = "timed" =>
    /\ \A i \in 1..Len(kernels) : kernels[i] = "timed"
    /\ TimedOnly(window, launched - Len(kernels)) /\ TimedOnly(counted, launched)
    /\ program = "sweep" =>
         /\ stalled = None /\ Len(stalls) <= launched
         /\ \A i \in 1..Len(stalls) : stalls[i] = "timed"

RowOk(r) ==
  /\ TimedOnly(r.window, r.tokens) /\ r.left = 0 /\ TimedOnly(r.counted, r.tokens)
  /\ r.stalled["warm"] = 0 /\ r.stalled["timed"] <= r.tokens

RowsInv == \A i \in 1..Len(rows) : RowOk(rows[i])

(* A tier or an executor that is held is this point's, or a tier that its  *)
(* point, reported as skipped, could not give back.                        *)
HeldInv ==
  /\ \A h \in held :
       IF h[1] \in {"tier", "ex"}
       THEN \/ h[1] = "tier" /\ h[2] \in skipped
            \/ h = <<"tier", point>> /\ step \in {"ex", "warm", "timed", "free"}
            \/ h = <<"ex", point>> /\ step \in {"warm", "timed", "free"}
       ELSE h[2] = 0
  /\ ReturnsWhatItHeld

BeInv == BeType /\ TimerInv /\ RowsInv /\ HeldInv

(* What a count of warm and timed tokens is.                               *)
LEMMA Counts ==
  /\ None \in Count /\ TimedOnly(None, 0)
  /\ \A c \in Count : c["warm"] \in Nat /\ c["timed"] \in Nat
  /\ \A c \in Count, n \in Nat : TimedOnly(c, n) => c = [warm |-> 0, timed |-> n]
  /\ \A c \in Count, ph \in Phase : [c EXCEPT ![ph] = @ + 1] \in Count
BY DEF None, Count, TimedOnly, Phase

(* The points and tokens of a program, and that its holds are typed.       *)
LEMMA BenchNumbers ==
  ASSUME BenchAssumption, BeType
  PROVE  /\ Points \in Nat /\ Points \in 1..SweepPoints
         /\ point \in 1..SweepPoints
         /\ ToWarm \in Nat /\ ToWarm <= WarmTokens
         /\ ToTime \in Nat /\ ToTime <= TimedTokens
         /\ \A r \in Resource : Mine(r) \in Resource \X (0..SweepPoints)
         /\ \A r \in Resource \ {"tier", "ex"} : Mine(r) = <<r, 0>>
         /\ Mine("tier") = <<"tier", point>> /\ Mine("ex") = <<"ex", point>>
<1> USE DEF BenchAssumption, BeType, Program
<1>1. Points \in Nat /\ Points \in 1..SweepPoints /\ point \in 1..SweepPoints
  BY DEF Points
<1>2. ToWarm \in Nat /\ ToWarm <= WarmTokens /\ ToTime \in Nat /\ ToTime <= TimedTokens
  BY DEF ToWarm, ToTime
<1>3. QED
  BY <1>1, <1>2 DEF Mine, Resource

(* A step that counts nothing and after which no timer runs.               *)
LEMMA Aside ==
  ASSUME BenchAssumption, BeInv, SameSetup, Untimed, rows' = rows, step' # "timed",
         kernels' \in {kernels, <<>>}, copies' \in {copies, <<>>},
         held' \subseteq Resource \X (0..SweepPoints), point' \in {point, point + 1},
         point' \in 1..Points, skipped' \in {skipped, skipped \cup {point}},
         exit' \in {"running", "0", "2", "4", "raised"}
  PROVE  BeType' /\ TimerInv' /\ RowsInv'
<1> USE DEF BeInv, SameSetup, Untimed
<1>1. BeType'
  <2>0. <<>> \in Seq(Phase)
    OBVIOUS
  <2>1. kernels' \in Seq(Phase) /\ copies' \in Seq(Phase)
    BY <2>0 DEF BeType
  <2>2. skipped' \subseteq 1..SweepPoints
    BY BenchNumbers DEF BeType
  <2>3. point' \in 1..Points'
    BY DEF Points
  <2>4. QED
    BY <2>1, <2>2, <2>3 DEF BeType
<1>2. TimerInv' /\ RowsInv'
  BY DEF TimerInv, RowsInv
<1>3. QED
  BY <1>1, <1>2

(* Before the first point nothing is held or measured.                     *)
LEMMA BeStarts == BenchAssumption /\ BenchInit => BeInv
<1> SUFFICES ASSUME BenchAssumption, BenchInit PROVE BeInv
  OBVIOUS
<1> USE DEF BenchInit
<1>1. BeType
  BY Counts DEF BeType, BenchAssumption, Points
<1>2. TimerInv /\ RowsInv
  BY DEF TimerInv, RowsInv
<1>3. HeldInv
  BY DEF HeldInv, ReturnsWhatItHeld
<1>4. QED
  BY <1>1, <1>2, <1>3 DEF BeInv

(* What Report, Unavailable, Dies and a trace that is too short leave.     *)
LEMMA Ends ==
  ASSUME BenchAssumption, BeInv,
         Dies \/ Unavailable \/ TraceRunsOut \/ \E allowed \in BOOLEAN : Report(allowed)
  PROVE  BeInv'
<1> USE DEF BeInv
<1>1. /\ exit = "running" /\ step' = "done" /\ exit' \in {"0", "2", "4", "raised"}
      /\ SameSetup /\ Untimed /\ UNCHANGED <<point, rows, skipped>>
      /\ kernels' \in {kernels, <<>>} /\ copies' \in {copies, <<>>} /\ held' \subseteq held
  BY DEF Dies, Unavailable, TraceRunsOut, Report, Leaves
<1>2. BeType' /\ TimerInv' /\ RowsInv'
  <2>1. held' \subseteq Resource \X (0..SweepPoints) /\ point' \in 1..Points
    BY <1>1 DEF BeType
  <2>2. QED
    BY <1>1, <2>1, Aside
<1>3. \A h \in held' : IF h[1] \in {"tier", "ex"} THEN h[1] = "tier" /\ h[2] \in skipped ELSE h[2] = 0
  <2>1. CASE held' = {}
    BY <2>1
  <2>2. CASE Unavailable \/ \E allowed \in BOOLEAN : Report(allowed)
    <3>1. step \in {"start", "report"}
      BY <2>2 DEF Unavailable, Report
    <3>2. QED
      BY <1>1, <3>1 DEF HeldInv
  <2>3. QED
    BY <2>1, <2>2 DEF Dies, TraceRunsOut
<1>4. ReturnsWhatItHeld'
  <2>1. CASE Dies \/ Unavailable \/ TraceRunsOut
    <3>1. exit' \in {"2", "raised"}
      BY <2>1 DEF Dies, Unavailable, TraceRunsOut, Leaves
    <3>2. QED
      BY <3>1 DEF ReturnsWhatItHeld
  <2>2. ASSUME NEW allowed \in BOOLEAN, Report(allowed)
        PROVE  ReturnsWhatItHeld'
    <3>1. held' = held \ ({<<"sampler", 0>>, <<"fixed", 0>>} \cup
                          (IF program = "sweep" THEN {<<"bank", 0>>} ELSE {}))
      BY <2>2, BenchNumbers DEF Report, Resource
    <3>2. \A h \in held : h \in Resource \X (0..SweepPoints)
      BY DEF BeType
    <3>3. ASSUME NEW h \in held', h[1] \notin {"tier", "ex"}
          PROVE  h[1] = "bank" /\ program = "single"
      <4>1. h[2] = 0 /\ h \in held
        BY <1>1, <1>3, <3>3
      <4>2. h = <<h[1], 0>> /\ h[1] \in {"sampler", "fixed", "bank"}
        BY <3>2, <3>3, <4>1 DEF Resource
      <4>3. h[1] = "bank"
        BY <3>1, <3>3, <4>2
      <4>4. program = "single"
        BY <3>1, <3>3, <4>2, <4>3 DEF BeType, Program
      <4>5. QED
        BY <4>3, <4>4
    <3>4. QED
      BY <1>1, <1>3, <3>3 DEF ReturnsWhatItHeld, SameSetup
  <2>3. QED
    BY <2>1, <2>2
<1>5. HeldInv'
  BY <1>1, <1>3, <1>4 DEF HeldInv
<1>6. QED
  BY <1>2, <1>5

(* The order of main: what is taken, and what a point gives back.          *)
LEMMA Acquires ==
  ASSUME BenchAssumption, BeInv,
         \/ \E asked \in BOOLEAN : PinFixed(asked)
         \/ OpenBenchBank \/ LoadSweepTrace \/ BuildTier
  PROVE  BeInv'
<1> USE DEF BeInv
<1>1. /\ exit = "running" /\ exit' = exit /\ SameSetup /\ Untimed
      /\ UNCHANGED <<point, kernels, copies, rows, skipped>>
      /\ step' \in {"bank", "trace", "tier", "ex"} /\ step \in {"start", "bank", "trace", "tier"}
  BY DEF PinFixed, OpenBenchBank, LoadSweepTrace, BuildTier, StepsOn
<1>2. PICK r \in Resource \ {"ex"} :
        /\ held' \subseteq held \cup {Mine(r)}
        /\ r = "tier" => step' = "ex"
  BY DEF PinFixed, OpenBenchBank, LoadSweepTrace, BuildTier, StepsOn, Resource
<1>3. BeType' /\ TimerInv' /\ RowsInv'
  <2>1. held' \subseteq Resource \X (0..SweepPoints) /\ point' \in 1..Points
    BY <1>1, <1>2, BenchNumbers DEF BeType
  <2>2. QED
    BY <1>1, <2>1, Aside
<1>4. ASSUME NEW h \in held'
      PROVE  IF h[1] \in {"tier", "ex"}
             THEN \/ h[1] = "tier" /\ h[2] \in skipped
                  \/ h = <<"tier", point>> /\ step' = "ex"
             ELSE h[2] = 0
  <2>1. CASE h \in held
    <3>1. step \notin {"ex", "warm", "timed", "free"}
      BY <1>1
    <3>2. IF h[1] \in {"tier", "ex"} THEN h[1] = "tier" /\ h[2] \in skipped ELSE h[2] = 0
      BY <2>1, <3>1 DEF HeldInv
    <3>3. QED
      BY <3>2
  <2>2. CASE h = Mine(r)
    BY <1>2, <2>2, BenchNumbers
  <2>3. QED
    BY <1>2, <2>1, <2>2
<1>5. HeldInv'
  BY <1>1, <1>4 DEF HeldInv, ReturnsWhatItHeld
<1>6. QED
  BY <1>3, <1>5

(* The end of a point, skipped or run.                                     *)
LEMMA GivesBack ==
  ASSUME BenchAssumption, BeInv, SkipPoint \/ FreePoint
  PROVE  BeInv'
<1> USE DEF BeInv
<1>1. /\ exit = "running" /\ exit' = exit /\ SameSetup /\ Untimed
      /\ UNCHANGED <<kernels, copies, rows>>
      /\ step' \in {"tier", "report"} /\ step \in {"tier", "ex", "warm", "timed", "free"}
      /\ point' = IF point < Points THEN point + 1 ELSE point
      /\ skipped' \in {skipped, skipped \cup {point}}
  BY DEF SkipPoint, FreePoint
<1>2. held' \subseteq held \cup {<<"tier", point>>}
  BY BenchNumbers DEF SkipPoint, FreePoint
<1>3. BeType' /\ TimerInv' /\ RowsInv'
  <2>1. held' \subseteq Resource \X (0..SweepPoints)
    BY <1>2, BenchNumbers DEF BeType, Resource
  <2>2. point' \in 1..Points /\ point' \in {point, point + 1}
    BY <1>1, BenchNumbers DEF BeType
  <2>3. QED
    BY <1>1, <2>1, <2>2, Aside
<1>4. ASSUME NEW h \in held'
      PROVE  IF h[1] \in {"tier", "ex"} THEN h[1] = "tier" /\ h[2] \in skipped' ELSE h[2] = 0
  <2>1. CASE FreePoint \/ (SkipPoint /\ step \in {"warm", "timed"})
    <3>1. held' = held \ {<<"tier", point>>, <<"ex", point>>}
      BY <2>1, BenchNumbers DEF FreePoint, SkipPoint
    <3>2. QED
      BY <1>1, <3>1 DEF HeldInv
  <2>2. CASE SkipPoint /\ step = "ex"
    <3>1. held' = held /\ skipped' = skipped \cup {point}
      BY <2>2 DEF SkipPoint
    <3>2. QED
      BY <2>2, <3>1 DEF HeldInv
  <2>3. CASE SkipPoint /\ step = "tier"
    <3>1. held' \subseteq held \cup {<<"tier", point>>} /\ skipped' = skipped \cup {point}
      BY <1>2, <2>3 DEF SkipPoint
    <3>2. QED
      BY <2>3, <3>1 DEF HeldInv
  <2>4. SkipPoint => step \in {"tier", "ex", "warm", "timed"}
    BY DEF SkipPoint
  <2>5. QED
    BY <2>1, <2>2, <2>3, <2>4
<1>5. HeldInv'
  BY <1>1, <1>4 DEF HeldInv, ReturnsWhatItHeld
<1>6. QED
  BY <1>3, <1>5

(* A step that holds on to what is held.                                   *)
LEMMA HoldsOnTo ==
  ASSUME HeldInv, UNCHANGED <<held, point, skipped, exit, program>>,
         \/ step' = step
         \/ step = "warm" /\ step' = "timed"
         \/ step = "timed" /\ step' = "free"
  PROVE  HeldInv'
BY DEF HeldInv, ReturnsWhatItHeld

(* A token is launched, in the warm-up or under the timer.                 *)
LEMMA TokenMoves ==
  ASSUME BenchAssumption, BeInv,
         \/ \E miss \in BOOLEAN : WarmToken(miss)
         \/ \E miss, ahead \in BOOLEAN : TimedToken(miss, ahead)
  PROVE  BeInv'
<1> USE DEF BeInv
<1>1. PICK ph \in Phase, miss \in BOOLEAN :
        /\ LaunchLayer(ph, miss) /\ UNCHANGED step
        /\ step = ph /\ launched < (IF ph = "warm" THEN ToWarm ELSE ToTime)
  <2>1. CASE \E miss \in BOOLEAN : WarmToken(miss)
    BY <2>1 DEF WarmToken, Phase
  <2>2. CASE \E miss, ahead \in BOOLEAN : TimedToken(miss, ahead)
    <3>1. PICK miss \in BOOLEAN, ahead \in BOOLEAN : TimedToken(miss, ahead)
      BY <2>2
    <3>2. PICK m \in BOOLEAN : m = (miss \/ ahead)
      OBVIOUS
    <3>3. LaunchLayer("timed", m)
      BY <3>1, <3>2, Zenon DEF TimedToken
    <3>4. QED
      BY <3>1, <3>3 DEF TimedToken, Phase
  <2>3. QED
    BY <2>1, <2>2
<1>2. /\ launched' = launched + 1 /\ kernels' = Append(kernels, ph)
      /\ copies' \in {copies, Append(copies, ph)} /\ stalls' \in {stalls, Append(stalls, ph)}
      /\ counted' = [counted EXCEPT ![ph] = @ + 1] /\ SameSetup
      /\ UNCHANGED <<step, held, point, window, stalled, rows, skipped, exit>>
  BY <1>1 DEF LaunchLayer
<1>3. launched \in Nat /\ launched' \in 0..TimedTokens + WarmTokens
  <2>1. launched \in 0..TimedTokens + WarmTokens /\ BeType
    BY DEF BeType
  <2>2. ToWarm \in Nat /\ ToWarm <= WarmTokens /\ ToTime \in Nat /\ ToTime <= TimedTokens
    BY <2>1, BenchNumbers
  <2>3. TimedTokens \in Nat /\ WarmTokens \in Nat
    BY DEF BenchAssumption
  <2>4. launched < ToWarm \/ launched < ToTime
    BY <1>1
  <2>5. launched' = launched + 1
    BY <1>2
  <2>6. QED
    BY <2>1, <2>2, <2>3, <2>4, <2>5
<1>4. kernels' \in Seq(Phase) /\ copies' \in Seq(Phase) /\ stalls' \in Seq(Phase)
  <2>1. \A s \in Seq(Phase) : Append(s, ph) \in Seq(Phase)
    BY <1>1
  <2>2. kernels \in Seq(Phase) /\ copies \in Seq(Phase) /\ stalls \in Seq(Phase)
    BY DEF BeType
  <2>3. QED
    BY <1>2, <2>1, <2>2
<1>5. counted' \in Count
  BY <1>1, <1>2, Counts DEF BeType
<1>6. BeType'
  BY <1>2, <1>3, <1>4, <1>5 DEF BeType, SameSetup, Points
<1>7. TimerInv'
  <2>1. SUFFICES ASSUME step = "timed", ph = "timed" PROVE TimerInv'
    BY <1>1, <1>2 DEF TimerInv
  <2>2. /\ Len(kernels) \in Nat /\ Len(kernels') = Len(kernels) + 1
        /\ \A i \in 1..Len(kernels') :
             kernels'[i] = IF i <= Len(kernels) THEN kernels[i] ELSE "timed"
    BY <1>1, <1>2, <2>1, AppendProperties DEF BeType
  <2>3. /\ Len(stalls) \in Nat /\ Len(stalls') <= Len(stalls) + 1
        /\ \A i \in 1..Len(stalls') :
             stalls'[i] = IF i <= Len(stalls) THEN stalls[i] ELSE "timed"
    BY <1>1, <1>2, <2>1, AppendProperties DEF BeType
  <2>4. counted'["warm"] = counted["warm"] /\ counted'["timed"] = counted["timed"] + 1
    BY <1>2, <2>1 DEF BeType, Count, Phase
  <2>5. \A i \in 1..Len(kernels') : kernels'[i] = "timed"
    BY <2>1, <2>2 DEF TimerInv
  <2>6. TimedOnly(window', launched' - Len(kernels')) /\ TimedOnly(counted', launched')
    BY <1>2, <1>3, <2>1, <2>2, <2>4 DEF TimerInv, TimedOnly
  <2>7. program' = "sweep" => /\ stalled' = None /\ Len(stalls') <= launched'
                              /\ \A i \in 1..Len(stalls') : stalls'[i] = "timed"
    BY <1>2, <1>3, <2>1, <2>3 DEF TimerInv, SameSetup
  <2>8. QED
    BY <2>5, <2>6, <2>7 DEF TimerInv
<1>8. RowsInv' /\ HeldInv'
  <2>1. UNCHANGED <<held, point, skipped, exit, program, step, rows>>
    BY <1>2 DEF SameSetup
  <2>2. RowsInv'
    BY <2>1 DEF RowsInv
  <2>3. HeldInv'
    BY <2>1, HoldsOnTo
  <2>4. QED
    BY <2>2, <2>3
<1>9. QED
  BY <1>6, <1>7, <1>8

(* The device executes a kernel or a copy.                                 *)
LEMMA Device ==
  ASSUME BenchAssumption, BeInv, RunKernel \/ RunCopy
  PROVE  BeInv'
<1> USE DEF BeInv
<1>1. CASE RunKernel
  <2> USE <1>1 DEF RunKernel
  <2>1. /\ Head(kernels) \in Phase /\ kernels' \in Seq(Phase) /\ Len(kernels) \in Nat
        /\ Len(kernels') = Len(kernels) - 1 /\ Head(kernels) = kernels[1]
        /\ \A i \in 1..Len(kernels') : kernels'[i] = kernels[i + 1] /\ i + 1 \in 1..Len(kernels)
        /\ 1 \in 1..Len(kernels)
    BY HeadTailProperties, ElementOfSeq DEF BeType
  <2>2. window' \in Count
    BY <2>1, Counts DEF BeType
  <2>3. BeType'
    BY <2>1, <2>2 DEF BeType, SameSetup, Points
  <2>4. TimerInv'
    <3>1. SUFFICES ASSUME step = "timed" PROVE TimerInv'
      BY DEF TimerInv
    <3>2. Head(kernels) = "timed" /\ \A i \in 1..Len(kernels') : kernels'[i] = "timed"
      BY <2>1, <3>1 DEF TimerInv
    <3>3. window'["warm"] = window["warm"] /\ window'["timed"] = window["timed"] + 1
      BY <3>1, <3>2 DEF BeType, Count, Phase
    <3>4. TimedOnly(window', launched' - Len(kernels'))
      BY <2>1, <3>1, <3>3 DEF TimerInv, TimedOnly, BeType
    <3>5. QED
      BY <3>1, <3>2, <3>4 DEF TimerInv, SameSetup
  <2>5. UNCHANGED <<held, point, skipped, exit, program, step, rows>>
    BY DEF SameSetup
  <2>6. RowsInv'
    BY <2>5 DEF RowsInv
  <2>7. HeldInv'
    BY <2>5, HoldsOnTo
  <2>8. QED
    BY <2>3, <2>4, <2>6, <2>7
<1>2. CASE RunCopy
  <2> USE <1>2 DEF RunCopy
  <2>1. copies' \in Seq(Phase)
    BY HeadTailProperties DEF BeType
  <2>2. BeType'
    BY <2>1 DEF BeType, SameSetup, Points
  <2>3. UNCHANGED <<held, point, skipped, exit, program, step, rows>>
    BY DEF SameSetup
  <2>4. TimerInv' /\ RowsInv'
    BY <2>3 DEF TimerInv, RowsInv
  <2>5. HeldInv'
    BY <2>3, HoldsOnTo
  <2>6. QED
    BY <2>2, <2>4, <2>5
<1>3. QED
  BY <1>1, <1>2

(* What drain_stalls makes of the pairs.                                   *)
LEMMA DrainedCounts ==
  ASSUME BeType
  PROVE  /\ Drained \in Count
         /\ program # "sweep" => Drained["warm"] = 0 /\ Drained["timed"] = 0
         /\ program = "sweep" /\ stalled = None /\ (\A i \in 1..Len(stalls) : stalls[i] = "timed")
              => Drained["warm"] = 0 /\ Drained["timed"] <= Len(stalls)
<1> DEFINE Of(ph) == {i \in DOMAIN stalls : stalls[i] = ph}
<1>1. Len(stalls) \in Nat /\ DOMAIN stalls = 1..Len(stalls)
  BY DEF BeType
<1>2. \A ph \in Phase : Cardinality(Of(ph)) \in Nat /\ Cardinality(Of(ph)) <= Len(stalls)
  <2>1. IsFiniteSet(1..Len(stalls)) /\ Cardinality(1..Len(stalls)) = Len(stalls)
    <3>1. PICK n \in Nat : n = Len(stalls)
      BY <1>1
    <3>2. IsFiniteSet(1..n) /\ Cardinality(1..n) = n
      <4>1. IsFiniteSet(1..n) /\ Cardinality(1..n) = IF 1 > n THEN 0 ELSE n - 1 + 1
        BY FS_Interval
      <4>2. QED
        BY <4>1
    <3>3. QED
      BY <3>1, <3>2
  <2>2. \A ph \in Phase : Of(ph) \subseteq 1..Len(stalls)
    BY <1>1
  <2>3. QED
    BY <2>1, <2>2, FS_Subset, FS_CardinalityType
<1>3. Drained = [ph \in Phase |-> IF program = "sweep" THEN stalled[ph] + Cardinality(Of(ph)) ELSE 0]
  BY DEF Drained
<1> HIDE DEF Of
<1>4. Drained \in Count
  BY <1>2, <1>3 DEF Count, BeType
<1>5. program # "sweep" => Drained["warm"] = 0 /\ Drained["timed"] = 0
  BY <1>3 DEF Phase
<1>6. ASSUME program = "sweep", stalled = None, \A i \in 1..Len(stalls) : stalls[i] = "timed"
      PROVE  Drained["warm"] = 0 /\ Drained["timed"] <= Len(stalls)
  <2>1. Of("warm") = {}
    BY <1>1, <1>6 DEF Of
  <2>2. Cardinality(Of("warm")) = 0
    BY <2>1, FS_EmptySet
  <2>3. /\ Drained["warm"] = stalled["warm"] + Cardinality(Of("warm"))
        /\ Drained["timed"] = stalled["timed"] + Cardinality(Of("timed"))
        /\ stalled["warm"] = 0 /\ stalled["timed"] = 0
    BY <1>3, <1>6 DEF Phase, None
  <2>4. QED
    BY <1>2, <2>2, <2>3 DEF Phase
<1>7. QED
  BY <1>4, <1>5, <1>6

(* The steps that set the timer up, drain the warm-up and stop it.         *)
LEMMA Timer ==
  ASSUME BenchAssumption, BeInv, BuildExecutor \/ SyncWarm \/ StopTimer
  PROVE  BeInv'
<1> USE DEF BeInv
<1>1. CASE BuildExecutor
  <2> USE <1>1 DEF BuildExecutor, StepsOn
  <2>1. held' \subseteq Resource \X (0..SweepPoints)
    BY BenchNumbers DEF BeType, Resource
  <2>2. BeType'
    BY <2>1, Counts DEF BeType, SameSetup, Points, BenchAssumption
  <2>3. TimerInv' /\ RowsInv'
    BY DEF TimerInv, RowsInv
  <2>4. HeldInv'
    BY BenchNumbers DEF HeldInv, ReturnsWhatItHeld, SameSetup
  <2>5. QED
    BY <2>2, <2>3, <2>4
<1>2. CASE SyncWarm
  <2> USE <1>2 DEF SyncWarm, StepsOn
  <2>1. stalls' \in Seq(Phase) /\ (program = "sweep" => stalls' = <<>>)
    BY DEF BeType
  <2>2. BeType'
    BY <2>1, Counts DEF BeType, SameSetup, Points, BenchAssumption
  <2>3. RowsInv'
    BY DEF RowsInv
  <2>6. TimerInv'
    <3>1. TimedOnly(None, 0) /\ Len(kernels') = 0
      BY Counts
    <3>2. TimedOnly(window', launched' - Len(kernels')) /\ TimedOnly(counted', launched')
      BY <3>1
    <3>3. QED
      BY <2>1, <3>2 DEF TimerInv, SameSetup
  <2>4. HeldInv'
    <3>1. UNCHANGED <<held, point, skipped, exit, program>> /\ step = "warm" /\ step' = "timed"
      BY DEF SameSetup
    <3>2. QED
      BY <3>1, HoldsOnTo
  <2>5. QED
    BY <2>2, <2>3, <2>4, <2>6
<1>3. CASE StopTimer
  <2> USE <1>3 DEF StopTimer, StepsOn
  <2>1. Len(kernels) = 0 /\ launched \in Nat /\ launched = ToTime
    BY DEF BeType
  <2>2. Drained \in Count /\ Drained["warm"] = 0 /\ Drained["timed"] <= launched
    <3>1. program # "sweep" => 0 <= launched
      BY <2>1
    <3>2. program = "sweep" => /\ stalled = None /\ Len(stalls) <= launched /\ Len(stalls) \in Nat
                               /\ \A i \in 1..Len(stalls) : stalls[i] = "timed"
      BY DEF TimerInv, BeType
    <3>3. Drained \in Count /\ Drained["timed"] \in Nat
      BY DrainedCounts, Counts
    <3>4. QED
      BY <2>1, <3>1, <3>2, <3>3, DrainedCounts
  <2>3. Row \in BenchRow
    BY <2>1, <2>2, BenchNumbers DEF Row, BenchRow, BeType
  <2>4. RowOk(Row)
    BY <2>1, <2>2 DEF RowOk, Row, TimerInv, TimedOnly
  <2>5. /\ rows' \in Seq(BenchRow) /\ Len(rows) \in Nat /\ Len(rows') = Len(rows) + 1
        /\ \A i \in 1..Len(rows') : rows'[i] = IF i <= Len(rows) THEN rows[i] ELSE Row
    BY <2>3, AppendProperties DEF BeType
  <2>6. RowsInv'
    BY <2>4, <2>5 DEF RowsInv
  <2>7. BeType'
    BY <2>2, <2>5 DEF BeType, SameSetup, Points
  <2>8. TimerInv' /\ HeldInv'
    BY HoldsOnTo DEF TimerInv, SameSetup
  <2>9. QED
    BY <2>6, <2>7, <2>8
<1>4. QED
  BY <1>1, <1>2, <1>3

(* Every step of a benchmark.                                              *)
LEMMA BeStep == BenchAssumption /\ BeInv /\ [BenchNext]_benchVars => BeInv'
<1> SUFFICES ASSUME BenchAssumption, BeInv, [BenchNext]_benchVars PROVE BeInv'
  OBVIOUS
<1>1. CASE UNCHANGED benchVars
  BY <1>1 DEF benchVars, BeInv, BeType, TimerInv, RowsInv, HeldInv, ReturnsWhatItHeld, Points
<1>2. CASE BenchNext
  BY <1>2, Ends, Acquires, GivesBack, TokenMoves, Device, Timer DEF BenchNext
<1>3. QED
  BY <1>1, <1>2

(* Every row a benchmark reports is of timed tokens only, all executed and *)
(* all counted, and a point that ends has given back what it held, but for *)
(* the tier a skipped point leaves.                                        *)
THEOREM RowsAreAlwaysMeasured == BenchSpec => []RowsAreMeasured
<1>1. BenchInit => BeInv
  BY BeStarts, BenchAssumption
<1>2. BeInv /\ [BenchNext]_benchVars => BeInv'
  BY BeStep, BenchAssumption
<1>3. BeInv => RowsAreMeasured
  <2> SUFFICES ASSUME BeInv PROVE RowsAreMeasured
    OBVIOUS
  <2> USE DEF BeInv
  <2>1. BenchTypeOK /\ ReturnsWhatItHeld
    BY DEF BeType, HeldInv, BenchTypeOK
  <2>2. \A i \in DOMAIN rows : i \in 1..Len(rows) /\ rows[i] \in BenchRow /\ RowOk(rows[i])
    BY DEF BeType, RowsInv
  <2>3. RowIsTimed /\ RowCountsTimed
    BY <2>2, Counts DEF RowOk, RowIsTimed, RowCountsTimed, BenchRow
  <2>4. SweepKeepsOnlyOrphans
    <3>1. point \in Nat
      BY BenchNumbers, BenchAssumption DEF BeType
    <3>2. QED
      BY <3>1 DEF HeldInv, SweepKeepsOnlyOrphans
  <2>5. QED
    BY <2>1, <2>3, <2>4 DEF RowsAreMeasured
<1>4. QED
  BY <1>1, <1>2, <1>3, PTL DEF BenchSpec
-----------------------------------------------------------------------------
(* Validation.                                                             *)

FedTokens == [Prompt -> Tokens \cup {"none"}]

Process == [at : 0..3, busy : BOOLEAN, item : 0..Prompts, only : ValRun \cup {NoRun},
            rerun : ValRun \cup {NoRun}, reason : BOOLEAN]

VaType ==
  /\ vproc \in Process
  /\ ours \in BOOLEAN /\ orphans \in Nat /\ built \in BOOLEAN /\ release \in BOOLEAN
  /\ items \in [TokenRun -> FedTokens] /\ forcing \in FedTokens /\ logged \in BOOLEAN
  /\ left \subseteq [run : ValRun, fed : FedTokens, item : 0..Prompts]
  /\ paths \in [ValRun -> {"none", "ok", "failed"}] /\ sessions \in 0..MaxSessions
  /\ mishaps \subseteq Mishap

(* Without the process nothing runs and no build is its own; a run that    *)
(* replaces a result is logged; the benchmark's neighbour is over.         *)
RunningInv ==
  /\ vproc.at = 0 => vproc = NoProcess /\ ~ours
  /\ vproc.busy /\ Done(Current) => logged
  /\ Running("R17") => ~ours
  /\ "cutOff" \notin mishaps => orphans = 0 /\ left = {}

(* Nothing of the forced run is there, under way or left behind.           *)
ForcedUntouched ==
  /\ \A p \in Prompt : items["R3"][p] = "none"
  /\ ~Running("R3") /\ \A d \in left : d.run # "R3"

(* Nothing writes for the free run any more.                               *)
FreeIsOver == Done("R1") /\ ~Running("R1")

(* What was fed, or is being fed, in the free run's context.               *)
InContext(p) ==
  items["R1"][p] # "none" =>
    /\ items["R3"][p] \in {"none", items["R1"][p]}
    /\ Running("R3") => forcing[p] = items["R1"][p]
    /\ \A d \in left : d.run = "R3" => d.fed[p] = items["R1"][p]

Compared == evidence["graph"] # "none" \/ release

(* Why a comparison stays good: the forced run begins when the free run is *)
(* over, and reads what nobody writes after.                               *)
ContextInv ==
  "freeLater" \notin mishaps =>
    /\ FreeIsOver \/ ForcedUntouched
    /\ \A d \in left : d.run # "R1"
    /\ \A p \in Prompt : InContext(p)
    /\ Compared => AllItems /\ SameContext

VaInv == VaType /\ RunningInv /\ ContextInv

(* The plan's three runs.                                                  *)
LEMMA PlanOfRuns ==
  /\ Len(Plan) = 3 /\ ValRun = {"R1", "R3", "R17"}
  /\ Plan[1] = "R1" /\ Plan[2] = "R3" /\ Plan[3] = "R17"
  /\ \A i \in 1..3 : Plan[i] \in ValRun
<1>1. Len(Plan) = 3 /\ DOMAIN Plan = 1..3 /\ Plan[1] = "R1" /\ Plan[2] = "R3" /\ Plan[3] = "R17"
  BY DEF Plan
<1>2. 1..3 = {1, 2, 3}
  OBVIOUS
<1>3. QED
  BY <1>1, <1>2 DEF ValRun

(* No process is a process.                                                *)
LEMMA NoProcessIsOne ==
  /\ ValidationAssumption => NoProcess \in Process
  /\ NoProcess.at = 0 /\ ~NoProcess.busy
  BY DEF NoProcess, Process, ValidationAssumption

(* Before the first session.                                               *)
LEMMA VaStarts == ValidationAssumption /\ ValInit => VaInv
<1> SUFFICES ASSUME ValidationAssumption, ValInit PROVE VaInv
  OBVIOUS
<1> USE DEF ValInit
<1>1. NoFeed \in FedTokens /\ \A p \in Prompt : NoFeed[p] = "none"
  BY DEF NoFeed, FedTokens
<1>2. VaType
  <2>1. vproc \in Process /\ sessions \in 0..MaxSessions /\ left = {} /\ mishaps \subseteq Mishap
    BY NoProcessIsOne DEF ValidationAssumption
  <2>2. items \in [TokenRun -> FedTokens] /\ forcing \in FedTokens
    BY <1>1
  <2>3. paths \in [ValRun -> {"none", "ok", "failed"}] /\ orphans \in Nat
    OBVIOUS
  <2>4. QED
    BY <2>1, <2>2, <2>3 DEF VaType
<1>3. RunningInv
  BY NoProcessIsOne DEF RunningInv, Running
<1>4. ContextInv
  <2>1. items["R3"] = NoFeed /\ items["R1"] = NoFeed
    BY DEF TokenRun
  <2>2. ~Compared /\ ~Running("R3")
    BY NoProcessIsOne DEF Compared, Running
  <2>3. ForcedUntouched
    BY <1>1, <2>1, <2>2 DEF ForcedUntouched
  <2>4. \A p \in Prompt : InContext(p)
    BY <1>1, <2>1 DEF InContext
  <2>5. QED
    BY <2>2, <2>3, <2>4 DEF ContextInv
<1>5. QED
  BY <1>2, <1>3, <1>4 DEF VaInv

(* What the context rests on stays where no item is written, no comparison *)
(* is made, no run begins, and no driver of the free run is left.          *)
LEMMA ContextStays ==
  ASSUME VaInv, UNCHANGED <<items, valGates>>, mishaps \subseteq mishaps',
         \A r \in ValRun : Running(r)' => Running(r) /\ forcing' = forcing,
         Done("R1") => Done("R1")',
         \A d \in left' : \/ d \in left
                          \/ /\ Running(d.run) /\ d.fed = forcing
                             /\ d.run = "R1" => "freeLater" \in mishaps'
  PROVE  ContextInv'
<1> SUFFICES ASSUME "freeLater" \notin mishaps' PROVE ContextInv'
  BY DEF ContextInv
<1>1. /\ FreeIsOver \/ ForcedUntouched
      /\ \A d \in left : d.run # "R1"
      /\ \A p \in Prompt : InContext(p)
      /\ Compared => AllItems /\ SameContext
  BY DEF VaInv, ContextInv
<1>2. "R1" \in ValRun /\ "R3" \in ValRun
  BY PlanOfRuns
<1>3. FreeIsOver' \/ ForcedUntouched'
  <2>1. CASE FreeIsOver
    BY <1>2, <2>1 DEF FreeIsOver
  <2>2. CASE ForcedUntouched
    BY <1>2, <2>2 DEF ForcedUntouched
  <2>3. QED
    BY <1>1, <2>1, <2>2
<1>4. \A d \in left' : d.run # "R1"
  BY <1>1
<1>5. ASSUME NEW p \in Prompt PROVE InContext(p)'
  BY <1>1, <1>2, <1>5 DEF InContext
<1>6. (Compared => AllItems /\ SameContext)'
  BY <1>1 DEF Compared, AllItems, SameContext, valGates
<1>7. QED
  BY <1>3, <1>4, <1>5, <1>6 DEF ContextInv

(* The process goes to the next run, or ends.                              *)
LEMMA ProcessMoves ==
  ASSUME ValidationAssumption, VaType, vproc.at # 0, NextRun \/ vproc' = NoProcess
  PROVE  /\ vproc' \in Process /\ ~vproc'.busy /\ (vproc'.at = 0 => vproc' = NoProcess)
         /\ \A r \in ValRun : ~Running(r)'
<1>1. vproc.at \in 1..3 /\ vproc \in Process
  BY DEF VaType, Process
<1>2. CASE vproc' = NoProcess
  BY <1>2, NoProcessIsOne DEF Running
<1>3. CASE NextRun /\ vproc.at # 3
  <2>1. vproc' = [vproc EXCEPT !.at = vproc.at + 1, !.busy = FALSE, !.item = 0]
    BY <1>3, PlanOfRuns DEF NextRun
  <2>2. vproc' \in Process /\ ~vproc'.busy /\ vproc'.at # 0
    <3>1. vproc.at + 1 \in 1..3 /\ 0 \in 0..Prompts
      BY <1>1, <1>3 DEF ValidationAssumption
    <3>2. /\ vproc.only \in ValRun \cup {NoRun} /\ vproc.rerun \in ValRun \cup {NoRun}
          /\ vproc.reason \in BOOLEAN
      BY <1>1 DEF Process
    <3>3. vproc' = [at |-> vproc.at + 1, busy |-> FALSE, item |-> 0, only |-> vproc.only,
                    rerun |-> vproc.rerun, reason |-> vproc.reason]
      BY <1>1, <2>1 DEF Process
    <3>4. QED
      BY <3>1, <3>2, <3>3 DEF Process
  <2>3. QED
    BY <2>2 DEF Running
<1>4. QED
  BY <1>2, <1>3, PlanOfRuns DEF NextRun

(* No item is prescribed but the free run's own.                           *)
LEMMA FeedTypes ==
  ASSUME VaType, NEW r \in ValRun, NEW free \in Tokens
  PROVE  /\ Feed(r, free) \in FedTokens
         /\ r = "R3" => \A p \in Prompt : items["R1"][p] # "none" => Feed(r, free)[p] = items["R1"][p]
<1>1. items["R1"] \in FedTokens
  BY DEF VaType, TokenRun
<1>2. CASE r = "R17"
  BY <1>2 DEF Feed, NoFeed, FedTokens
<1>3. CASE r # "R17"
  <2>1. Feed(r, free) =
          [p \in Prompt |-> IF r = "R3" /\ items["R1"][p] # "none" THEN items["R1"][p] ELSE free]
    BY <1>3 DEF Feed
  <2>2. QED
    BY <1>1, <2>1 DEF FedTokens
<1>4. QED
  BY <1>2, <1>3

(* A run begins: the forced one when the free run is over, or the context  *)
(* is given up.                                                            *)
LEMMA RunBegins ==
  ASSUME ValidationAssumption, VaInv, StartRun
  PROVE  VaInv'
<1>1. vproc.at \in 1..3 /\ Current \in ValRun /\ vproc \in Process /\ 0 \in 0..Prompts
  <2>1. vproc.at # 0
    BY DEF StartRun, AtRun
  <2>2. vproc \in Process /\ 0 \in 0..Prompts
    BY DEF VaInv, VaType, ValidationAssumption
  <2>3. vproc.at \in 1..3
    BY <2>1, <2>2 DEF Process
  <2>4. QED
    BY <2>2, <2>3, PlanOfRuns DEF Current
<1> USE DEF VaInv, StartRun, AtRun
<1>2. /\ vproc' \in Process /\ vproc'.at = vproc.at /\ vproc'.busy
      /\ Current' = Current /\ \A r \in ValRun : Running(r)' <=> r = Current
  BY <1>1 DEF Process, Current, Running
<1>3. PICK free \in Tokens : forcing' = Feed(Current, free)
  OBVIOUS
<1>4. VaType'
  BY <1>1, <1>2, <1>3, FeedTypes DEF VaType, valBuilds, valGates, Mishap
<1>5. RunningInv'
  <2>1. Done(Current) => logged'
    BY DEF MayStart
  <2>2. Current = "R17" => ~ours
    BY DEF HoldsBench
  <2>3. "R17" \in ValRun /\ UNCHANGED <<ours, orphans, left, paths>>
    BY PlanOfRuns DEF valBuilds
  <2>4. "cutOff" \notin mishaps' => "cutOff" \notin mishaps
    OBVIOUS
  <2>5. QED
    BY <1>1, <1>2, <2>1, <2>2, <2>3, <2>4 DEF RunningInv, Done
<1>6. ContextInv'
  <2> SUFFICES ASSUME "freeLater" \notin mishaps' PROVE ContextInv'
    BY DEF ContextInv
  <2>1. /\ "freeLater" \notin mishaps
        /\ Current = "R1" => ~Done("R1")
        /\ Current = "R3" => Done("R1")
    OBVIOUS
  <2>2. /\ FreeIsOver \/ ForcedUntouched
        /\ \A d \in left : d.run # "R1"
        /\ \A p \in Prompt : InContext(p)
        /\ Compared => AllItems /\ SameContext
    BY <2>1 DEF ContextInv
  <2>3. UNCHANGED <<items, paths, left, evidence, release>> /\ "R1" \in ValRun /\ "R3" \in ValRun
    BY PlanOfRuns DEF valGates
  <2>4. FreeIsOver' \/ ForcedUntouched'
    <3>1. CASE Current = "R3"
      BY <1>2, <2>1, <2>3, <3>1 DEF FreeIsOver, Done
    <3>2. CASE Current # "R3" /\ FreeIsOver
      BY <1>2, <2>1, <2>3, <3>2 DEF FreeIsOver, Done
    <3>3. CASE Current # "R3" /\ ForcedUntouched
      BY <1>2, <2>3, <3>3 DEF ForcedUntouched
    <3>4. QED
      BY <2>2, <3>1, <3>2, <3>3
  <2>5. ASSUME NEW p \in Prompt PROVE InContext(p)'
    <3>1. Running("R3")' /\ items["R1"][p] # "none" => forcing'[p] = items["R1"][p]
      BY <1>1, <1>2, <1>3, <2>3, FeedTypes
    <3>2. QED
      BY <2>2, <2>3, <3>1 DEF InContext
  <2>6. (Compared => AllItems /\ SameContext)'
    BY <2>2, <2>3 DEF Compared, AllItems, SameContext
  <2>7. QED
    BY <2>2, <2>3, <2>4, <2>5, <2>6 DEF ContextInv
<1>7. QED
  BY <1>4, <1>5, <1>6

(* An item is written: by the run under way, or by a driver left behind.   *)
(* That of the free run, where the context is not given up, while nothing  *)
(* of the forced run is there; that of the forced run as it was fed.       *)
LEMMA ItemKeepsContext ==
  ASSUME ValidationAssumption, VaInv, NEW r \in TokenRun, NEW p \in Prompt, NEW fed \in FedTokens,
         items' = [items EXCEPT ![r][p] = fed[p]],
         UNCHANGED <<valGates, paths, forcing, mishaps>>,
         \A q \in ValRun : Running(q)' <=> Running(q),
         \A d \in left' : \E e \in left : d.run = e.run /\ d.fed = e.fed,
         \/ Running(r) /\ fed = forcing
         \/ \E e \in left : e.run = r /\ e.fed = fed
  PROVE  ContextInv' /\ items' \in [TokenRun -> FedTokens]
<1> USE DEF VaInv
<1>1. items \in [TokenRun -> FedTokens] /\ "R1" \in TokenRun /\ "R3" \in TokenRun /\ r \in {"R1", "R3"}
  BY DEF VaType, TokenRun
<1>2. /\ items'[r] = [items[r] EXCEPT ![p] = fed[p]]
      /\ \A q \in TokenRun : q # r => items'[q] = items[q]
      /\ items'[r] \in FedTokens /\ items' \in [TokenRun -> FedTokens]
  BY <1>1 DEF FedTokens
<1>3. ASSUME "freeLater" \notin mishaps' PROVE ContextInv'
  <2>1. /\ FreeIsOver \/ ForcedUntouched
        /\ \A d \in left : d.run # "R1"
        /\ \A q \in Prompt : InContext(q)
        /\ Compared => AllItems /\ SameContext
    BY <1>3 DEF ContextInv
  <2>2. "R1" \in ValRun /\ "R3" \in ValRun
    BY PlanOfRuns
  <2>3. CASE r = "R1"
    <3>1. Running("R1")
      BY <2>1, <2>3
    <3>2. ForcedUntouched /\ ~FreeIsOver
      BY <2>1, <3>1 DEF FreeIsOver
    <3>3. items'["R3"] = items["R3"]
      BY <1>1, <1>2, <2>3
    <3>4. ForcedUntouched'
      BY <2>2, <3>2, <3>3 DEF ForcedUntouched
    <3>5. \A q \in Prompt : InContext(q)'
      BY <3>4 DEF ForcedUntouched, InContext
    <3>6. ~AllItems
      BY <3>2 DEF ForcedUntouched, AllItems
    <3>7. ~Compared'
      BY <2>1, <3>6 DEF Compared, valGates
    <3>8. QED
      BY <2>1, <3>4, <3>5, <3>7 DEF ContextInv
  <2>4. CASE r = "R3"
    <3>1. items'["R1"] = items["R1"] /\ items'["R3"] = [items["R3"] EXCEPT ![p] = fed[p]]
      BY <1>1, <1>2, <2>4
    <3>2. FreeIsOver
      BY <2>1, <2>4 DEF ForcedUntouched
    <3>3. FreeIsOver'
      BY <2>2, <3>2 DEF FreeIsOver, Done
    <3>4. items["R1"][p] # "none" => fed[p] = items["R1"][p]
      BY <2>1, <2>4 DEF InContext
    <3>5. ASSUME NEW q \in Prompt PROVE InContext(q)'
      <4>1. items'["R3"][q] = IF q = p THEN fed[p] ELSE items["R3"][q]
        BY <1>1, <3>1 DEF FedTokens
      <4>2. InContext(q)
        BY <2>1
      <4>3. /\ items'["R1"][q] = items["R1"][q]
            /\ items["R1"][q] # "none" => items'["R3"][q] \in {"none", items["R1"][q]}
        BY <3>1, <3>4, <4>1, <4>2 DEF InContext
      <4>4. items["R1"][q] # "none" => /\ Running("R3")' => forcing'[q] = items["R1"][q]
                                       /\ \A d \in left' : d.run = "R3" => d.fed[q] = items["R1"][q]
        BY <2>2, <4>2 DEF InContext
      <4>5. QED
        BY <4>3, <4>4 DEF InContext
    <3>6. ASSUME Compared PROVE (AllItems /\ SameContext)'
      <4>1. AllItems /\ SameContext
        BY <2>1, <3>6
      <4>2. fed[p] = items["R3"][p]
        BY <3>4, <4>1 DEF AllItems, SameContext
      <4>3. items'["R3"] = items["R3"]
        BY <1>1, <3>1, <4>2 DEF FedTokens
      <4>4. QED
        BY <3>1, <4>1, <4>3 DEF AllItems, SameContext
    <3>7. Compared' <=> Compared
      BY DEF Compared, valGates
    <3>8. QED
      BY <2>1, <3>3, <3>5, <3>6, <3>7 DEF ContextInv
  <2>5. QED
    BY <1>1, <2>3, <2>4
<1>4. QED
  BY <1>2, <1>3 DEF ContextInv

(* A session that ends early leaves its build.                             *)
LEMMA EarlyTypes ==
  ASSUME VaType, EndsEarly,
         mishaps' \in {mishaps \cup {"cutOff"}, mishaps \cup {"cutOff"} \cup {"freeLater"}}
  PROVE  ours' \in BOOLEAN /\ orphans' \in Nat /\ mishaps' \subseteq Mishap
<1>1. ours \in BOOLEAN /\ orphans \in Nat /\ mishaps \subseteq Mishap
  BY DEF VaType
<1>2. ours' = FALSE /\ orphans' = (IF ours THEN orphans + 1 ELSE orphans)
  BY DEF EndsEarly
<1>3. orphans' \in Nat
  <2>1. orphans \in Nat /\ orphans + 1 \in Nat
    BY <1>1
  <2>2. QED
    BY Zenon, <1>2, <2>1
<1>4. mishaps' \subseteq Mishap
  BY <1>1 DEF Mishap
<1>5. QED
  BY <1>2, <1>3, <1>4

(* Every step of a session, of the builds, of a driver left behind and of  *)
(* the evaluation.                                                         *)
LEMMA VaStep ==
  ASSUME ValidationAssumption, VaInv, [ValNext]_valVars
  PROVE  VaInv'
<1> USE DEF VaInv
<1>1. CASE StartValidate
  <2>1. /\ vproc'.at = 1 /\ ~vproc'.busy /\ vproc' \in Process
        /\ \A r \in ValRun : ~Running(r)'
    <3>1. PICK only \in ValRun \cup {NoRun}, rerun \in ValRun \cup {NoRun}, reason \in BOOLEAN :
            /\ vproc' = [NoProcess EXCEPT !.at = 1, !.only = only, !.rerun = rerun, !.reason = reason]
            /\ ours' = (only = NoRun /\ ~built)
      BY <1>1 DEF StartValidate
    <3>2. vproc' = [at |-> 1, busy |-> FALSE, item |-> 0, only |-> only, rerun |-> rerun,
                    reason |-> reason]
      BY <3>1 DEF NoProcess
    <3>3. 1 \in 0..3 /\ 0 \in 0..Prompts
      BY DEF ValidationAssumption
    <3>4. vproc' \in Process /\ vproc'.at = 1 /\ ~vproc'.busy
      BY <3>2, <3>3 DEF Process
    <3>5. QED
      BY <3>4 DEF Running
  <2> USE <1>1 DEF StartValidate, valBuilds, valGates
  <2>2. VaType'
    BY <2>1 DEF VaType, ValidationAssumption
  <2>3. RunningInv'
    BY <2>1, PlanOfRuns DEF RunningInv
  <2>4. ContextInv'
    BY <2>1, ContextStays DEF Done
  <2>5. QED
    BY <2>2, <2>3, <2>4
<1>2. CASE SkipRun
  <2> USE <1>2 DEF SkipRun, AtRun, valBuilds, valGates
  <2>1. /\ vproc' \in Process /\ ~vproc'.busy /\ (vproc'.at = 0 => vproc' = NoProcess)
        /\ \A r \in ValRun : ~Running(r)'
    BY ProcessMoves
  <2>2. VaType'
    BY <2>1 DEF VaType
  <2>3. vproc'.at = 0 => ~ours
    <3>1. vproc.at \in 1..3 /\ vproc \in Process
      BY DEF VaType, Process
    <3>2. vproc.at # 3 => vproc'.at # 0
      BY <3>1, PlanOfRuns DEF NextRun, Process
    <3>3. QED
      BY <3>2, PlanOfRuns DEF HoldsBench, Current
  <2>4. RunningInv'
    BY <2>1, <2>3 DEF RunningInv, Running
  <2>5. ContextInv'
    BY <2>1, ContextStays DEF Done
  <2>6. QED
    BY <2>2, <2>4, <2>5
<1>3. CASE RefuseRerun
  <2>0. EndsEarly /\ mishaps' = mishaps \cup {"cutOff"}
    BY <1>3 DEF RefuseRerun
  <2> USE <1>3 DEF RefuseRerun, AtRun, EndsEarly, valGates
  <2>1. /\ vproc' \in Process /\ ~vproc'.busy /\ vproc' = NoProcess
        /\ \A r \in ValRun : ~Running(r)'
    BY ProcessMoves
  <2>2. VaType'
    <3>1. ours' \in BOOLEAN /\ orphans' \in Nat /\ mishaps' \subseteq Mishap
      BY <2>0, EarlyTypes
    <3>2. QED
      BY <2>1, <3>1 DEF VaType
  <2>3. RunningInv'
    BY <2>1 DEF RunningInv, Running
  <2>4. ContextInv'
    BY <2>1, ContextStays DEF Done
  <2>5. QED
    BY <2>2, <2>3, <2>4
<1>4. CASE StartRun
  BY <1>4, RunBegins
<1>5. CASE FinishItem
  <2> USE <1>5 DEF FinishItem, valBuilds
  <2>1. vproc \in Process /\ vproc.item + 1 \in Prompt /\ Current \in TokenRun
    BY DEF VaType, Process, Prompt, ValidationAssumption
  <2>2. /\ vproc' \in Process /\ vproc'.at = vproc.at /\ vproc'.busy /\ Current' = Current
        /\ \A r \in ValRun : Running(r)' <=> Running(r)
    BY <2>1 DEF Process, Current, Running, ValidationAssumption
  <2>3. Running(Current) /\ forcing \in FedTokens
    BY DEF Running, VaType
  <2>4. ContextInv' /\ items' \in [TokenRun -> FedTokens]
    BY <2>1, <2>2, <2>3, ItemKeepsContext
  <2>5. VaType'
    BY <2>2, <2>4 DEF VaType, valGates
  <2>6. "R17" \in ValRun /\ vproc.at # 0
    BY PlanOfRuns, NoProcessIsOne DEF RunningInv
  <2>7. RunningInv'
    BY <2>2, <2>6 DEF RunningInv, Done
  <2>8. QED
    BY <2>4, <2>5, <2>7
<1>6. CASE RunEnds
  <2> USE <1>6 DEF RunEnds, NotRunning, valBuilds, valGates
  <2>0. vproc.at # 0
    BY NoProcessIsOne DEF RunningInv
  <2>1. /\ vproc' \in Process /\ ~vproc'.busy /\ (vproc'.at = 0 => vproc' = NoProcess)
        /\ \A r \in ValRun : ~Running(r)'
    BY <2>0, ProcessMoves
  <2>2. /\ paths' \in [ValRun -> {"none", "ok", "failed"}]
        /\ \A r \in ValRun : Done(r) => Done(r)'
    BY DEF VaType, Done
  <2>3. VaType'
    BY <2>1, <2>2 DEF VaType, NoFeed, FedTokens
  <2>4. vproc'.at = 0 => ~ours
    <3>1. vproc.at \in 1..3 /\ vproc \in Process
      BY <2>0 DEF VaType, Process
    <3>2. vproc.at # 3 => vproc'.at # 0
      BY <3>1, PlanOfRuns DEF NextRun, Process
    <3>3. vproc.at = 3 => ~ours
      BY PlanOfRuns DEF RunningInv, Running, Current
    <3>4. QED
      BY <3>2, <3>3
  <2>5. RunningInv'
    BY <2>1, <2>4 DEF RunningInv, Running
  <2>6. ContextInv'
    BY <2>1, <2>2, PlanOfRuns, ContextStays
  <2>7. QED
    BY <2>3, <2>5, <2>6
<1>7. CASE KillValidate
  <2>0. /\ EndsEarly
        /\ mishaps' \in {mishaps \cup {"cutOff"}, mishaps \cup {"cutOff"} \cup {"freeLater"}}
    BY <1>7 DEF KillValidate
  <2>a. \A d \in left' : \/ d \in left
                         \/ /\ vproc.busy /\ d = [run |-> Current, fed |-> forcing, item |-> vproc.item]
                            /\ Current = "R1" => "freeLater" \in mishaps'
    BY <1>7 DEF KillValidate
  <2>b. left' \subseteq [run : ValRun, fed : FedTokens, item : 0..Prompts]
    <3>1. vproc \in Process /\ vproc.at # 0
      BY <1>7 DEF KillValidate, VaType
    <3>2. vproc.at \in 1..3 /\ vproc.item \in 0..Prompts
      BY <3>1 DEF Process
    <3>3. Current \in ValRun
      BY <3>2, PlanOfRuns DEF Current
    <3>4. forcing \in FedTokens /\ left \subseteq [run : ValRun, fed : FedTokens, item : 0..Prompts]
      BY DEF VaType
    <3>5. [run |-> Current, fed |-> forcing, item |-> vproc.item]
            \in [run : ValRun, fed : FedTokens, item : 0..Prompts]
      BY <3>2, <3>3, <3>4
    <3>6. QED
      BY <2>a, <3>4, <3>5
  <2> USE <1>7 DEF KillValidate, EndsEarly, NotRunning, valGates
  <2>1. /\ vproc' \in Process /\ ~vproc'.busy /\ vproc' = NoProcess
        /\ \A r \in ValRun : ~Running(r)'
    BY ProcessMoves
  <2>3. VaType'
    <3>1. ours' \in BOOLEAN /\ orphans' \in Nat /\ mishaps' \subseteq Mishap
      BY <2>0, EarlyTypes
    <3>2. forcing' \in FedTokens /\ logged' \in BOOLEAN
      BY DEF NoFeed, FedTokens
    <3>3. QED
      BY <2>1, <2>b, <3>1, <3>2 DEF VaType
  <2>4. RunningInv'
    BY <2>1 DEF RunningInv, Running
  <2>5. \A d \in left' : \/ d \in left
                         \/ /\ Running(d.run) /\ d.fed = forcing
                            /\ d.run = "R1" => "freeLater" \in mishaps'
    <3> TAKE d \in left'
    <3>1. CASE d \in left
      BY <3>1
    <3>2. CASE d \notin left
      <4>1. /\ vproc.busy /\ d = [run |-> Current, fed |-> forcing, item |-> vproc.item]
            /\ Current = "R1" => "freeLater" \in mishaps'
        BY <2>a, <3>2
      <4>2. d.run = Current /\ d.fed = forcing
        BY <4>1
      <4>3. QED
        BY <4>1, <4>2 DEF Running
    <3>3. QED
      BY <3>1, <3>2
  <2>6. ContextInv'
    BY <2>1, <2>5, ContextStays DEF Done
  <2>7. QED
    BY <2>3, <2>4, <2>6
<1>8. CASE BuildVerify
  <2>1. /\ ours' \in BOOLEAN /\ orphans' \in Nat /\ built' \in BOOLEAN
        /\ ours' => ours
        /\ orphans = 0 => orphans' = 0
    <3>1. ours \in BOOLEAN /\ orphans \in Nat
      BY DEF VaType
    <3>2. \/ ours' = FALSE /\ orphans' = orphans
          \/ orphans > 0 /\ orphans' = orphans - 1 /\ ours' = ours
      BY <1>8 DEF BuildVerify
    <3>3. built' = TRUE
      BY <1>8 DEF BuildVerify
    <3>4. CASE ours' = FALSE /\ orphans' = orphans
      BY <3>1, <3>3, <3>4
    <3>5. CASE orphans > 0 /\ orphans' = orphans - 1 /\ ours' = ours
      BY <3>1, <3>3, <3>5
    <3>6. QED
      BY <3>2, <3>4, <3>5
  <2> USE <1>8 DEF BuildVerify, valGates
  <2>2. VaType'
    BY <2>1 DEF VaType
  <2>3. RunningInv'
    <3>1. /\ vproc' = vproc /\ paths' = paths /\ logged' = logged /\ left' = left
          /\ mishaps' = mishaps
      OBVIOUS
    <3>2. Current' = Current
      BY <3>1 DEF Current
    <3>3. (\A r \in ValRun : Done(r)' <=> Done(r)) /\ (Running("R17")' <=> Running("R17"))
      BY <3>1, <3>2 DEF Done, Running
    <3>4. Done(Current)' <=> Done(Current)
      BY <3>1, <3>2 DEF Done
    <3>5. /\ vproc.at = 0 => vproc = NoProcess /\ ~ours
          /\ vproc.busy /\ Done(Current) => logged
          /\ Running("R17") => ~ours
          /\ "cutOff" \notin mishaps => orphans = 0 /\ left = {}
      BY DEF RunningInv
    <3>6. (vproc.at = 0 => vproc = NoProcess /\ ~ours)' /\ (Running("R17") => ~ours)'
      BY <2>1, <3>1, <3>3, <3>5
    <3>7. (vproc.busy /\ Done(Current) => logged)'
      <4>1. vproc'.busy = vproc.busy /\ (logged' <=> logged)
        BY <3>1
      <4>2. QED
        BY Zenon, <3>4, <3>5, <4>1
    <3>8. ("cutOff" \notin mishaps => orphans = 0 /\ left = {})'
      BY <2>1, <3>1, <3>5
    <3>9. QED
      BY <3>6, <3>7, <3>8 DEF RunningInv
  <2>4. ContextInv'
    BY ContextStays DEF Running, Current, Done
  <2>5. QED
    BY <2>2, <2>3, <2>4
<1>9. CASE Evaluate
  <2> USE <1>9 DEF Evaluate, valBuilds
  <2>1. release' \in BOOLEAN /\ UNCHANGED <<vproc, ours, orphans, built, items, paths, sessions>>
    OBVIOUS
  <2>2. VaType'
    BY <2>1 DEF VaType
  <2>3. RunningInv'
    BY DEF RunningInv, Running, Done, Current
  <2>4. evidence["graph"] # "none" \/ (AllItems /\ SameContext)
    OBVIOUS
  <2>5. ContextInv'
    BY <2>4 DEF ContextInv, Compared, AllItems, SameContext, FreeIsOver, ForcedUntouched, InContext,
                Running, Done, Current
  <2>6. QED
    BY <2>2, <2>3, <2>5
<1>10. ASSUME NEW d \in left, LeftWrites(d) PROVE VaInv'
  <2>1. /\ d \in [run : ValRun, fed : FedTokens, item : 0..Prompts]
        /\ d.run \in TokenRun /\ d.item + 1 \in Prompt /\ d.fed \in FedTokens
        /\ [d EXCEPT !.item = d.item + 1] \in [run : ValRun, fed : FedTokens, item : 0..Prompts]
    <3>1. d \in [run : ValRun, fed : FedTokens, item : 0..Prompts]
      BY DEF VaType
    <3>2. d.run \in TokenRun /\ d.item < Prompts
      BY <1>10 DEF LeftWrites
    <3>3. d.item + 1 \in 0..Prompts /\ d.item + 1 \in 1..Prompts
      BY <3>1, <3>2 DEF ValidationAssumption
    <3>4. QED
      BY <3>1, <3>2, <3>3 DEF Prompt
  <2>2. /\ left' = (left \ {d}) \cup {[d EXCEPT !.item = d.item + 1]}
        /\ items' = [items EXCEPT ![d.run][d.item + 1] = d.fed[d.item + 1]]
        /\ UNCHANGED <<vproc, ours, orphans, built, paths, sessions, logged, forcing, mishaps, valGates>>
    BY <1>10 DEF LeftWrites, valBuilds
  <2>3. \A e \in left' : \E f \in left : e.run = f.run /\ e.fed = f.fed
    <3>1. LET e == [d EXCEPT !.item = d.item + 1] IN e.run = d.run /\ e.fed = d.fed
      BY <2>1
    <3>2. QED
      BY <1>10, <2>2, <3>1
  <2>4. \A r \in ValRun : Running(r)' <=> Running(r)
    BY <2>2 DEF Running, Current
  <2>5. ContextInv' /\ items' \in [TokenRun -> FedTokens]
    <3>1. PICK r \in TokenRun, p \in Prompt, fed \in FedTokens :
            r = d.run /\ p = d.item + 1 /\ fed = d.fed
      BY <2>1
    <3>2. items' = [items EXCEPT ![r][p] = fed[p]]
      BY <2>2, <3>1
    <3>3. \E e \in left : e.run = r /\ e.fed = fed
      BY <1>10, <3>1
    <3>4. UNCHANGED <<valGates, paths, forcing, mishaps>>
      BY <2>2
    <3>5. QED
      BY <2>3, <2>4, <3>2, <3>3, <3>4, ItemKeepsContext
  <2>6. left' \subseteq [run : ValRun, fed : FedTokens, item : 0..Prompts]
    <3>1. left \subseteq [run : ValRun, fed : FedTokens, item : 0..Prompts]
      BY DEF VaType
    <3>2. QED
      BY <2>1, <2>2, <3>1
  <2>7. VaType'
    BY <2>2, <2>5, <2>6 DEF VaType, valGates
  <2>8. RunningInv'
    <3>1. Current' = Current /\ (Running("R17")' <=> Running("R17")) /\ (Done(Current)' <=> Done(Current))
      BY <2>2 DEF Running, Current, Done
    <3>2. "cutOff" \in mishaps
      BY <1>10 DEF RunningInv
    <3>3. QED
      BY <2>2, <3>1, <3>2 DEF RunningInv
  <2>9. QED
    BY <2>5, <2>7, <2>8
<1>11. ASSUME NEW d \in left, LeftEnds(d) PROVE VaInv'
  <2> USE <1>11 DEF LeftEnds, valBuilds, valGates
  <2>1. left' \subseteq left
    OBVIOUS
  <2>2. VaType'
    BY <2>1 DEF VaType
  <2>3. RunningInv'
    BY <2>1 DEF RunningInv, Running, Done, Current
  <2>4. ContextInv'
    BY <2>1, ContextStays DEF Running, Current, Done
  <2>5. QED
    BY <2>2, <2>3, <2>4
<1>12. CASE UNCHANGED valVars
  <2> USE <1>12 DEF valVars, valBuilds, valGates
  <2>1. VaType' /\ RunningInv'
    BY DEF VaType, RunningInv, Running, Done, Current
  <2>2. ContextInv'
    BY ContextStays DEF Running, Current, Done
  <2>3. QED
    BY <2>1, <2>2
<1>13. QED
  BY <1>1, <1>2, <1>3, <1>4, <1>5, <1>6, <1>7, <1>8, <1>9, <1>10, <1>11, <1>12 DEF ValNext

(* Only a run under way or a driver left behind changes results, and that  *)
(* of a run with a result was logged when it started.                      *)
LEMMA RepeatIsLogged ==
  ASSUME ValidationAssumption, VaInv, [ValNext]_valVars, NEW r \in ValRun, Done(r)
  PROVE  /\ paths'[r] # paths[r] => logged
         /\ r \in TokenRun => \A p \in Prompt : items'[r][p] # items[r][p] =>
              \/ logged /\ Current = r
              \/ \E d \in left : d.run = r /\ d.fed[p] = items'[r][p]
<1>1. CASE FinishItem
  <2>1. /\ vproc.busy /\ Current \in TokenRun /\ UNCHANGED paths
        /\ items' = [items EXCEPT ![Current][vproc.item + 1] = forcing[vproc.item + 1]]
    BY <1>1 DEF FinishItem
  <2>2. \A q \in TokenRun : q # Current => items'[q] = items[q]
    BY <2>1 DEF VaInv, VaType
  <2>3. r = Current => logged
    BY <2>1 DEF VaInv, RunningInv
  <2>4. QED
    BY <2>1, <2>2, <2>3
<1>2. CASE RunEnds
  <2>1. /\ vproc.busy /\ UNCHANGED items
        /\ \E x \in {"ok", "failed"} : paths' = [paths EXCEPT ![Current] = x]
    BY <1>2 DEF RunEnds
  <2>2. paths'[r] # paths[r] => r = Current
    BY <2>1 DEF VaInv, VaType
  <2>3. QED
    BY <2>1, <2>2 DEF VaInv, RunningInv
<1>3. CASE \E d \in left : LeftWrites(d)
  <2>1. PICK d \in left : LeftWrites(d)
    BY <1>3
  <2>2. /\ d.run \in TokenRun /\ UNCHANGED paths /\ d.item + 1 \in Prompt
        /\ items' = [items EXCEPT ![d.run][d.item + 1] = d.fed[d.item + 1]]
    BY <2>1 DEF LeftWrites, VaInv, VaType, Prompt, ValidationAssumption
  <2>3. ASSUME r \in TokenRun, NEW p \in Prompt, items'[r][p] # items[r][p]
        PROVE  d.run = r /\ d.fed[p] = items'[r][p]
    <3>1. items \in [TokenRun -> FedTokens]
      BY DEF VaInv, VaType
    <3>2. d.run = r
      BY <2>2, <2>3, <3>1
    <3>3. items'[r] = [items[r] EXCEPT ![d.item + 1] = d.fed[d.item + 1]]
      BY <2>2, <2>3, <3>1, <3>2
    <3>4. items[r] \in FedTokens
      BY <2>3, <3>1
    <3>5. QED
      BY <2>2, <2>3, <3>2, <3>3, <3>4 DEF FedTokens
  <2>4. QED
    BY <2>2, <2>3
<1>4. CASE UNCHANGED <<paths, items>>
  BY <1>4
<1>5. QED
  BY <1>1, <1>2, <1>3, <1>4
     DEF ValNext, StartValidate, SkipRun, RefuseRerun, StartRun, KillValidate, BuildVerify,
         Evaluate, LeftEnds, valVars

(* The invariant holds in every behaviour.                                 *)
LEMMA VaAlways == ValSpec => []VaInv
<1>1. ValInit => VaInv
  BY VaStarts, ValidationAssumption
<1>2. VaInv /\ [ValNext]_valVars => VaInv'
  BY VaStep, ValidationAssumption
<1>3. QED
  BY <1>1, <1>2, PTL DEF ValSpec

(* Whatever is killed, left behind, started again, made in part or made    *)
(* again: until somebody makes the free run again, or it is written to by  *)
(* a driver left behind, what the forced run left is in its context, and   *)
(* gates that passed stay true of the runs; and beside a benchmark runs no *)
(* build of any session that was not cut off.                              *)
THEOREM ReleasesAreEarned == ValSpec => []ReleaseIsEarned
<1>1. VaInv => ReleaseIsEarned
  <2> SUFFICES ASSUME VaInv PROVE ReleaseIsEarned
    OBVIOUS
  <2> USE DEF VaInv
  <2>1. ValTypeOK
    BY PlanOfRuns DEF VaType, RunningInv, ValTypeOK, FedTokens, Process
  <2>2. ForcedIsInContext
    BY DEF ContextInv, ForcedIsInContext, InContext
  <2>3. ReleaseStillHolds
    BY DEF ContextInv, ReleaseStillHolds, Compared
  <2>4. BenchIsAlone
    BY DEF RunningInv, BenchIsAlone
  <2>5. QED
    BY <2>1, <2>2, <2>3, <2>4 DEF ReleaseIsEarned
<1>2. QED
  BY <1>1, VaAlways, PTL

(* A result that is there is replaced only by a rerun that was logged with *)
(* its reason; an item of it also by a driver that a kill left behind, as  *)
(* that driver was fed, and by nothing else.                               *)
THEOREM RerunsAreLogged == ValSpec => RepeatsAreLogged
<1>1. VaInv /\ [ValNext]_valVars =>
        [\A r \in ValRun : Done(r) =>
           /\ paths'[r] # paths[r] => logged
           /\ r \in TokenRun => \A p \in Prompt : items'[r][p] # items[r][p] =>
                \/ logged /\ Current = r
                \/ \E d \in left : d.run = r /\ d.fed[p] = items'[r][p]]_valVars
  BY RepeatIsLogged, ValidationAssumption
<1>2. QED
  BY <1>1, VaAlways, PTL DEF ValSpec, RepeatsAreLogged
-----------------------------------------------------------------------------
(* Clocks.                                                                 *)

(* A finite run of naturals is bounded.                                    *)
LEMMA Bounded ==
  ASSUME NEW m \in Nat, NEW v \in [1..m -> Nat]
  PROVE  \E b \in Nat : \A i \in 1..m : v[i] <= b
<1> DEFINE Wrong == {k \in 0..m : \A b \in Nat : ~ \A i \in 1..k : v[i] <= b}
<1>t. \A i \in 1..m : v[i] \in Nat
  OBVIOUS
<1>1. Wrong = {}
  <2> SUFFICES ASSUME Wrong # {} PROVE FALSE
    OBVIOUS
  <2>1. PICK k \in Wrong : \A j \in Wrong : ~ (<<j, k>> \in OpToRel(<, Nat))
    <3>1. Wrong \subseteq Nat
      OBVIOUS
    <3> HIDE DEF Wrong
    <3>2. QED
      BY <3>1, WFMin, NatLessThanWellFounded
  <2>2. k \in 1..m
    <3>1. k \in 0..m /\ ~ \A i \in 1..k : v[i] <= 0
      OBVIOUS
    <3>2. k # 0
      BY <3>1
    <3>3. QED
      BY <3>1, <3>2
  <2>3. k - 1 \notin Wrong
    <3>1. k - 1 < k /\ k - 1 \in Nat /\ k \in Nat
      BY <2>2
    <3>2. <<k - 1, k>> \in OpToRel(<, Nat)
      BY <3>1 DEF OpToRel
    <3> HIDE DEF Wrong
    <3>3. QED
      BY <3>2, <2>1
  <2>4. PICK b \in Nat : \A i \in 1..(k - 1) : v[i] <= b
    <3>1. k - 1 \in 0..m
      BY <2>2
    <3>2. QED
      BY <3>1, <2>3
  <2>n. ASSUME NEW c \in Nat, \A i \in 1..k : v[i] <= c
        PROVE  FALSE
    <3>1. \A c1 \in Nat : ~ \A i \in 1..k : v[i] <= c1
      OBVIOUS
    <3>2. QED
      BY <2>n, <3>1
  <2> HIDE DEF Wrong
  <2>w. v[k] \in Nat /\ \A i \in 1..k : i = k \/ i \in 1..(k - 1)
    BY <2>2, <1>t
  <2>5. CASE v[k] <= b
    <3>1. \A i \in 1..k : v[i] <= b
      BY <2>w, <2>4, <2>5
    <3>2. QED
      BY <3>1, <2>n
  <2>6. CASE v[k] > b
    <3>0. \A i \in 1..(k - 1) : v[i] \in Nat
      BY <2>2, <1>t
    <3>1. \A i \in 1..k : v[i] <= v[k]
      BY <3>0, <2>w, <2>4, <2>6
    <3>2. QED
      BY <3>1, <2>w, <2>n
  <2>7. QED
    BY <2>w, <2>5, <2>6
<1>2. m \in 0..m
  OBVIOUS
<1>3. QED
  BY <1>1, <1>2

(* There is a value in every place: the least that enough others do not    *)
(* exceed.                                                                 *)
LEMMA NthIs ==
  ASSUME NEW m \in Nat, NEW v \in [1..m -> Nat], NEW I \in SUBSET (1..m),
         NEW n \in 1..Cardinality(I)
  PROVE  /\ Nth(v, I, n) \in Nat
         /\ Cardinality(Under(v, I, Nth(v, I, n))) < n
         /\ n <= Cardinality(UpTo(v, I, Nth(v, I, n)))
<1> DEFINE Enough == {x \in Nat : n <= Cardinality(UpTo(v, I, x))}
<1>f. IsFiniteSet(I)
  BY FS_Interval, FS_Subset, m \in Int, 1 \in Int
<1>1. Enough # {}
  <2>1. PICK b \in Nat : \A i \in 1..m : v[i] <= b
    BY Bounded
  <2>2. UpTo(v, I, b) = I
    BY <2>1 DEF UpTo
  <2>3. n <= Cardinality(I)
    BY <1>f, FS_CardinalityType
  <2>4. QED
    BY <2>2, <2>3
<1>2. PICK x \in Enough : \A y \in Enough : ~ (<<y, x>> \in OpToRel(<, Nat))
  <2>1. Enough \subseteq Nat
    OBVIOUS
  <2> HIDE DEF Enough
  <2>2. QED
    BY <2>1, <1>1, WFMin, NatLessThanWellFounded
<1>3. Cardinality(Under(v, I, x)) < n
  <2>1. CASE x = 0
    <3>1. Under(v, I, x) = {}
      <4>1. \A i \in I : v[i] \in Nat
        OBVIOUS
      <4>2. \A i \in I : ~ (v[i] < x)
        BY <2>1, <4>1
      <4>3. QED
        BY <4>2 DEF Under
    <3>2. QED
      BY <3>1, FS_EmptySet
  <2>2. CASE x # 0
    <3>1. x - 1 \in Nat /\ x - 1 < x
      BY <2>2
    <3>2. x - 1 \notin Enough
      <4>1. <<x - 1, x>> \in OpToRel(<, Nat)
        BY <3>1 DEF OpToRel
      <4> HIDE DEF Enough
      <4>2. QED
        BY <4>1, <1>2
    <3>3. ~ (n <= Cardinality(UpTo(v, I, x - 1)))
      BY <3>1, <3>2
    <3>4. Under(v, I, x) = UpTo(v, I, x - 1)
      <4>1. \A i \in I : v[i] \in Nat
        OBVIOUS
      <4>2. \A i \in I : v[i] < x <=> v[i] <= x - 1
        BY <4>1
      <4>3. QED
        BY <4>2 DEF Under, UpTo
    <3>5. Cardinality(Under(v, I, x)) \in Nat
      BY <1>f, FS_Subset, FS_CardinalityType DEF Under
    <3>6. QED
      BY <3>3, <3>4, <3>5
  <2>3. QED
    BY <2>1, <2>2
<1>4. \E i \in I : v[i] = x
  <2>1. SUFFICES ASSUME \A i \in I : v[i] # x PROVE FALSE
    OBVIOUS
  <2>2. Under(v, I, x) = UpTo(v, I, x)
    <3>1. \A i \in I : v[i] \in Nat
      OBVIOUS
    <3>2. \A i \in I : v[i] < x <=> v[i] <= x
      BY <2>1, <3>1
    <3>3. QED
      BY <3>2 DEF Under, UpTo
  <2>3. Cardinality(UpTo(v, I, x)) \in Nat
    BY <1>f, FS_Subset, FS_CardinalityType DEF UpTo
  <2>4. QED
    BY <1>3, <2>2, <2>3
<1>5. x \in {v[i] : i \in I} /\ n <= Cardinality(UpTo(v, I, x))
  BY <1>4
<1> HIDE DEF Enough
<1>6. /\ Nth(v, I, n) \in {v[i] : i \in I}
      /\ Cardinality(Under(v, I, Nth(v, I, n))) < n
      /\ n <= Cardinality(UpTo(v, I, Nth(v, I, n)))
  BY <1>3, <1>5 DEF Nth
<1>7. QED
  BY <1>6

(* The verdict on a window speaks of half of it.                           *)
LEMMA MedianSpeaksOfHalf ==
  ASSUME NEW m \in Nat, NEW v \in [1..m -> Nat], NEW I \in SUBSET (1..m), I # {},
         NEW goal \in Nat
  PROVE  LET high == {i \in I : v[i] >= goal}
         IN  /\ TwiceMedian(v, I) >= 2 * goal => 2 * Cardinality(high) >= Cardinality(I)
             /\ TwiceMedian(v, I) < 2 * goal => 2 * Cardinality(high) <= Cardinality(I)
<1> DEFINE high == {i \in I : v[i] >= goal}
           low  == Under(v, I, goal)
           n    == Cardinality(I)
<1>f. IsFiniteSet(I)
  BY FS_Interval, FS_Subset, m \in Int, 1 \in Int
<1>t. \A i \in I : v[i] \in Nat
  OBVIOUS
<1>1. /\ n \in Nat /\ n >= 1 /\ Cardinality(high) \in Nat /\ Cardinality(low) \in Nat
      /\ Cardinality(high) + Cardinality(low) = n
  <2>1. n \in Nat /\ n # 0
    BY <1>f, FS_CardinalityType, FS_EmptySet
  <2>0. \A i \in I : v[i] >= goal <=> ~ (v[i] < goal)
    BY <1>t
  <2>2. high = I \ low /\ low \subseteq I
    BY <2>0 DEF Under
  <2>3. IsFiniteSet(low) /\ IsFiniteSet(high)
    BY <1>f, <2>2, FS_Subset
  <2>4. Cardinality(low) \in Nat /\ Cardinality(high) \in Nat
    BY <2>3, FS_CardinalityType
  <2>5. Cardinality(I \ low) = Cardinality(I) - Cardinality(I \cap low)
    BY <1>f, FS_Difference
  <2>6. I \cap low = low
    BY <2>2
  <2>8. PICK a \in Nat : a = n
    BY <2>1
  <2>9. a # 0 /\ Cardinality(high) = a - Cardinality(low)
    BY <2>1, <2>2, <2>5, <2>6, <2>8
  <2> HIDE DEF high, low, n
  <2>7. QED
    BY <2>4, <2>8, <2>9
(* A value at a place bounds the low ones from above or from below.        *)
<1>2. ASSUME NEW k \in 1..n, Nth(v, I, k) >= goal
      PROVE  Cardinality(low) < k
  <2>1. PICK x \in Nat : x = Nth(v, I, k)
    BY NthIs
  <2>2. Cardinality(Under(v, I, x)) < k
    BY NthIs, <2>1
  <2>3. low \subseteq Under(v, I, x)
    <3>1. \A i \in I : v[i] < goal => v[i] < x
      BY <1>t, <1>2, <2>1
    <3>2. QED
      BY <3>1 DEF Under
  <2>4. IsFiniteSet(Under(v, I, x))
    BY <1>f, FS_Subset DEF Under
  <2> HIDE DEF low
  <2>5. Cardinality(low) <= Cardinality(Under(v, I, x)) /\ Cardinality(Under(v, I, x)) \in Nat
    BY <2>3, <2>4, FS_Subset, FS_CardinalityType
  <2>6. QED
    BY <2>2, <2>5, <1>1
<1>3. ASSUME NEW k \in 1..n, Nth(v, I, k) < goal
      PROVE  k <= Cardinality(low)
  <2>1. PICK x \in Nat : x = Nth(v, I, k)
    BY NthIs
  <2>2. k <= Cardinality(UpTo(v, I, x))
    BY NthIs, <2>1
  <2>3. UpTo(v, I, x) \subseteq low
    <3>1. \A i \in I : v[i] <= x => v[i] < goal
      BY <1>t, <1>3, <2>1
    <3>2. QED
      BY <3>1 DEF Under, UpTo
  <2>4. IsFiniteSet(low)
    BY <1>f, FS_Subset DEF Under
  <2> HIDE DEF low
  <2>5. Cardinality(UpTo(v, I, x)) <= Cardinality(low) /\ Cardinality(UpTo(v, I, x)) \in Nat
    BY <2>3, <2>4, FS_Subset, FS_CardinalityType
  <2>6. QED
    BY <2>2, <2>5, <1>1
<1>4. \A k \in 1..n : Nth(v, I, k) \in Nat
  BY NthIs
<1>5. PICK h \in Nat : h = Cardinality(high)
  BY <1>1
<1>6. PICK l \in Nat : l = Cardinality(low)
  BY <1>1
<1>7. PICK N \in Nat : N = n /\ N >= 1 /\ h + l = N
  BY <1>1, <1>5, <1>6
<1> HIDE DEF high, low, n
<1>8. CASE N % 2 = 1
  <2>1. PICK k \in Nat : k = N \div 2 + 1
    BY <1>7
  <2>2. k \in 1..N /\ 2 * k = N + 1
    BY <1>7, <1>8, <2>1
  <2>3. PICK x \in Nat : x = Nth(v, I, k)
    BY <1>4, <1>7, <2>2
  <2>4. TwiceMedian(v, I) = 2 * x
    BY <1>7, <1>8, <2>1, <2>3 DEF TwiceMedian, n
  <2>5. x >= goal => l < k
    BY <1>2, <1>6, <1>7, <2>2, <2>3
  <2>6. x < goal => k <= l
    BY <1>3, <1>6, <1>7, <2>2, <2>3
  <2>7. /\ TwiceMedian(v, I) >= 2 * goal => 2 * h >= N
        /\ TwiceMedian(v, I) < 2 * goal => 2 * h <= N
    BY <1>7, <2>2, <2>4, <2>5, <2>6
  <2>8. QED
    BY <2>7, <1>5, <1>7 DEF high, n
<1>9. CASE N % 2 # 1
  <2>1. PICK k \in Nat : k = N \div 2
    BY <1>7
  <2>2. k \in 1..N /\ k + 1 \in 1..N /\ 2 * k = N
    BY <1>7, <1>9, <2>1
  <2>3. PICK x \in Nat : x = Nth(v, I, k)
    BY <1>4, <1>7, <2>2
  <2>4. PICK y \in Nat : y = Nth(v, I, k + 1)
    BY <1>4, <1>7, <2>2
  <2>5. TwiceMedian(v, I) = x + y
    BY <1>7, <1>9, <2>1, <2>3, <2>4 DEF TwiceMedian, n
  <2>6. /\ x >= goal => l < k
        /\ y >= goal => l < k + 1
    BY <1>2, <1>6, <1>7, <2>2, <2>3, <2>4
  <2>7. /\ x < goal => k <= l
        /\ y < goal => k + 1 <= l
    BY <1>3, <1>6, <1>7, <2>2, <2>3, <2>4
  <2>8. /\ TwiceMedian(v, I) >= 2 * goal => 2 * h >= N
        /\ TwiceMedian(v, I) < 2 * goal => 2 * h <= N
    BY <1>7, <2>2, <2>5, <2>6, <2>7
  <2>9. QED
    BY <2>8, <1>5, <1>7 DEF high, n
<1>10. QED
  BY <1>8, <1>9

(* The same of a floor.                                                    *)
LEMMA FloorSpeaksOfHalf ==
  ASSUME NEW m \in Nat, NEW v \in [1..m -> Nat], NEW I \in SUBSET (1..m), NEW goal \in Nat
  PROVE  /\ ~Below(v, I, goal) => HalfAt(v, I, goal)
         /\ Below(v, I, goal) => I # {} /\ HalfUnder(v, I, goal)
<1>1. CASE I = {}
  <2>1. Cardinality({i \in I : v[i] >= goal}) = 0 /\ Cardinality(I) = 0
    <3>1. {i \in I : v[i] >= goal} = {}
      BY <1>1
    <3>2. QED
      BY <3>1, <1>1, FS_EmptySet
  <2>2. QED
    BY <1>1, <2>1 DEF Below, HalfAt
<1>2. CASE I # {}
  <2>1. /\ TwiceMedian(v, I) >= 2 * goal => 2 * Cardinality({i \in I : v[i] >= goal}) >= Cardinality(I)
        /\ TwiceMedian(v, I) < 2 * goal => 2 * Cardinality({i \in I : v[i] >= goal}) <= Cardinality(I)
    BY <1>2, MedianSpeaksOfHalf
  <2>2. TwiceMedian(v, I) \in Nat
    <3>1. IsFiniteSet(I)
      BY FS_Interval, FS_Subset, m \in Int, 1 \in Int
    <3>2. PICK n \in Nat : n = Cardinality(I) /\ n >= 1
      BY <1>2, <3>1, FS_CardinalityType, FS_EmptySet
    <3>3. \A k \in 1..n : Nth(v, I, k) \in Nat
      BY <3>2, NthIs
    <3>4. CASE n % 2 = 1
      <4>1. PICK k \in 1..n : k = n \div 2 + 1
        BY <3>2, <3>4
      <4>2. QED
        BY <3>2, <3>3, <3>4, <4>1 DEF TwiceMedian
    <3>5. CASE n % 2 # 1
      <4>1. PICK k \in 1..n : k = n \div 2 /\ k + 1 \in 1..n
        BY <3>2, <3>5
      <4>2. QED
        BY <3>2, <3>3, <3>5, <4>1 DEF TwiceMedian
    <3>6. QED
      BY <3>4, <3>5
  <2>3. PICK t \in Nat : t = TwiceMedian(v, I)
    BY <2>2
  <2>4. PICK d \in Nat : d = 2 * goal
    OBVIOUS
  <2>5. t >= d \/ t < d
    BY <2>3, <2>4
  <2>6. Below(v, I, goal) <=> t < d
    BY <1>2, <2>3, <2>4 DEF Below
  <2>7. CASE t < d
    BY <1>2, <2>1, <2>3, <2>4, <2>6, <2>7 DEF HalfUnder
  <2>8. CASE t >= d
    BY <2>1, <2>3, <2>4, <2>6, <2>8 DEF HalfAt
  <2>9. QED
    BY <2>5, <2>7, <2>8
<1>3. QED
  BY <1>1, <1>2

(* What the threads and the process are at, beside the property itself: a  *)
(* thread that has not started has no process, stop has ended none then,   *)
(* and the join that returned for its end returned for good.               *)
CkType ==
  /\ ClockTypeOK
  /\ sampler \in {"new", "reading", "checked", "done"} /\ smi \in {"none", "alive", "dead"}
  /\ main \in {"wait", "stop", "join", "record", "end"}
  /\ joined \in BOOLEAN /\ stopSaw \in {"unasked", "nothing", "ended", "failed"}

ThreadInv ==
  /\ sampler = "new" => smi = "none" /\ stopSaw \in {"unasked", "nothing"}
  /\ stopSaw = "unasked" => main \in {"wait", "stop"}
  /\ joined => sampler = "done"

CkInv == CkType /\ ThreadInv /\ ValidIsBoosted /\ RecordIsComplete /\ OnlyThenOrphaned

(* Before the run there is no record.                                      *)
LEMMA CkStarts == ClocksAssumption /\ ClockInit => CkInv
<1> SUFFICES ASSUME ClocksAssumption, ClockInit PROVE CkInv
  OBVIOUS
<1> USE DEF ClockInit, NoClockRecord
<1>0. <<>> \in Seq(Reading)
  OBVIOUS
<1>1. CkType
  <2>1. now \in 0..MaxTime /\ decoded \in 0..now
    BY ClocksAssumption DEF ClocksAssumption
  <2>2. rec.valid = "none"
    OBVIOUS
  <2>3. QED
    BY <1>0, <2>1, <2>2 DEF CkType, ClockTypeOK
<1>2. ThreadInv /\ ValidIsBoosted /\ RecordIsComplete /\ OnlyThenOrphaned
  BY DEF ThreadInv, ValidIsBoosted, RecordIsComplete, OnlyThenOrphaned
<1>3. QED
  BY <1>1, <1>2 DEF CkInv

(* The record that is made is true of its window.                          *)
LEMMA RecordIsTrue ==
  ASSUME ClocksAssumption, CkType, Record
  PROVE  ValidIsBoosted' /\ rec'.valid \in {"unknown", "valid", "invalid"}
<1>1. PICK m \in Nat : m = Len(samples)
  BY DEF CkType, ClockTypeOK
<1>2. /\ DOMAIN samples = 1..m
      /\ \A i \in 1..m : samples[i].sm \in Nat /\ samples[i].mem \in Nat
  <2>1. samples \in Seq(Reading)
    BY DEF CkType, ClockTypeOK
  <2>2. DOMAIN samples = 1..m /\ \A i \in 1..m : samples[i] \in Reading
    BY <1>1, <2>1
  <2>3. QED
    BY <2>2 DEF Reading
<1>3. PICK v \in [1..m -> Nat] : v = SmOf(samples)
  BY <1>2 DEF SmOf
<1>4. PICK w \in [1..m -> Nat] : w = MemOf(samples)
  BY <1>2 DEF MemOf
<1>5. PICK I \in SUBSET (1..m) : I = Steady
  BY <1>2 DEF Steady, Window
<1>6. PICK J \in SUBSET (1..m) : J = WithMem(w, I)
  BY DEF WithMem
<1>7. PICK g \in Nat : g = Boost
  BY DEF ClocksAssumption
<1>8. PICK f \in Nat : f = MemFloor
  BY DEF ClocksAssumption
<1>9. rec' = [valid |-> WindowVerdict(v, w, I), steady |-> I, whole |-> samples]
  BY <1>3, <1>4, <1>5 DEF Record
<1>10. /\ ~Below(v, I, g) => HalfAt(v, I, g)
       /\ Below(v, I, g) => HalfUnder(v, I, g)
       /\ ~Below(w, J, f) => HalfAt(w, J, f)
       /\ Below(w, J, f) => J # {} /\ HalfUnder(w, J, f)
  BY FloorSpeaksOfHalf
<1>11. PICK s : s = WindowVerdict(v, w, I)
  OBVIOUS
<1>12. /\ s \in {"unknown", "valid", "invalid"}
       /\ s = "valid" => ~Below(v, I, g) /\ ~Below(w, J, f)
       /\ s = "invalid" => Below(v, I, g) \/ Below(w, J, f)
  BY <1>6, <1>7, <1>8, <1>11 DEF WindowVerdict
<1>13. rec'.valid = s /\ rec'.steady = I /\ rec'.whole = samples
  BY <1>9, <1>11
<1>14. /\ rec'.valid = "valid" => HalfAt(v, I, g) /\ HalfAt(w, J, f)
       /\ rec'.valid = "invalid" => HalfUnder(v, I, g) \/ (J # {} /\ HalfUnder(w, J, f))
  BY <1>10, <1>12, <1>13
<1>15. /\ SmOf(rec'.whole) = v
       /\ MemOf(rec'.whole) = w
       /\ WithMem(MemOf(rec'.whole), rec'.steady) = J
  BY <1>3, <1>4, <1>6, <1>13
<1>16. ValidIsBoosted'
  BY <1>7, <1>8, <1>13, <1>14, <1>15 DEF ValidIsBoosted
<1>17. QED
  BY <1>12, <1>13, <1>16

(* Every step keeps it.                                                    *)
LEMMA CkKept == ClocksAssumption /\ CkInv /\ [ClockNext]_clockVars => CkInv'
<1> SUFFICES ASSUME ClocksAssumption, CkInv, [ClockNext]_clockVars PROVE CkInv'
  OBVIOUS
<1>u. CkType /\ ThreadInv /\ ValidIsBoosted /\ RecordIsComplete /\ OnlyThenOrphaned
  BY DEF CkInv
<1>1. CASE UNCHANGED clockVars
  BY <1>u, <1>1 DEF clockVars, CkInv, CkType, ClockTypeOK, ThreadInv, ValidIsBoosted,
     RecordIsComplete, OnlyThenOrphaned
<1>t. CkType'
  <2>1. CASE SamplerKeeps
    <3>1. samples' \in Seq(Reading)
      <4>1. ASSUME NEW x \in Shown,
                   samples' = Append(samples, [t |-> now, sm |-> x.sm, mem |-> x.mem])
            PROVE  samples' \in Seq(Reading)
        <5>1. [t |-> now, sm |-> x.sm, mem |-> x.mem] \in Reading
          BY <1>u, <4>1 DEF CkType, ClockTypeOK, Reading, ClocksAssumption
        <5>2. QED
          BY <1>u, <4>1, <5>1 DEF CkType, ClockTypeOK
      <4>2. QED
        BY <1>u, <2>1, <4>1 DEF SamplerKeeps, CkType, ClockTypeOK
    <3>2. QED
      BY <1>u, <2>1, <3>1 DEF SamplerKeeps, ClockRest, CkType, ClockTypeOK
  <2>2. CASE Record
    BY <1>u, <2>2, RecordIsTrue DEF Record, CkType, ClockTypeOK
  <2>3. CASE Tick
    BY <1>u, <2>3 DEF Tick, ClockRest, CkType, ClockTypeOK, ClocksAssumption
  <2>4. CASE SamplerOpens \/ SamplerReads \/ SmiDies \/ DriverSteps
    BY <1>u, <2>4 DEF SamplerOpens, SamplerReads, SmiDies, DriverSteps, ClockRest, CkType, ClockTypeOK
  <2>5. CASE StopSets \/ StopTerminates \/ StopJoins
    BY <1>u, <2>5 DEF StopSets, StopTerminates, StopJoins, ClockRest, CkType, ClockTypeOK
  <2>6. QED
    BY <1>u, <1>1, <2>1, <2>2, <2>3, <2>4, <2>5 DEF ClockNext, CkInv
<1>2. ThreadInv'
  BY <1>u, <1>1 DEF ClockNext, ThreadInv, CkType, Tick, DriverSteps, SamplerOpens, SamplerReads, SamplerKeeps,
     SmiDies, StopSets, StopTerminates, StopJoins, Record, ClockRest, CkInv
<1>3. ValidIsBoosted'
  <2>1. CASE UNCHANGED rec
    BY <1>u, <2>1 DEF ValidIsBoosted
  <2>2. CASE Record
    BY <1>u, <2>2, RecordIsTrue
  <2>3. QED
    BY <1>1, <2>1, <2>2 DEF ClockNext, Tick, DriverSteps, SamplerOpens, SamplerReads, SamplerKeeps,
       SmiDies, StopSets, StopTerminates, StopJoins, ClockRest, clockVars
<1>4. RecordIsComplete'
  <2>1. CASE Record
    BY <2>1 DEF Record, RecordIsComplete
  <2>2. CASE SamplerKeeps
    BY <1>u, <2>2 DEF SamplerKeeps, ClockRest, RecordIsComplete, ThreadInv
  <2>3. CASE StopSets \/ StopTerminates \/ StopJoins
    BY <1>u, <2>3 DEF StopSets, StopTerminates, StopJoins, ClockRest, RecordIsComplete
  <2>4. CASE SamplerOpens \/ SamplerReads \/ SmiDies \/ DriverSteps \/ Tick
    BY <1>u, <2>4 DEF SamplerOpens, SamplerReads, SmiDies, DriverSteps, Tick, ClockRest, RecordIsComplete
  <2>5. QED
    BY <1>u, <1>1, <2>1, <2>2, <2>3, <2>4 DEF ClockNext, RecordIsComplete, clockVars
<1>5. OnlyThenOrphaned'
  BY <1>u, <1>1 DEF ClockNext, OnlyThenOrphaned, ThreadInv, CkType, Tick, DriverSteps,
     SamplerOpens, SamplerReads, SamplerKeeps, SmiDies, StopSets, StopTerminates, StopJoins, Record,
     ClockRest, CkInv
<1>6. QED
  BY <1>t, <1>2, <1>3, <1>4, <1>5 DEF CkInv

(* A clock record says of a run what was sampled in it: valid only if half *)
(* of the steady window's samples were at the boost clock and half of those *)
(* that show a memory clock at its floor, whole if the sampler was joined,  *)
(* and nvidia-smi outlives the run only if stop came before the thread had  *)
(* started it or could not end it (clocks.py:93-226), for every length of   *)
(* run, every set of clocks and every pair of floors.                       *)
THEOREM ClocksAreRecorded == ClockSpec => []ClockIsRecorded
<1>1. ClockInit => CkInv
  BY CkStarts, ClocksAssumption
<1>2. CkInv /\ [ClockNext]_clockVars => CkInv'
  BY CkKept, ClocksAssumption
<1>3. CkInv => ClockIsRecorded
  BY DEF CkInv, CkType, ClockIsRecorded
<1>4. QED
  BY <1>1, <1>2, <1>3, PTL DEF ClockSpec
-----------------------------------------------------------------------------
(* Inspector: what a set of parts adds up to.                              *)

(* A sum is finite, of nothing it is zero, and one more value adds itself. *)
LEMMA SumIsNat ==
  ASSUME NEW S, IsFiniteSet(S), NEW f \in [S -> Nat]
  PROVE  IsFiniteSet(UnitsOf(f)) /\ SumOf(f) \in Nat
<1> DEFINE U == {{x} \X (1..f[x]) : x \in S}
           g == [x \in S |-> {x} \X (1..f[x])]
<1>1. g \in Surjection(S, U)
  BY DEF Surjection
<1>2. IsFiniteSet(U)
  <2> HIDE DEF g, U
  <2>1. QED
    BY <1>1, FS_Surjection
<1>3. ASSUME NEW A \in U PROVE IsFiniteSet(A)
  <2>1. PICK x \in S : A = {x} \X (1..f[x])
    OBVIOUS
  <2>2. PICK n \in Nat : n = f[x]
    OBVIOUS
  <2>3. IsFiniteSet(1..n) /\ IsFiniteSet({x})
    BY FS_Interval, FS_Singleton, n \in Int, 1 \in Int
  <2>4. IsFiniteSet({x} \X (1..n))
    BY <2>3, FS_Product
  <2>5. QED
    BY <2>1, <2>2, <2>4
<1>4. UnitsOf(f) = UNION U
  BY DEF UnitsOf
<1> HIDE DEF U
<1>5. IsFiniteSet(UnitsOf(f))
  BY <1>2, <1>3, <1>4, FS_UNION
<1>6. QED
  BY <1>5, FS_CardinalityType DEF SumOf

LEMMA SumOfNone ==
  ASSUME NEW f, DOMAIN f = {}
  PROVE  SumOf(f) = 0
<1>1. UnitsOf(f) = {}
  BY DEF UnitsOf
<1>2. QED
  BY <1>1, FS_EmptySet DEF SumOf

(* The sum over two sets that have nothing in common.                      *)
LEMMA SumSplits ==
  ASSUME NEW S, NEW T, IsFiniteSet(S), IsFiniteSet(T), S \cap T = {},
         NEW W, W = S \cup T, NEW f \in [W -> Nat], NEW g \in [S -> Nat], NEW h \in [T -> Nat],
         \A x \in S : g[x] = f[x], \A x \in T : h[x] = f[x]
  PROVE  SumOf(f) = SumOf(g) + SumOf(h)
<1>1. UnitsOf(f) = UnitsOf(g) \cup UnitsOf(h)
  <2>1. \A x \in S : {x} \X (1..f[x]) = {x} \X (1..g[x])
    OBVIOUS
  <2>2. \A x \in T : {x} \X (1..f[x]) = {x} \X (1..h[x])
    OBVIOUS
  <2>3. DOMAIN f = S \cup T /\ DOMAIN g = S /\ DOMAIN h = T
    OBVIOUS
  <2>4. \A u : u \in UnitsOf(f) <=> \E x \in S \cup T : u \in {x} \X (1..f[x])
    BY <2>3 DEF UnitsOf
  <2>5. \A u : u \in UnitsOf(g) <=> \E x \in S : u \in {x} \X (1..g[x])
    BY <2>3 DEF UnitsOf
  <2>6. \A u : u \in UnitsOf(h) <=> \E x \in T : u \in {x} \X (1..h[x])
    BY <2>3 DEF UnitsOf
  <2>7. \A u : u \in UnitsOf(f) <=> u \in UnitsOf(g) \/ u \in UnitsOf(h)
    BY <2>1, <2>2, <2>4, <2>5, <2>6
  <2>8. QED
    BY <2>7
<1>2. UnitsOf(g) \cap UnitsOf(h) = {}
  BY DEF UnitsOf
<1>3. IsFiniteSet(UnitsOf(g)) /\ IsFiniteSet(UnitsOf(h)) /\ SumOf(g) \in Nat /\ SumOf(h) \in Nat
  BY SumIsNat
<1>4. PICK A, B : A = UnitsOf(g) /\ B = UnitsOf(h)
  OBVIOUS
<1>5. Cardinality(A \cap B) = 0 /\ IsFiniteSet(A) /\ IsFiniteSet(B)
  BY <1>2, <1>3, <1>4, FS_EmptySet
<1>6. Cardinality(A \cup B) = Cardinality(A) + Cardinality(B) - Cardinality(A \cap B)
  BY <1>5, FS_Union
<1>7. QED
  BY <1>1, <1>3, <1>4, <1>5, <1>6 DEF SumOf

LEMMA SumOfOne ==
  ASSUME NEW x, NEW n \in Nat, NEW f \in [{x} -> Nat], f[x] = n
  PROVE  SumOf(f) = n
<1>1. UnitsOf(f) = {x} \X (1..n)
  BY DEF UnitsOf
<1>2. IsFiniteSet({x}) /\ Cardinality({x}) = 1
  BY FS_Singleton
<1>3. IsFiniteSet(1..n) /\ Cardinality(1..n) = n
  <2>1. IsFiniteSet(1..n) /\ Cardinality(1..n) = IF 1 > n THEN 0 ELSE n - 1 + 1
    BY FS_Interval, n \in Int, 1 \in Int
  <2>2. QED
    BY <2>1
<1>4. Cardinality({x} \X (1..n)) = 1 * n
  BY <1>2, <1>3, FS_Product
<1>5. QED
  BY <1>1, <1>4 DEF SumOf

(* What holds of the empty set, and of a set with one element more than    *)
(* one it holds of, holds of every part of a finite set: there is no least *)
(* part it fails of.                                                       *)
LEMMA PartByPart ==
  ASSUME NEW S, IsFiniteSet(S), NEW Good, {} \in Good,
         \A T \in SUBSET S, x \in S : T \in Good /\ x \notin T => T \cup {x} \in Good
  PROVE  S \in Good
<1> DEFINE Bad == {n \in Nat : \E T \in SUBSET S : T \notin Good /\ Cardinality(T) = n}
<1>1. \A T \in SUBSET S : IsFiniteSet(T) /\ Cardinality(T) \in Nat
  BY FS_Subset, FS_CardinalityType
<1>2. SUFFICES ASSUME S \notin Good PROVE FALSE
  OBVIOUS
<1>3. Bad # {} /\ Bad \subseteq Nat
  BY <1>1, <1>2
<1>4. PICK n \in Bad : \A m \in Bad : ~ (<<m, n>> \in OpToRel(<, Nat))
  <2> HIDE DEF Bad
  <2>1. QED
    BY <1>3, WFMin, NatLessThanWellFounded
<1>5. PICK T \in SUBSET S : T \notin Good /\ Cardinality(T) = n
  OBVIOUS
<1>6. PICK x : x \in T
  BY <1>5
<1>7. Cardinality(T \ {x}) = n - 1 /\ IsFiniteSet(T)
  BY <1>1, <1>5, <1>6, FS_RemoveElement
<1>8. T \ {x} \notin Good
  <2>1. T \ {x} \in SUBSET S /\ x \in S /\ (T \ {x}) \cup {x} = T /\ x \notin T \ {x}
    BY <1>5, <1>6
  <2>2. QED
    BY <2>1, <1>5
<1>9. n - 1 \in Bad /\ n - 1 \in Nat /\ n \in Nat
  <2>1. n - 1 \in Nat
    BY <1>1, <1>7
  <2>2. n - 1 \in Bad
    BY <2>1, <1>7, <1>8
  <2>3. QED
    BY <2>1, <2>2
<1>10. <<n - 1, n>> \in OpToRel(<, Nat)
  BY <1>9 DEF OpToRel
<1>11. QED
  BY <1>4, <1>9, <1>10

(* The sum over a part T of f's domain.                                    *)
SumOver(f, T) == SumOf([x \in T |-> f[x]])

LEMMA OverSplits ==
  ASSUME NEW S, IsFiniteSet(S), NEW f \in [S -> Nat],
         NEW T \in SUBSET S, NEW R \in SUBSET S, T \cap R = {}
  PROVE  SumOver(f, T \cup R) = SumOver(f, T) + SumOver(f, R) /\ SumOver(f, T) \in Nat
<1>1. PICK W : W = T \cup R
  OBVIOUS
<1>2. PICK u, v, w : u = [x \in T |-> f[x]] /\ v = [x \in R |-> f[x]] /\ w = [x \in W |-> f[x]]
  OBVIOUS
<1>3. u \in [T -> Nat] /\ v \in [R -> Nat] /\ w \in [W -> Nat]
  BY <1>1, <1>2
<1>4. \A x \in T : u[x] = w[x]
  BY <1>1, <1>2
<1>5. \A x \in R : v[x] = w[x]
  BY <1>1, <1>2
<1>6. IsFiniteSet(T) /\ IsFiniteSet(R)
  BY FS_Subset
<1>7. SumOf(w) = SumOf(u) + SumOf(v)
  BY <1>1, <1>3, <1>4, <1>5, <1>6, SumSplits
<1>8. SumOf(u) \in Nat
  BY <1>3, <1>6, SumIsNat
<1>9. QED
  BY <1>1, <1>2, <1>7, <1>8 DEF SumOver

LEMMA OverGrows ==
  ASSUME NEW S, IsFiniteSet(S), NEW f \in [S -> Nat],
         NEW T \in SUBSET S, NEW x \in S, x \notin T
  PROVE  SumOver(f, T \cup {x}) = SumOver(f, T) + f[x] /\ SumOver(f, T) \in Nat
<1>1. T \cap {x} = {}
  OBVIOUS
<1>4. {x} \in SUBSET S
  OBVIOUS
<1>2. SumOver(f, T \cup {x}) = SumOver(f, T) + SumOver(f, {x}) /\ SumOver(f, T) \in Nat
  BY <1>1, <1>4, OverSplits
<1>6. PICK n \in Nat : n = f[x]
  OBVIOUS
<1>7. PICK h : h = [y \in {x} |-> f[y]]
  OBVIOUS
<1>3. h \in [{x} -> Nat] /\ h[x] = n
  BY <1>6, <1>7
<1>5. SumOf(h) = n
  BY <1>3, SumOfOne
<1>8. QED
  BY <1>2, <1>6, <1>7, <1>5 DEF SumOver

LEMMA OverAll ==
  ASSUME NEW S, NEW f \in [S -> Nat]
  PROVE  SumOver(f, S) = SumOf(f) /\ SumOver(f, {}) = 0
<1>1. f = [x \in S |-> f[x]]
  OBVIOUS
<1>2. PICK h : h = [x \in {} |-> f[x]] /\ DOMAIN h = {}
  OBVIOUS
<1>3. SumOf(h) = 0
  BY <1>2, SumOfNone
<1>4. QED
  BY <1>1, <1>2, <1>3 DEF SumOver

(* A sum of multiples.                                                     *)
LEMMA SumScales ==
  ASSUME NEW S, IsFiniteSet(S), NEW c \in Nat, NEW f \in [S -> Nat], NEW g \in [S -> Nat],
         \A x \in S : f[x] = c * g[x]
  PROVE  SumOf(f) = c * SumOf(g)
<1> DEFINE Good == {T \in SUBSET S : SumOver(f, T) = c * SumOver(g, T)}
<1>1. {} \in Good
  <2>1. SumOver(f, {}) = 0 /\ SumOver(g, {}) = 0
    BY OverAll
  <2>2. c * 0 = 0
    OBVIOUS
  <2>3. QED
    BY <2>1, <2>2
<1>2. ASSUME NEW T \in SUBSET S, NEW x \in S, T \in Good, x \notin T
      PROVE  T \cup {x} \in Good
  <2>1. SumOver(f, T \cup {x}) = SumOver(f, T) + f[x]
    BY <1>2, OverGrows
  <2>2. SumOver(g, T \cup {x}) = SumOver(g, T) + g[x] /\ SumOver(g, T) \in Nat
    BY <1>2, OverGrows
  <2>3. SumOver(f, T) = c * SumOver(g, T) /\ f[x] = c * g[x]
    BY <1>2
  <2>4. PICK a \in Nat, b \in Nat : a = SumOver(g, T) /\ b = g[x]
    BY <2>2
  <2>5. c * (a + b) = c * a + c * b
    OBVIOUS
  <2>6. SumOver(f, T \cup {x}) = c * SumOver(g, T \cup {x})
    BY <2>1, <2>2, <2>3, <2>4, <2>5
  <2>7. QED
    BY <2>6
<1>3. S \in Good
  <2> HIDE DEF Good
  <2>1. QED
    BY <1>1, <1>2, PartByPart
<1>4. SumOver(f, S) = SumOf(f) /\ SumOver(g, S) = SumOf(g)
  BY OverAll
<1>5. QED
  BY <1>3, <1>4

(* The sums of the groups add up to the sum.                               *)
LEMMA SumOfGroups ==
  ASSUME NEW S, IsFiniteSet(S), NEW f \in [S -> Nat], NEW B, IsFiniteSet(B), NEW k \in [S -> B],
         NEW parts \in [B -> Nat], \A b \in B : parts[b] = SumOver(f, {x \in S : k[x] = b})
  PROVE  SumOf(parts) = SumOf(f)
<1> DEFINE In(C) == {x \in S : k[x] \in C}
           Good == {C \in SUBSET B : SumOver(parts, C) = SumOver(f, In(C))}
<1>1. {} \in Good
  <2>1. In({}) = {}
    OBVIOUS
  <2>2. SumOver(parts, {}) = 0 /\ SumOver(f, {}) = 0
    BY OverAll
  <2>3. QED
    BY <2>1, <2>2
<1>2. ASSUME NEW C \in SUBSET B, NEW b \in B, C \in Good, b \notin C
      PROVE  C \cup {b} \in Good
  <2>1. PICK X, Y : X = In(C) /\ Y = {x \in S : k[x] = b}
    OBVIOUS
  <2>2. X \in SUBSET S /\ Y \in SUBSET S /\ X \cap Y = {} /\ In(C \cup {b}) = X \cup Y
    BY <1>2, <2>1
  <2>3. SumOver(f, X \cup Y) = SumOver(f, X) + SumOver(f, Y)
    BY <2>2, OverSplits
  <2>4. SumOver(parts, C \cup {b}) = SumOver(parts, C) + parts[b]
    BY <1>2, OverGrows
  <2>5. parts[b] = SumOver(f, Y) /\ SumOver(parts, C) = SumOver(f, X)
    BY <1>2, <2>1
  <2>6. SumOver(parts, C \cup {b}) = SumOver(f, In(C \cup {b}))
    BY <2>2, <2>3, <2>4, <2>5
  <2>7. QED
    BY <2>6
<1>3. B \in Good
  <2> HIDE DEF Good
  <2>1. QED
    BY <1>1, <1>2, PartByPart
<1>4. In(B) = S
  OBVIOUS
<1>5. SumOver(f, S) = SumOf(f) /\ SumOver(parts, B) = SumOf(parts)
  BY OverAll
<1>6. QED
  BY <1>3, <1>4, <1>5

(* The bytes of two sets of tensors that have none in common.              *)
LEMMA BytesAdd ==
  ASSUME NEW S \in SUBSET Tensor, NEW T \in SUBSET Tensor, IsFiniteSet(S), IsFiniteSet(T),
         S \cap T = {}
  PROVE  /\ BytesOf(S \cup T) = BytesOf(S) + BytesOf(T)
         /\ BytesOf(S) \in Nat /\ BytesOf(T) \in Nat
<1> DEFINE f == [t \in S \cup T |-> t.bytes]
           g == [t \in S |-> t.bytes]
           h == [t \in T |-> t.bytes]
<1>1. \A t \in S \cup T : t.bytes \in Nat
  BY DEF Tensor
<1>2. f \in [S \cup T -> Nat] /\ g \in [S -> Nat] /\ h \in [T -> Nat]
  BY <1>1
<1>3. (\A t \in S : g[t] = f[t]) /\ (\A t \in T : h[t] = f[t])
  OBVIOUS
<1>4. BytesOf(S \cup T) = SumOf(f) /\ BytesOf(S) = SumOf(g) /\ BytesOf(T) = SumOf(h)
  BY DEF BytesOf
<1> HIDE DEF f, g, h
<1>5. SumOf(f) = SumOf(g) + SumOf(h)
  BY <1>2, <1>3, SumSplits
<1>6. SumOf(g) \in Nat /\ SumOf(h) \in Nat
  BY <1>2, SumIsNat
<1>7. QED
  BY <1>4, <1>5, <1>6

(* The slice of a tensor the runtime decodes, and what it is when it is    *)
(* good: whole blocks of whole rows.                                       *)
LEMMA SliceSize ==
  ASSUME NEW t \in Tensor, Decodable(t), gguf.nExperts \in Nat
  PROVE  /\ PerExpert(t) \in Nat /\ t.qtype \in {"Q8_0", "Q4_K"}
         /\ SliceOk(t) =>
              /\ t.ne[1] % QuantBlock[t.qtype].n = 0
              /\ t.bytes = gguf.nExperts * PerExpert(t)
              /\ t.bytes = gguf.nExperts * t.ne[2]
                            * (t.ne[1] \div QuantBlock[t.qtype].n) * QuantBlock[t.qtype].bytes
<1>1. t.qtype \in {"Q8_0", "Q4_K"}
  BY DEF Decodable, RuntimeQuants
<1>2. PICK a \in Nat, b \in Nat, e \in Nat : a = t.ne[1] /\ b = t.ne[2] /\ e = gguf.nExperts
  BY DEF Tensor
<1>3. PICK n \in {32, 256}, w \in {34, 144} :
        n = QuantBlock[t.qtype].n /\ w = QuantBlock[t.qtype].bytes
  BY <1>1 DEF QuantBlock
<1>4. PICK p \in Nat : p = (a * b) \div n
  <2>1. a * b \in Nat
    BY SMT
  <2>2. QED
    BY <2>1
<1>5. PerExpert(t) = p * w
  BY <1>2, <1>3, <1>4 DEF PerExpert, Block
<1>6. p * w \in Nat
  BY SMT
<1>7. ASSUME SliceOk(t)
      PROVE  /\ a % n = 0 /\ t.bytes = e * (p * w)
             /\ t.bytes = e * b * (a \div n) * w
  <2>1. a % n = 0 /\ (p * w) * e = t.bytes
    BY <1>2, <1>3, <1>5, <1>7 DEF SliceOk, Block
  <2>2. PICK k \in Nat : k = a \div n /\ a = n * k
    <3>1. CASE n = 32
      BY <2>1, <3>1
    <3>2. CASE n = 256
      BY <2>1, <3>2
    <3>3. QED
      BY <3>1, <3>2
  <2>3. p = b * k
    <3>1. PICK q \in Nat : q = b * k
      BY SMT
    <3>2. a * b = n * q
      BY <2>2, <3>1, SMT
    <3>3. (n * q) \div n = q
      <4>1. CASE n = 32
        BY <4>1
      <4>2. CASE n = 256
        BY <4>2
      <4>3. QED
        BY <4>1, <4>2
    <3>4. QED
      BY <1>4, <3>1, <3>2, <3>3
  <2>4. (p * w) * e = e * (p * w)
    BY SMT
  <2>5. ((b * k) * w) * e = e * b * k * w
    BY SMT
  <2>6. QED
    BY <2>1, <2>2, <2>3, <2>4, <2>5
<1>8. QED
  BY <1>1, <1>2, <1>3, <1>5, <1>6, <1>7

(* What a turned-away set and an inspected one are told.                   *)
Turned(why) ==
  [supported |-> FALSE, why |-> why, contiguous |-> FALSE, experts |-> {},
   bank |-> 0, perToken |-> 0, perBlock |-> <<>>, fixed |-> 0, lookup |-> 0]
Inspected(c) ==
  [supported |-> c, why |-> IF c THEN "verified" ELSE "not contiguous",
   contiguous |-> c, experts |-> ExpInfo,
   bank |-> BytesOf(ExpInfo), perToken |-> PerToken, perBlock |-> PerBlock,
   fixed |-> BytesOf(Fixed), lookup |-> BytesOf(Looked)]

(* The table is of tensors of the shards that were read.                   *)
InTypeInv ==
  /\ gguf \in Disks /\ read \in 0..ShardCount
  /\ table \in SUBSET Tensor /\ IsFiniteSet(table)
  /\ \A t \in table : t.shard \in 0..read - 1

(* What is known of a tensor does not depend on the shard it came from.    *)
SameTensor(t, u) ==
  t.kind = u.kind /\ t.block = u.block /\ t.qtype = u.qtype /\ t.ne = u.ne /\ t.bytes = u.bytes

(* Every tensor of the shards that were read is in the table.              *)
FoundInv ==
  \A i \in ShardPaths(gguf) : Cardinality(Before(gguf, i)) < read =>
    \A t \in gguf.shards[i].tensors : \E u \in table : SameTensor(t, u)

(* A profile is returned when all was read, and is of what was read.       *)
ToldOnceInv ==
  \/ profile = NoProfile
  \/ /\ read = ShardCount
     /\ \/ \E why \in {"architecture", "not MoE"} : profile = Turned(why)
        \/ \E c \in BOOLEAN : profile = Inspected(c) /\ (c = TRUE => AllContig)

InInv == InTypeInv /\ FoundInv /\ ToldOnceInv

(* A set's shards: finitely many, each with fewer before it than there are,*)
(* and no two with as many before them.                                    *)
LEMMA Shards ==
  ASSUME NEW d, IsGguf(d)
  PROVE  /\ IsFiniteSet(ShardPaths(d)) /\ Cardinality(ShardPaths(d)) \in Nat
         /\ \A i \in ShardPaths(d) :
              /\ Cardinality(Before(d, i)) \in Nat
              /\ Cardinality(Before(d, i)) < Cardinality(ShardPaths(d))
              /\ IsFiniteSet(d.shards[i].tensors)
              /\ d.shards[i].tensors \in SUBSET Tensor
         /\ \A i, j \in ShardPaths(d) :
              Cardinality(Before(d, i)) = Cardinality(Before(d, j)) => i = j
<1> DEFINE P == ShardPaths(d)
<1>1. PICK n \in Nat : n = Len(d.shards) /\ DOMAIN d.shards = 1..n
  BY DEF IsGguf
<1>2. P \subseteq 1..n
  BY <1>1 DEF ShardPaths
<1>3. IsFiniteSet(1..n)
  BY FS_Interval, n \in Int, 1 \in Int
<1>4. IsFiniteSet(P)
  BY <1>2, <1>3, FS_Subset
<1>5. \A i \in P : Before(d, i) \subseteq P /\ i \in P \ Before(d, i) /\ i \in Int
  BY <1>2 DEF Before
<1>6. \A i, j \in P : i < j => Before(d, i) \subseteq Before(d, j) /\ i \in Before(d, j) \ Before(d, i)
  BY <1>2 DEF Before
<1>7. \A i \in P : IsFiniteSet(d.shards[i].tensors) /\ d.shards[i].tensors \in SUBSET Tensor
  <2>1. \A i \in DOMAIN d.shards : d.shards[i] \in [exists : BOOLEAN, tensors : SUBSET Tensor]
    <3>1. PICK R : R = [exists : BOOLEAN, tensors : SUBSET Tensor]
      OBVIOUS
    <3>2. PICK s \in Seq(R) : s = d.shards
      BY <3>1 DEF IsGguf
    <3>3. \A i \in DOMAIN s : s[i] \in R
      OBVIOUS
    <3>4. QED
      BY <3>1, <3>2, <3>3
  <2>2. \A i \in DOMAIN d.shards : d.shards[i].tensors \in SUBSET Tensor
    BY <2>1
  <2>3. QED
    BY <2>2 DEF IsGguf, ShardPaths
<1> HIDE DEF P
<1>8. ASSUME NEW A, NEW B, IsFiniteSet(B), A \subseteq B, NEW x \in B \ A
      PROVE  Cardinality(A) \in Nat /\ Cardinality(B) \in Nat /\ Cardinality(A) < Cardinality(B)
  <2>1. IsFiniteSet(A) /\ Cardinality(A) \in Nat /\ Cardinality(B) \in Nat
    BY <1>8, FS_Subset, FS_CardinalityType
  <2>2. Cardinality(A) <= Cardinality(B) /\ (Cardinality(A) = Cardinality(B) => A = B)
    BY <1>8, FS_Subset
  <2>3. A # B
    OBVIOUS
  <2>4. QED
    BY <2>1, <2>2, <2>3
<1>9. \A i \in P : Cardinality(Before(d, i)) \in Nat /\ Cardinality(Before(d, i)) < Cardinality(P)
  <2> SUFFICES ASSUME NEW i \in P
               PROVE  Cardinality(Before(d, i)) \in Nat /\ Cardinality(Before(d, i)) < Cardinality(P)
    OBVIOUS
  <2>1. PICK A : A = Before(d, i)
    OBVIOUS
  <2>2. A \subseteq P /\ i \in P \ A
    BY <1>5, <2>1
  <2>3. QED
    BY <1>4, <1>8, <2>1, <2>2
<1>10. \A i, j \in P : i < j => Cardinality(Before(d, i)) < Cardinality(Before(d, j))
  <2> SUFFICES ASSUME NEW i \in P, NEW j \in P, i < j
               PROVE  Cardinality(Before(d, i)) < Cardinality(Before(d, j))
    OBVIOUS
  <2>1. PICK A, B : A = Before(d, i) /\ B = Before(d, j)
    OBVIOUS
  <2>2. A \subseteq B /\ i \in B \ A
    BY <1>6, <2>1
  <2>3. IsFiniteSet(B)
    BY <1>4, <1>5, <2>1, FS_Subset
  <2>4. QED
    BY <1>8, <2>1, <2>2, <2>3
<1>11. \A i, j \in P : Cardinality(Before(d, i)) = Cardinality(Before(d, j)) => i = j
  <2> SUFFICES ASSUME NEW i \in P, NEW j \in P,
                      Cardinality(Before(d, i)) = Cardinality(Before(d, j)), i # j
               PROVE  FALSE
    OBVIOUS
  <2>1. i < j \/ j < i
    BY <1>5
  <2>2. QED
    BY <1>9, <1>10, <2>1
<1>12. Cardinality(P) \in Nat
  BY <1>4, FS_CardinalityType
<1>13. QED
  BY <1>4, <1>7, <1>9, <1>11, <1>12 DEF P

LEMMA InInit ==
  InspectInit => InInv
<1> SUFFICES ASSUME InspectInit PROVE InInv
  OBVIOUS
<1> USE DEF InspectInit
<1>1. IsGguf(gguf)
  BY DisksAssumption
<1>2. PICK d : d = gguf
  OBVIOUS
<1>3. /\ ShardCount \in Nat
      /\ \A i \in ShardPaths(gguf) : Cardinality(Before(gguf, i)) \in Nat
  BY <1>1, <1>2, Shards DEF ShardCount
<1>4. InTypeInv
  BY <1>3, FS_EmptySet DEF InTypeInv
<1>5. FoundInv
  BY <1>3 DEF FoundInv
<1>6. ToldOnceInv
  BY DEF ToldOnceInv
<1>7. QED
  BY <1>4, <1>5, <1>6 DEF InInv

(* A shard that is read puts all its tensors in the table.  One that it    *)
(* takes the place of had the name of one of them, so it was that tensor.  *)
LEMMA ReadKeeps ==
  ASSUME \A d \in Disks : OneOfAName(d), InInv, ReadShard
  PROVE  InInv'
<1>1. PICK i \in ShardPaths(gguf) :
        /\ Cardinality(Before(gguf, i)) = read
        /\ table' = {t \in table : TensorName(t) \notin {TensorName(u) : u \in Numbered(i)}}
                      \union Numbered(i)
  BY DEF ReadShard
<1>2. read' = read + 1 /\ gguf' = gguf /\ profile' = profile
  BY DEF ReadShard
<1>3. gguf \in Disks /\ read \in 0..ShardCount /\ table \in SUBSET Tensor /\ IsFiniteSet(table)
      /\ \A t \in table : t.shard \in 0..read - 1
  BY DEF InInv, InTypeInv
<1>4. PICK d \in Disks : d = gguf /\ IsGguf(d) /\ OneOfAName(d)
  BY <1>3, DisksAssumption
<1>5. PICK T \in SUBSET Tensor : T = gguf.shards[i].tensors /\ IsFiniteSet(T)
  BY <1>1, <1>4, Shards
<1>6. /\ ShardCount \in Nat /\ read < ShardCount
      /\ \A j \in ShardPaths(gguf) : /\ Cardinality(Before(gguf, j)) \in Nat
                                     /\ Cardinality(Before(gguf, j)) = read => j = i
  BY <1>1, <1>4, Shards DEF ShardCount
<1>7. PICK r \in Nat : r = read
  BY <1>3, <1>6
<1>8. PICK N : N = Numbered(i)
  OBVIOUS
<1>9. N = {[t EXCEPT !.shard = r] : t \in T}
  BY <1>5, <1>7, <1>8 DEF Numbered
<1>10. \A t \in T : /\ [t EXCEPT !.shard = r] \in Tensor /\ [t EXCEPT !.shard = r].shard = r
                    /\ TensorName([t EXCEPT !.shard = r]) = TensorName(t)
                    /\ SameTensor(t, [t EXCEPT !.shard = r])
  BY DEF Tensor, TensorName, SameTensor
<1>11. IsFiniteSet(N)
  <2> DEFINE F == [t \in T |-> [t EXCEPT !.shard = r]]
  <2>1. F \in Surjection(T, N)
    BY <1>9 DEF Surjection
  <2> HIDE DEF F
  <2>2. QED
    BY <1>5, <2>1, FS_Surjection
<1>12. N \in SUBSET Tensor /\ \A u \in N : u.shard = r
  BY <1>9, <1>10
<1>13. PICK old \in SUBSET Tensor :
         /\ old = {t \in table : TensorName(t) \notin {TensorName(u) : u \in Numbered(i)}}
         /\ IsFiniteSet(old) /\ table' = old \cup N
  BY <1>1, <1>3, <1>8, FS_Subset
<1>14. InTypeInv'
  <2>1. IsFiniteSet(old \cup N)
    BY <1>11, <1>13, FS_Union
  <2>2. IsFiniteSet(table') /\ table' \in SUBSET Tensor
    BY <1>12, <1>13, <2>1
  <2>3. \A t \in old \cup N : t.shard \in 0..r
    BY <1>3, <1>7, <1>12, <1>13
  <2>4. \A t \in table' : t.shard \in 0..read' - 1
    BY <1>2, <1>7, <1>13, <2>3
  <2>5. ShardCount' = ShardCount
    BY <1>2 DEF ShardCount
  <2>6. read' \in 0..ShardCount'
    BY <1>2, <1>6, <1>7, <2>5
  <2>7. gguf' \in Disks
    BY <1>2, <1>3
  <2>8. QED
    BY <2>2, <2>4, <2>6, <2>7 DEF InTypeInv
<1>15. FoundInv'
  <2>1. SUFFICES ASSUME NEW j \in ShardPaths(gguf), Cardinality(Before(gguf, j)) < r + 1,
                        NEW t \in gguf.shards[j].tensors
                 PROVE  \E u \in old \cup N : SameTensor(t, u)
    BY <1>2, <1>7, <1>13 DEF FoundInv
  <2>2. CASE Cardinality(Before(gguf, j)) = r
    <3>1. t \in T
      BY <1>5, <1>6, <1>7, <2>2
    <3>2. QED
      BY <1>9, <1>10, <3>1
  <2>3. CASE Cardinality(Before(gguf, j)) < r
    <3>1. PICK u \in table : SameTensor(t, u)
      BY <1>7, <2>3 DEF InInv, FoundInv
    <3>2. TensorName(u) = TensorName(t)
      BY <3>1 DEF SameTensor, TensorName
    <3>3. CASE u \in old
      BY <3>1, <3>3
    <3>4. CASE u \notin old
      <4>1. PICK w \in N : TensorName(u) = TensorName(w)
        BY <1>8, <1>13, <3>4
      <4>2. PICK v \in T : w = [v EXCEPT !.shard = r]
        BY <1>9
      <4>3. TensorName(v) = TensorName(t)
        BY <1>10, <3>2, <4>1, <4>2
      <4>4. v = t
        BY <1>4, <1>5, <4>3 DEF OneOfAName
      <4>5. QED
        BY <1>10, <4>2, <4>4
    <3>5. QED
      BY <3>3, <3>4
  <2>4. Cardinality(Before(gguf, j)) \in Nat
    BY <1>6
  <2>5. QED
    BY <2>1, <2>2, <2>3, <2>4
<1>16. profile = NoProfile
  <2>1. read # ShardCount
    BY <1>6, <1>7
  <2>2. QED
    BY <2>1 DEF InInv, ToldOnceInv
<1>17. ToldOnceInv'
  BY <1>2, <1>16 DEF ToldOnceInv
<1>18. QED
  BY <1>14, <1>15, <1>17 DEF InInv

LEMMA TellKeeps ==
  ASSUME InInv, TurnAway \/ Profiled
  PROVE  InInv'
<1>1. gguf' = gguf /\ read' = read /\ table' = table /\ read = ShardCount
  BY DEF TurnAway, Profiled, AllRead
<1>2. ShardCount' = ShardCount
  BY <1>1 DEF ShardCount
<1>3. InTypeInv' /\ FoundInv'
  BY <1>1, <1>2 DEF InInv, InTypeInv, FoundInv
<1>4. ToldOnceInv'
  <2>1. CASE TurnAway
    BY <1>1, <1>2, <2>1 DEF TurnAway, Refused, Turned, ToldOnceInv
  <2>2. CASE Profiled
    <3>1. PICK c \in BOOLEAN : c = (AllContig /\ ExpInfo # {})
      BY Zenon
    <3>2. profile' = Inspected(c) /\ (c = TRUE => AllContig)
      BY <2>2, <3>1, Zenon DEF Profiled, Inspected
    <3>3. Inspected(c)' = Inspected(c) /\ (AllContig' <=> AllContig)
      BY <1>1 DEF Inspected, AllContig, ExpInfo, PerToken, PerBlock, Fixed, Looked, BlocksSeen,
                  BlockCost, Decodable, SliceOk, PerExpert, Block
    <3>4. QED
      BY <1>1, <1>2, <3>2, <3>3 DEF ToldOnceInv
  <2>3. QED
    BY <2>1, <2>2
<1>5. QED
  BY <1>3, <1>4 DEF InInv

LEMMA InStep ==
  ASSUME \A d \in Disks : OneOfAName(d), InInv, [InspectNext]_inspectVars
  PROVE  InInv'
<1>1. CASE ReadShard
  BY <1>1, ReadKeeps
<1>2. CASE TurnAway \/ Profiled
  BY <1>2, TellKeeps
<1>3. CASE UNCHANGED inspectVars
  <2>1. gguf' = gguf /\ read' = read /\ table' = table /\ profile' = profile
    BY <1>3 DEF inspectVars
  <2>2. ShardCount' = ShardCount
    BY <2>1 DEF ShardCount
  <2>3. InTypeInv' /\ FoundInv'
    BY <2>1, <2>2 DEF InInv, InTypeInv, FoundInv
  <2>4. Inspected(TRUE)' = Inspected(TRUE) /\ Inspected(FALSE)' = Inspected(FALSE) /\ (AllContig' <=> AllContig)
    BY <2>1 DEF Inspected, AllContig, ExpInfo, PerToken, PerBlock, Fixed, Looked, BlocksSeen,
                BlockCost, Decodable, SliceOk, PerExpert, Block
  <2>5. ToldOnceInv'
    <3>1. CASE profile = NoProfile
      BY <2>1, <3>1 DEF ToldOnceInv
    <3>2. CASE \E why \in {"architecture", "not MoE"} : profile = Turned(why) /\ read = ShardCount
      BY <2>1, <2>2, <3>2 DEF ToldOnceInv, Turned
    <3>3. CASE \E c \in BOOLEAN : profile = Inspected(c) /\ (c = TRUE => AllContig) /\ read = ShardCount
      <4>1. PICK c \in BOOLEAN : profile = Inspected(c) /\ (c = TRUE => AllContig) /\ read = ShardCount
        BY <3>3
      <4>2. Inspected(c)' = Inspected(c)
        BY <2>4
      <4>3. QED
        BY <2>1, <2>2, <2>4, <4>1, <4>2 DEF ToldOnceInv
    <3>4. QED
      BY <3>1, <3>2, <3>3 DEF InInv, ToldOnceInv
  <2>6. QED
    BY <2>3, <2>5 DEF InInv
<1>4. QED
  BY <1>1, <1>2, <1>3 DEF InspectNext

(* The bytes of the bank, and its blocks', when every expert tensor's slice*)
(* is good.                                                                *)
LEMMA BankIsItsBlocks ==
  ASSUME InTypeInv, AllContig
  PROVE  BytesOf(ExpInfo) = gguf.nExperts * SumOf(PerBlock)
<1>1. gguf.nExperts \in Nat
  BY DisksAssumption DEF InTypeInv, IsGguf
<1>2. PICK e \in Nat : e = gguf.nExperts
  BY <1>1
<1>3. PICK E \in SUBSET Tensor : E = ExpInfo /\ IsFiniteSet(E)
  <2>1. ExpInfo \subseteq table
    BY DEF ExpInfo
  <2>2. IsFiniteSet(table) /\ table \subseteq Tensor
    BY DEF InTypeInv
  <2>3. IsFiniteSet(ExpInfo)
    BY <2>1, <2>2, FS_Subset
  <2>4. QED
    BY <2>1, <2>2, <2>3
<1>4. \A t \in E : PerExpert(t) \in Nat /\ t.bytes = e * PerExpert(t)
  <2> SUFFICES ASSUME NEW t \in E PROVE PerExpert(t) \in Nat /\ t.bytes = e * PerExpert(t)
    OBVIOUS
  <2>1. t \in Tensor /\ Decodable(t) /\ SliceOk(t)
    BY <1>3 DEF ExpInfo, AllContig
  <2>2. QED
    BY <1>1, <1>2, <2>1, SliceSize
<1>5. PICK f : f = [t \in E |-> t.bytes]
  OBVIOUS
<1>6. PICK g : g = [t \in E |-> PerExpert(t)]
  OBVIOUS
<1>7. f \in [E -> Nat] /\ g \in [E -> Nat]
  <2>1. \A t \in E : t.bytes \in Nat
    BY DEF Tensor
  <2>2. QED
    BY <1>4, <1>5, <1>6, <2>1
<1>8. \A t \in E : f[t] = e * g[t]
  BY <1>4, <1>5, <1>6
<1>9. SumOf(f) = e * SumOf(g)
  BY <1>3, <1>7, <1>8, SumScales
<1>10. PICK B : B = {t.block : t \in E}
  OBVIOUS
<1>11. PICK k : k = [t \in E |-> t.block]
  OBVIOUS
<1>12. k \in [E -> B] /\ k \in Surjection(E, B)
  BY <1>10, <1>11 DEF Surjection
<1>13. IsFiniteSet(B)
  BY <1>3, <1>12, FS_Surjection
<1>14. PICK parts : parts = PerBlock
  OBVIOUS
<1>15. parts = [b \in B |-> SlicesOf({t \in E : t.block = b})]
  BY <1>3, <1>10, <1>14 DEF PerBlock, BlocksSeen, BlockCost
<1>16. \A b \in B : parts[b] = SumOver(g, {t \in E : k[t] = b}) /\ parts[b] \in Nat
  <2> SUFFICES ASSUME NEW b \in B
               PROVE  parts[b] = SumOver(g, {t \in E : k[t] = b}) /\ parts[b] \in Nat
    OBVIOUS
  <2>1. PICK X \in SUBSET E : X = {t \in E : k[t] = b} /\ X = {t \in E : t.block = b}
    BY <1>11
  <2>2. parts[b] = SlicesOf(X)
    BY <1>15, <2>1
  <2>3. [t \in X |-> PerExpert(t)] = [t \in X |-> g[t]]
    BY <1>6
  <2>4. parts[b] = SumOver(g, X)
    BY <2>2, <2>3 DEF SlicesOf, SumOver
  <2>5. SumOver(g, X) \in Nat
    <3>1. X \cap {} = {} /\ {} \in SUBSET E
      OBVIOUS
    <3>2. QED
      BY <1>3, <1>7, <3>1, OverSplits
  <2>6. QED
    BY <2>1, <2>4, <2>5
<1>17. parts \in [B -> Nat]
  BY <1>15, <1>16
<1>18. SumOf(parts) = SumOf(g)
  BY <1>3, <1>7, <1>12, <1>13, <1>16, <1>17, SumOfGroups
<1>19. QED
  BY <1>2, <1>3, <1>5, <1>9, <1>14, <1>18 DEF BytesOf

(* What the invariant says once the profile is there.                      *)
LEMMA ToldIsTrue ==
  ASSUME InInv
  PROVE  ProfileIsTrue
<1>1. gguf \in Disks /\ IsGguf(gguf)
  BY DisksAssumption DEF InInv, InTypeInv
<1>2. PICK e \in Nat : e = gguf.nExperts
  BY <1>1 DEF IsGguf
<1>3. PICK E \in SUBSET Tensor, X \in SUBSET Tensor, L \in SUBSET Tensor :
        /\ E = ExpInfo /\ X = Fixed /\ L = Looked
        /\ table = (E \cup X) \cup L /\ E \cap X = {} /\ (E \cup X) \cap L = {}
  <2>1. PICK W \in SUBSET Tensor : W = table
    BY DEF InInv, InTypeInv
  <2>2. PICK E : E = ExpInfo /\ E \subseteq W
    BY <2>1 DEF ExpInfo
  <2>3. PICK X, L : X = Fixed /\ L = Looked
    OBVIOUS
  <2>4. X = {t \in W \ E : ~LookupName(t)} /\ L = {t \in W \ E : LookupName(t)}
    BY <2>1, <2>2, <2>3 DEF Fixed, Looked
  <2>5. W = (E \cup X) \cup L /\ E \cap X = {} /\ (E \cup X) \cap L = {}
    BY <2>2, <2>4
  <2>6. E \in SUBSET Tensor /\ X \in SUBSET Tensor /\ L \in SUBSET Tensor
    BY <2>2, <2>4
  <2>7. QED
    BY <2>1, <2>2, <2>3, <2>5, <2>6
<1>4. IsFiniteSet(E) /\ IsFiniteSet(X) /\ IsFiniteSet(L) /\ IsFiniteSet(E \cup X)
  <2>1. IsFiniteSet(table) /\ E \subseteq table /\ X \subseteq table /\ L \subseteq table
        /\ E \cup X \subseteq table
    BY <1>3 DEF InInv, InTypeInv
  <2>2. QED
    BY <2>1, FS_Subset
<1>5. BytesOf(E \cup X) = BytesOf(E) + BytesOf(X) /\ BytesOf(E) \in Nat /\ BytesOf(X) \in Nat
  BY <1>3, <1>4, BytesAdd
<1>6. BytesOf((E \cup X) \cup L) = BytesOf(E \cup X) + BytesOf(L) /\ BytesOf(L) \in Nat
  <2>1. PICK F \in SUBSET Tensor : F = E \cup X
    OBVIOUS
  <2>2. IsFiniteSet(F) /\ F \cap L = {}
    BY <1>3, <1>4, <2>1
  <2>3. BytesOf(F \cup L) = BytesOf(F) + BytesOf(L) /\ BytesOf(L) \in Nat
    BY <1>4, <2>2, BytesAdd
  <2>4. QED
    BY <2>1, <2>3
<1>7. BytesOf(table) = BytesOf(ExpInfo) + BytesOf(Fixed) + BytesOf(Looked)
  BY <1>3, <1>5, <1>6
<1>8. CASE profile = NoProfile
  BY <1>8 DEF ProfileIsTrue, InspectTypeOK, SupportedIsSliceable, BytesAreSplit,
              BlocksAreTheBank, InspectDone, InInv, InTypeInv
<1>9. ASSUME NEW why \in {"architecture", "not MoE"}, profile = Turned(why)
      PROVE  ProfileIsTrue
  <2>1. /\ profile.supported = FALSE /\ profile.why = why /\ profile.bank = 0
        /\ profile.fixed = 0
    BY <1>9 DEF Turned
  <2>2. InspectTypeOK
    <3>1. profile.supported \in BOOLEAN /\ profile.bank \in Nat /\ profile.fixed \in Nat
      <4>1. FALSE \in BOOLEAN /\ 0 \in Nat
        OBVIOUS
      <4>2. QED
        BY <2>1, <4>1, Zenon
    <3>2. QED
      BY <3>1 DEF InspectTypeOK, InInv, InTypeInv
  <2>3. profile.supported # TRUE /\ profile.why \notin {"verified", "not contiguous"}
    BY <2>1
  <2>4. SupportedIsSliceable /\ BlocksAreTheBank
    BY <2>3 DEF SupportedIsSliceable, BlocksAreTheBank
  <2>5. BytesAreSplit
    BY <2>3 DEF BytesAreSplit
  <2>6. QED
    BY <2>2, <2>4, <2>5 DEF ProfileIsTrue
<1>10. ASSUME NEW c \in BOOLEAN, profile = Inspected(c), c = TRUE => AllContig, read = ShardCount
       PROVE  ProfileIsTrue
  <2>1. /\ profile.supported = c /\ profile.bank = BytesOf(ExpInfo)
        /\ profile.fixed = BytesOf(Fixed) /\ profile.lookup = BytesOf(Looked)
        /\ profile.perBlock = PerBlock
    BY <1>10 DEF Inspected
  <2>2. InspectTypeOK
    BY <1>3, <1>5, <2>1 DEF InspectTypeOK, InInv, InTypeInv
  <2>3. BytesAreSplit
    BY <1>7, <2>1 DEF BytesAreSplit
  <2>4. BlocksAreTheBank
    BY <1>10, <2>1, BankIsItsBlocks DEF BlocksAreTheBank, InInv
  <2>5. SupportedIsSliceable
    <3>1. SUFFICES ASSUME c = TRUE, NEW i \in ShardPaths(gguf), NEW t \in gguf.shards[i].tensors,
                          t.kind \in Roles
                   PROVE  /\ t.qtype \in {"Q8_0", "Q4_K"}
                          /\ t.ne[1] % QuantBlock[t.qtype].n = 0
                          /\ t.bytes = gguf.nExperts * t.ne[2]
                                * (t.ne[1] \div QuantBlock[t.qtype].n) * QuantBlock[t.qtype].bytes
      BY <2>1 DEF SupportedIsSliceable, OnDisk
    <3>2. Cardinality(Before(gguf, i)) < read
      BY <1>1, <1>10, Shards DEF ShardCount
    <3>3. PICK u \in table : SameTensor(t, u)
      BY <3>2 DEF InInv, FoundInv
    <3>4. Decodable(u) /\ SliceOk(u) /\ u \in Tensor
      BY <1>10, <3>1, <3>3 DEF AllContig, ExpertName, SameTensor, InInv, InTypeInv
    <3>5. u.qtype \in {"Q8_0", "Q4_K"}
      BY <1>2, <3>4, SliceSize
    <3>6. /\ u.ne[1] % QuantBlock[u.qtype].n = 0
          /\ u.bytes = gguf.nExperts * u.ne[2]
                * (u.ne[1] \div QuantBlock[u.qtype].n) * QuantBlock[u.qtype].bytes
      BY <1>2, <3>4, SliceSize
    <3>7. QED
      BY <3>3, <3>5, <3>6 DEF SameTensor
  <2>6. QED
    BY <2>2, <2>3, <2>4, <2>5 DEF ProfileIsTrue
<1>11. QED
  BY <1>8, <1>9, <1>10 DEF InInv, ToldOnceInv

(* A profile is true of the set, whatever sets may be found, as long as a  *)
(* set has one tensor of a name (core/model_inspector.py:191-323).         *)
THEOREM ProfileStaysTrue ==
  ASSUME \A d \in Disks : OneOfAName(d)
  PROVE  InspectSpec => []ProfileIsTrue
<1>1. InInv /\ [InspectNext]_inspectVars => InInv'
  BY InStep
<1>2. QED
  BY <1>1, InInit, ToldIsTrue, PTL DEF InspectSpec
-----------------------------------------------------------------------------
(* Launch.                                                                  *)

(* What a record says of its run: its row's settings over the shell's, its *)
(* budget, and its passes.                                                 *)
OwnOf(row) ==
  IF lcommand = "matrix" THEN LaunchMatrix[row].own ELSE IF lcommand = "gate" THEN Checks ELSE {}

SettingsOf(env, own) ==
  /\ own \subseteq {s \in DOMAIN env : env[s] = "row"} \cup userSet
  /\ \A s \in DOMAIN env : env[s] = "row" => s \in own
  /\ \A s \in Checks \ (own \cup userSet \cup DOMAIN shellAtStart) : s \notin DOMAIN env
  /\ \A s \in ShippedSettings \ userSet :
       env[s] = IF s \in DOMAIN shellAtStart THEN "shell" ELSE "shipped"
  /\ \A s \in {"status_file", "layer_merge"} : s \in DOMAIN env => s \in userSet

BudgetOf(env, budget) == "hot_bytes" \notin userSet => env["hot_bytes"] = budget

RegimesOf(r, decodes, done) ==
  r # NoRegimes =>
    /\ r.fill = "prompt" /\ Range(r.warmup) \cup Range(r.steady) = {"decode"}
    /\ Len(r.warmup) + Len(r.steady) = decodes
    /\ decodes = done - 1
    /\ r.steady # <<>> => Len(r.warmup) = WarmupDecodes

RecordOk(r) ==
  SettingsOf(r.env, OwnOf(r.row)) /\ BudgetOf(r.env, r.budget)
    /\ RegimesOf(r.regimes, r.decodes, r.passes)

LaType ==
  /\ lcommand \in {"run", "matrix", "gate"} /\ (lcommand # "run" => userSet = {})
  /\ shell = shellAtStart /\ (\A s \in DOMAIN shell : shell[s] = "shell")
  /\ lpc \in {"settings", "driver", "record", "write", "done"}
  /\ driverExit \in {-1, 0, 3} /\ exitStatus \in -1..3 /\ (lpc = "done" <=> exitStatus # -1)
  /\ timesPrompt \in BOOLEAN

(* One run at a time, for the row that comes next; a command that is not a *)
(* matrix has one record at most.                                          *)
LaunchRowsInv ==
  /\ (\E S : records \in Seq(S))
  /\ lcommand = "matrix" =>
       /\ Len(records) <= Len(LaunchMatrix)
       /\ lpc \in {"settings", "driver", "record"} => Len(records) < Len(LaunchMatrix)
       /\ lpc = "write" \/ exitStatus = 0 => Len(records) = Len(LaunchMatrix)
  /\ lcommand # "matrix" => lpc # "write" /\ (lpc # "done" => records = <<>>)

RecordsInv == \A i \in DOMAIN records : records[i].row = i /\ RecordOk(records[i])

(* The driver's environment is its row's, and the steps it wrote are those *)
(* of the passes it did.                                                   *)
PassInv ==
  lpc \in {"driver", "record"} =>
    /\ SettingsOf(child, RowOwn) /\ BudgetOf(child, RecordedBudget)
    /\ passes \in 0..RowPasses /\ printed = (IF passes = 0 THEN 0 ELSE passes - 1)
    /\ stepFile = <<>> \/ (stepFile = StepTimes /\ passes = RowPasses)
    /\ lpc = "record" /\ driverExit = 0 => passes = RowPasses

(* A document has a record for every row.                                  *)
DocumentInv ==
  /\ document # OldDocument => lcommand = "matrix" /\ exitStatus = 0
  /\ lcommand = "matrix" /\ exitStatus = 0 => document.rows = records

LaInv == LaType /\ LaunchRowsInv /\ RecordsInv /\ PassInv /\ DocumentInv /\ GateIsEvidence

(* What the row that comes next sets, and how many passes it asks for.     *)
LEMMA LaunchRow ==
  ASSUME LaunchAssumption, LaType, LaunchRowsInv, lpc \in {"settings", "driver", "record"}
  PROVE  /\ RowOwn = OwnOf(Len(records) + 1) /\ RowOwn \subseteq {"hot_bytes"} \cup Checks
         /\ RowPasses \in Nat \ {0} /\ Len(records) \in Nat
<1>0. Len(records) \in Nat
  <2>1. PICK S : records \in Seq(S)
    BY DEF LaunchRowsInv
  <2> QED
    BY <2>1
<1>1. CASE lcommand = "matrix"
  <2>1. Len(records) + 1 \in 1..Len(LaunchMatrix) /\ Len(LaunchMatrix) \in Nat
    BY <1>0, <1>1 DEF LaunchRowsInv, LaunchAssumption
  <2> DEFINE R == [own : SUBSET ({"hot_bytes"} \cup Checks), passes : Nat \ {0}]
  <2>2. LaunchMatrix[Len(records) + 1] \in R
    <3>1. LaunchMatrix \in Seq(R)
      BY DEF LaunchAssumption
    <3> HIDE DEF R
    <3> QED
      BY <2>1, <3>1
  <2> QED
    BY <1>0, <1>1, <2>2 DEF RowOwn, RowPasses, OwnOf
<1>2. CASE lcommand # "matrix"
  BY <1>0, <1>2 DEF RowOwn, RowPasses, OwnOf, LaunchAssumption, Checks
<1> QED
  BY <1>1, <1>2

(* A setting laid over another one is what the driver gets.                *)
LEMMA LaidOverHas ==
  ASSUME NEW f, NEW g
  PROVE  /\ DOMAIN LaidOver(f, g) = DOMAIN f \cup DOMAIN g
         /\ \A s \in DOMAIN f : LaidOver(f, g)[s] = f[s]
         /\ \A s \in DOMAIN g \ DOMAIN f : LaidOver(f, g)[s] = g[s]
  BY DEF LaidOver

(* Who gave each setting the driver has.                                   *)
LEMMA ChildSettings ==
  ASSUME LaType, RowOwn \subseteq {"hot_bytes"} \cup Checks
  PROVE  SettingsOf(ChildEnv, RowOwn) /\ BudgetOf(ChildEnv, RecordedBudget)
<1> DEFINE base    == LaidOver(From(BaseSettings, "base"), shell)
           shipped == LaidOver(ShippedHere, base)
           laid    == LaidOver(Launched, shipped)
           under   == Restrict(laid, DOMAIN laid \ {"status_file", "layer_merge"})
<1>1. /\ DOMAIN ExtraSettings = userSet \cup RowOwn
      /\ \A s \in userSet : ExtraSettings[s] = "user"
      /\ \A s \in RowOwn \ userSet : ExtraSettings[s] = "row"
  BY LaidOverHas, Zenon DEF ExtraSettings, From, LaidOver
<1>2. /\ DOMAIN base = BaseSettings \cup DOMAIN shell
      /\ \A s \in BaseSettings : base[s] = "base"
      /\ \A s \in DOMAIN shell \ BaseSettings : base[s] = "shell"
  BY DEF From, LaidOver, LaType
<1>3. /\ DOMAIN shipped = ShippedSettings \cup BaseSettings \cup DOMAIN shell
      /\ \A s \in ShippedSettings \ DOMAIN shell : shipped[s] = "shipped"
      /\ \A s \in DOMAIN shipped \ (ShippedSettings \ DOMAIN shell) : shipped[s] = base[s]
  <2> HIDE DEF base
  <2> QED
    BY <1>2 DEF ShippedHere, From, LaidOver
<1>4. /\ DOMAIN laid = {"hot_bytes", "rt_lib", "prefetch"} \cup DOMAIN shipped
      /\ \A s \in {"hot_bytes", "rt_lib", "prefetch"} : laid[s] = "launcher"
      /\ \A s \in DOMAIN shipped \ {"hot_bytes", "rt_lib", "prefetch"} : laid[s] = shipped[s]
  <2> HIDE DEF shipped
  <2> QED
    BY DEF Launched, From, LaidOver
<1>5. /\ DOMAIN under = DOMAIN laid \ {"status_file", "layer_merge"}
      /\ \A s \in DOMAIN under : under[s] = laid[s]
  <2> HIDE DEF laid
  <2> QED
    BY DEF Restrict
<1>6. /\ DOMAIN ChildEnv = userSet \cup RowOwn \cup DOMAIN under
      /\ \A s \in userSet : ChildEnv[s] = "user"
      /\ \A s \in RowOwn \ userSet : ChildEnv[s] = "row"
      /\ \A s \in DOMAIN under \ (userSet \cup RowOwn) : ChildEnv[s] = under[s]
  <2>1. ChildEnv = LaidOver(ExtraSettings, under)
    BY DEF ChildEnv
  <2> HIDE DEF under
  <2> QED
    BY <2>1, <1>1 DEF LaidOver
<1> HIDE DEF base, shipped, laid, under
<1>7. \A s \in DOMAIN under : under[s] # "row"
  BY <1>2, <1>3, <1>4, <1>5 DEF ShippedSettings, BaseSettings
<1>8. /\ \A s \in Checks \ DOMAIN shell : s \notin DOMAIN under
      /\ \A s \in ShippedSettings :
           s \in DOMAIN under /\ s \notin RowOwn
             /\ under[s] = IF s \in DOMAIN shell THEN "shell" ELSE "shipped"
  BY <1>2, <1>3, <1>4, <1>5 DEF ShippedSettings, BaseSettings, Checks
<1>9. /\ "hot_bytes" \in DOMAIN under /\ under["hot_bytes"] = "launcher"
      /\ \A s \in {"status_file", "layer_merge"} : s \notin DOMAIN under /\ s \notin RowOwn
  BY <1>4, <1>5 DEF Checks
<1>10. SettingsOf(ChildEnv, RowOwn)
  <2>1. /\ RowOwn \subseteq {s \in DOMAIN ChildEnv : ChildEnv[s] = "row"} \cup userSet
        /\ \A s \in DOMAIN ChildEnv : ChildEnv[s] = "row" => s \in RowOwn
    BY <1>6, <1>7
  <2>2. /\ \A s \in Checks \ (RowOwn \cup userSet \cup DOMAIN shellAtStart) :
             s \notin DOMAIN ChildEnv
        /\ \A s \in ShippedSettings \ userSet :
             ChildEnv[s] = IF s \in DOMAIN shellAtStart THEN "shell" ELSE "shipped"
    BY <1>6, <1>8 DEF LaType
  <2>3. \A s \in {"status_file", "layer_merge"} : s \in DOMAIN ChildEnv => s \in userSet
    BY <1>6, <1>9
  <2> QED
    BY <2>1, <2>2, <2>3 DEF SettingsOf
<1>11. BudgetOf(ChildEnv, RecordedBudget)
  BY <1>6, <1>9 DEF BudgetOf, RecordedBudget
<1> QED
  BY <1>10, <1>11

(* Decodes split into a warm-up and a steady state: all of them, in order. *)
LEMMA SplitHolds ==
  ASSUME LaunchAssumption, NEW d \in Seq({"decode"}), Len(d) # 0
  PROVE  RegimesOf(Split("prompt", d), Len(d), Len(d) + 1)
<1> DEFINE r == Split("prompt", d)
<1>0. Len(d) \in Nat
  OBVIOUS
<1>1. \A i \in 1..Len(d) : d[i] = "decode"
  OBVIOUS
<1>2. /\ r.steady \in Seq({"decode"})
      /\ Len(r.steady) = IF WarmupDecodes + 1 <= Len(d) THEN Len(d) - WarmupDecodes ELSE 0
  <2>1. WarmupDecodes + 1 \in Int /\ Len(d) \in Int
        /\ \A i \in (WarmupDecodes + 1)..Len(d) : d[i] \in {"decode"}
    BY <1>1 DEF LaunchAssumption
  <2>2. r.steady = SubSeq(d, WarmupDecodes + 1, Len(d))
    BY DEF Split
  <2>3. /\ r.steady \in Seq({"decode"})
        /\ Len(r.steady)
             = IF WarmupDecodes + 1 <= Len(d) THEN Len(d) - (WarmupDecodes + 1) + 1 ELSE 0
    <3> HIDE DEF r
    <3>1. /\ SubSeq(d, WarmupDecodes + 1, Len(d)) \in Seq({"decode"})
          /\ Len(SubSeq(d, WarmupDecodes + 1, Len(d)))
               = IF WarmupDecodes + 1 <= Len(d) THEN Len(d) - (WarmupDecodes + 1) + 1 ELSE 0
      BY <2>1, SubSeqProperties
    <3> QED
      BY <2>2, <3>1
  <2> QED
    BY <2>3, <2>1 DEF LaunchAssumption
<1>3. /\ r.warmup \in Seq({"decode"})
      /\ Len(r.warmup) = IF Len(d) < WarmupDecodes THEN Len(d) ELSE WarmupDecodes
  <2>1. CASE Len(d) < WarmupDecodes
    BY <2>1 DEF Split
  <2>2. CASE ~(Len(d) < WarmupDecodes)
    <3>1. 1 \in Int /\ WarmupDecodes \in Int /\ \A i \in 1..WarmupDecodes : d[i] \in {"decode"}
      BY <1>1, <2>2 DEF LaunchAssumption
    <3>2. r.warmup = SubSeq(d, 1, WarmupDecodes)
      BY <2>2 DEF Split
    <3>3. /\ r.warmup \in Seq({"decode"})
          /\ Len(r.warmup) = IF 1 <= WarmupDecodes THEN WarmupDecodes - 1 + 1 ELSE 0
      <4> HIDE DEF r
      <4>1. /\ SubSeq(d, 1, WarmupDecodes) \in Seq({"decode"})
            /\ Len(SubSeq(d, 1, WarmupDecodes))
                 = IF 1 <= WarmupDecodes THEN WarmupDecodes - 1 + 1 ELSE 0
        BY <3>1, SubSeqProperties
      <4> QED
        BY <3>2, <4>1
    <3> QED
      BY <3>3, <2>2 DEF LaunchAssumption
  <2> QED
    BY <2>1, <2>2
<1>4. r.fill = "prompt"
  BY DEF Split
<1> HIDE DEF r
<1>5. Range(r.warmup) \cup Range(r.steady) = {"decode"}
  <2>1. Range(r.warmup) \subseteq {"decode"} /\ Range(r.steady) \subseteq {"decode"}
    BY <1>2, <1>3, RangeOfSeq
  <2>2. Len(r.warmup) # 0 \/ Len(r.steady) # 0
    BY <1>0, <1>2, <1>3 DEF LaunchAssumption
  <2>3. ASSUME NEW w \in Seq({"decode"}), Len(w) # 0 PROVE "decode" \in Range(w)
    <3>1. 1 \in 1..Len(w) /\ w[1] \in {"decode"} /\ Range(w) = {w[i] : i \in 1..Len(w)}
      BY <2>3, RangeEquality
    <3> QED
      BY <3>1
  <2> QED
    BY <1>2, <1>3, <2>1, <2>2, <2>3
<1>6. Len(r.warmup) + Len(r.steady) = Len(d) /\ Len(d) = (Len(d) + 1) - 1
  <2>1. ASSUME NEW n \in Nat, NEW w \in Nat
        PROVE  /\ (IF n < w THEN n ELSE w) + (IF w + 1 <= n THEN n - w ELSE 0) = n
               /\ n = (n + 1) - 1
    OBVIOUS
  <2>2. WarmupDecodes \in Nat
    BY DEF LaunchAssumption
  <2>3. (IF Len(d) < WarmupDecodes THEN Len(d) ELSE WarmupDecodes)
          + (IF WarmupDecodes + 1 <= Len(d) THEN Len(d) - WarmupDecodes ELSE 0) = Len(d)
    BY <1>0, <2>1, <2>2
  <2>4. Len(r.warmup) + Len(r.steady) = Len(d)
    BY <1>2, <1>3, <2>3, Zenon
  <2> QED
    BY <1>0, <2>1, <2>2, <2>4
<1>7. r.steady # <<>> => Len(r.warmup) = WarmupDecodes
  <2>1. SUFFICES ASSUME r.steady # <<>> PROVE Len(r.warmup) = WarmupDecodes
    OBVIOUS
  <2>2. Len(r.steady) # 0
    BY <1>2, <2>1
  <2> QED
    BY <1>0, <1>2, <1>3, <2>2 DEF LaunchAssumption
<1> QED
  BY <1>4, <1>5, <1>6, <1>7 DEF RegimesOf, r

(* The record's fill, warm-up and steady state are of the passes the       *)
(* driver did, whether it times the prompt by itself or not.               *)
LEMMA RegimesHold ==
  ASSUME LaunchAssumption, RowPasses \in Nat \ {0}, passes \in 0..RowPasses,
         printed = (IF passes = 0 THEN 0 ELSE passes - 1),
         stepFile = <<>> \/ (stepFile = StepTimes /\ passes = RowPasses)
  PROVE  RegimesOf(Regimes, printed, passes)
<1> DEFINE decodes == [i \in 1..RowPasses - 1 |-> "decode"]
<1>1. decodes \in Seq({"decode"}) /\ Len(decodes) = RowPasses - 1
  OBVIOUS
<1>2. CASE stepFile = <<>>
  BY <1>2 DEF Regimes, RegimesOf
<1>3. CASE stepFile # <<>>
  <2>1. stepFile = StepTimes /\ passes = RowPasses /\ passes > 0 /\ printed = RowPasses - 1
    BY <1>3
  <2>2. RegimesOf(NoRegimes, printed, passes)
    BY DEF RegimesOf
  <2>3. RowPasses - 1 # 0 => RegimesOf(Split("prompt", decodes), printed, passes)
    <3> HIDE DEF decodes
    <3>1. SUFFICES ASSUME Len(decodes) # 0
                   PROVE  RegimesOf(Split("prompt", decodes), printed, passes)
      BY <1>1
    <3>2. RegimesOf(Split("prompt", decodes), Len(decodes), Len(decodes) + 1)
      BY <1>1, <3>1, SplitHolds
    <3> QED
      BY <1>1, <2>1, <3>2
  <2>4. CASE timesPrompt
    <3>1. stepFile = decodes
      BY <2>1, <2>4 DEF StepTimes
    <3>2. RowPasses - 1 # 0
      BY <1>1, <1>3, <3>1
    <3> HIDE DEF decodes
    <3> QED
      BY <1>3, <2>1, <2>3, <2>4, <3>1, <3>2 DEF Regimes
  <2>5. CASE ~timesPrompt
    <3>1. stepFile = <<"prompt">> \o decodes
      BY <2>1, <2>5 DEF StepTimes
    <3> HIDE DEF decodes
    <3>2. /\ decodes \in Seq({"prompt", "decode"})
          /\ <<"prompt">> \in Seq({"prompt", "decode"}) /\ Len(<<"prompt">>) = 1
      <4>1. {"decode"} \subseteq {"prompt", "decode"}
        OBVIOUS
      <4>2. decodes \in Seq({"prompt", "decode"})
        BY <1>1, <4>1, SeqMonotonic
      <4> QED
        BY <4>2
    <3>3. /\ stepFile \in Seq({"prompt", "decode"}) /\ Len(stepFile) = 1 + Len(decodes)
          /\ \A i \in 1..(1 + Len(decodes)) :
               stepFile[i] = IF i <= 1 THEN <<"prompt">>[i] ELSE decodes[i - 1]
      BY <3>1, <3>2, ConcatProperties
    <3>4. /\ Len(stepFile) = RowPasses /\ stepFile[1] = "prompt"
          /\ \A i \in 1..Len(decodes) : stepFile[i + 1] = decodes[i]
      BY <1>1, <3>3
    <3>5. /\ Tail(stepFile) \in Seq({"prompt", "decode"}) /\ Len(Tail(stepFile)) = Len(decodes)
          /\ \A i \in 1..Len(Tail(stepFile)) : Tail(stepFile)[i] = stepFile[i + 1]
      BY <1>1, <1>3, <3>3, <3>4, HeadTailProperties
    <3>6. Tail(stepFile) = decodes
      BY <3>2, <3>4, <3>5, SeqEqual
    <3>7. Head(stepFile) = "prompt"
      BY <1>3, <3>3, <3>4
    <3>8. CASE Len(stepFile) < 2
      BY <2>2, <2>5, <3>8 DEF Regimes
    <3>9. CASE ~(Len(stepFile) < 2)
      <4>1. Regimes = Split("prompt", decodes)
        BY <2>5, <3>6, <3>7, <3>9 DEF Regimes
      <4>2. RowPasses - 1 # 0
        BY <3>4, <3>9
      <4> QED
        BY <2>3, <4>1, <4>2
    <3> QED
      BY <3>8, <3>9
  <2> QED
    BY <2>4, <2>5
<1> QED
  BY <1>2, <1>3

(* The record of a run whose driver has left.                              *)
LEMMA RecordHolds ==
  ASSUME LaunchAssumption, LaInv, lpc = "record"
  PROVE  RecordOk(RunRecord) /\ RunRecord.row = Len(records) + 1
<1>1. /\ RowOwn = OwnOf(Len(records) + 1) /\ RowPasses \in Nat \ {0}
  BY LaunchRow DEF LaInv
<1>2. /\ SettingsOf(child, RowOwn) /\ BudgetOf(child, RecordedBudget)
      /\ passes \in 0..RowPasses /\ printed = (IF passes = 0 THEN 0 ELSE passes - 1)
      /\ stepFile = <<>> \/ (stepFile = StepTimes /\ passes = RowPasses)
  BY DEF LaInv, PassInv
<1>3. RegimesOf(Regimes, printed, passes)
  BY <1>1, <1>2, RegimesHold
<1>4. /\ RunRecord.row = Len(records) + 1 /\ RunRecord.env = child
      /\ RunRecord.budget = RecordedBudget /\ RunRecord.regimes = Regimes
      /\ RunRecord.decodes = printed /\ RunRecord.passes = passes
  BY DEF RunRecord
<1> QED
  BY <1>1, <1>2, <1>3, <1>4 DEF RecordOk

LEMMA LaunchStarts == ASSUME LaunchAssumption, LaunchInit PROVE LaInv
<1>1. Len(LaunchMatrix) \in Nat /\ 0 < Len(LaunchMatrix)
  <2> DEFINE R == [own : SUBSET ({"hot_bytes"} \cup Checks), passes : Nat \ {0}]
  <2>1. LaunchMatrix \in Seq(R) /\ LaunchMatrix # <<>>
    BY DEF LaunchAssumption
  <2> HIDE DEF R
  <2> QED
    BY <2>1
<1>2. LaType
  BY DEF LaunchInit, LaType, From
<1>3. LaunchRowsInv
  <2>1. records = <<>> /\ records \in Seq({}) /\ Len(records) = 0
    BY DEF LaunchInit
  <2>2. \E S : records \in Seq(S)
    BY <2>1, Zenon
  <2> QED
    BY <1>1, <2>1, <2>2 DEF LaunchInit, LaunchRowsInv
<1>4. RecordsInv /\ PassInv /\ DocumentInv /\ GateIsEvidence
  BY DEF LaunchInit, RecordsInv, PassInv, DocumentInv, GateIsEvidence
<1> QED
  BY <1>2, <1>3, <1>4 DEF LaInv

(* A command's settings stay what they were, and so does what its records  *)
(* say, whatever comes next.                                               *)
LEMMA RecordStays ==
  ASSUME UNCHANGED launchSettings, NEW r, RecordOk(r)
  PROVE  RecordOk(r)'
<1>1. UNCHANGED <<lcommand, userSet, shellAtStart>>
  BY DEF launchSettings
<1>2. SettingsOf(r.env, OwnOf(r.row))'
  BY <1>1 DEF RecordOk, SettingsOf, OwnOf
<1>3. BudgetOf(r.env, r.budget)'
  BY <1>1 DEF RecordOk, BudgetOf
<1>4. RegimesOf(r.regimes, r.decodes, r.passes)'
  BY DEF RecordOk, RegimesOf
<1> QED
  BY <1>2, <1>3, <1>4 DEF RecordOk

(* The steps of a run: its driver goes on, nothing is recorded.            *)
LEMMA RunStep ==
  ASSUME LaunchAssumption, LaInv,
         StartDriver \/ DriverPass \/ DriverFinishes \/ DriverLeaves
  PROVE  LaInv'
<1>0. /\ UNCHANGED <<launchSettings, shell, records, document, exitStatus, timesPrompt>>
      /\ UNCHANGED <<lcommand, userSet, shellAtStart>>
      /\ lpc \in {"settings", "driver"} /\ lpc' \in {"driver", "record"}
  BY DEF StartDriver, DriverPass, DriverFinishes, DriverLeaves, ShellAfter, launchSettings,
         launchDriver
<1>1. /\ RowOwn \subseteq {"hot_bytes"} \cup Checks /\ RowPasses \in Nat \ {0}
      /\ exitStatus = -1
  BY <1>0, LaunchRow DEF LaInv, LaType
<1>2. RowOwn' = RowOwn /\ RowPasses' = RowPasses /\ StepTimes' = StepTimes
      /\ RecordedBudget' = RecordedBudget
  BY <1>0 DEF RowOwn, RowPasses, StepTimes, RecordedBudget
<1>3. LaType'
  <2>1. driverExit' \in {-1, 0, 3}
    BY DEF LaInv, LaType, StartDriver, DriverPass, DriverFinishes, DriverLeaves
  <2> QED
    BY <1>0, <1>1, <2>1 DEF LaInv, LaType
<1>4. LaunchRowsInv'
  BY <1>0, <1>1 DEF LaInv, LaunchRowsInv
<1>5. RecordsInv'
  BY <1>0, RecordStays DEF LaInv, RecordsInv
<1>6. PassInv'
  <2>1. CASE StartDriver
    <3>1. SettingsOf(child', RowOwn) /\ BudgetOf(child', RecordedBudget)
      BY <1>1, <2>1, ChildSettings DEF LaInv, StartDriver
    <3>2. (SettingsOf(child, RowOwn) /\ BudgetOf(child, RecordedBudget))'
      BY <1>0, <1>2, <3>1 DEF SettingsOf, BudgetOf
    <3> QED
      BY <1>1, <1>2, <2>1, <3>2 DEF StartDriver, PassInv
  <2>2. CASE DriverPass \/ DriverFinishes \/ DriverLeaves
    <3>0. lpc = "driver" /\ child' = child
      BY <2>2 DEF DriverPass, DriverFinishes, DriverLeaves, launchDriver
    <3>1. (SettingsOf(child, RowOwn) /\ BudgetOf(child, RecordedBudget))'
      BY <1>0, <1>2, <3>0 DEF LaInv, PassInv, SettingsOf, BudgetOf
    <3>2. /\ passes \in 0..RowPasses /\ printed = (IF passes = 0 THEN 0 ELSE passes - 1)
          /\ stepFile = <<>> \/ (stepFile = StepTimes /\ passes = RowPasses)
      BY <3>0 DEF LaInv, PassInv
    <3>3. /\ passes' \in 0..RowPasses /\ printed' = (IF passes' = 0 THEN 0 ELSE passes' - 1)
          /\ stepFile' = <<>> \/ (stepFile' = StepTimes /\ passes' = RowPasses)
      <4>1. CASE DriverPass
        BY <1>1, <3>2, <4>1 DEF DriverPass
      <4>2. CASE DriverFinishes
        BY <1>1, <3>2, <4>2 DEF DriverFinishes
      <4>3. CASE DriverLeaves
        BY <1>1, <3>2, <4>3 DEF DriverLeaves
      <4> QED
        BY <2>2, <4>1, <4>2, <4>3
    <3>4. lpc' = "record" /\ driverExit' = 0 => passes' = RowPasses
      BY <2>2, <3>0 DEF DriverPass, DriverFinishes, DriverLeaves
    <3> QED
      BY <1>2, <3>1, <3>3, <3>4 DEF PassInv
  <2> QED
    BY <2>1, <2>2
<1>7. DocumentInv' /\ GateIsEvidence'
  BY <1>0, <1>1 DEF LaInv, DocumentInv, GateIsEvidence
<1> QED
  BY <1>3, <1>4, <1>5, <1>6, <1>7 DEF LaInv

(* A command that gives up leaves its records and its document.            *)
LEMMA GivesUpStep ==
  ASSUME LaunchAssumption, LaInv, BadSet \/ LaunchRefused \/ LaunchTimesOut
  PROVE  LaInv'
<1>1. /\ UNCHANGED <<launchSettings, shell, child, launchDriver, records, document>>
      /\ UNCHANGED <<lcommand, userSet, shellAtStart, timesPrompt, driverExit>>
      /\ lpc \in {"settings", "driver"} /\ lpc' = "done" /\ exitStatus' \in {1, 2}
  BY DEF BadSet, LaunchRefused, LaunchTimesOut, LaunchEnds, launchSettings, launchDriver
<1>2. LaType'
  BY <1>1 DEF LaInv, LaType
<1>3. LaunchRowsInv'
  BY <1>1 DEF LaInv, LaunchRowsInv
<1>4. RecordsInv'
  BY <1>1, RecordStays DEF LaInv, RecordsInv
<1>5. PassInv' /\ DocumentInv' /\ GateIsEvidence'
  BY <1>1 DEF LaInv, LaType, PassInv, DocumentInv, GateIsEvidence
<1> QED
  BY <1>2, <1>3, <1>4, <1>5 DEF LaInv

(* `sabah run` and `sabah gate` have the one record.                       *)
LEMMA ReportsStep ==
  ASSUME LaunchAssumption, LaInv, RunReports \/ GateReports
  PROVE  LaInv'
<1>1. /\ UNCHANGED <<launchSettings, shell, child, launchDriver, document>>
      /\ UNCHANGED <<lcommand, userSet, shellAtStart, timesPrompt, driverExit>>
      /\ lpc = "record" /\ lcommand \in {"run", "gate"} /\ lpc' = "done"
      /\ exitStatus' \in {0, 1, 3} /\ records' = <<RunRecord>>
  BY DEF RunReports, GateReports, LaunchEnds, launchSettings, launchDriver
<1>2. records = <<>> /\ records' \in Seq({RunRecord}) /\ Len(records') = 1
      /\ records'[1] = RunRecord
  BY <1>1 DEF LaInv, LaunchRowsInv
<1>3. RecordOk(RunRecord) /\ RunRecord.row = 1
  BY <1>1, <1>2, RecordHolds
<1>4. LaType'
  BY <1>1 DEF LaInv, LaType
<1>5. LaunchRowsInv'
  <2>1. \E S : records' \in Seq(S)
    BY <1>2, Zenon
  <2> QED
    BY <1>1, <2>1 DEF LaunchRowsInv
<1>6. RecordsInv'
  <2>1. ASSUME NEW i \in DOMAIN records' PROVE records'[i].row = i /\ RecordOk(records'[i])
    BY <1>2, <1>3, <2>1
  <2>2. \A r : RecordOk(r) => RecordOk(r)'
    BY <1>1, RecordStays
  <2> QED
    BY <2>1, <2>2 DEF RecordsInv
<1>7. PassInv' /\ DocumentInv'
  BY <1>1 DEF LaInv, LaType, PassInv, DocumentInv
<1>8. GateIsEvidence'
  <2>1. SUFFICES ASSUME lcommand = "gate", exitStatus' = 0
                 PROVE  /\ \A s \in Checks : s \in DOMAIN RunRecord.env /\ RunRecord.env[s] = "row"
                        /\ RunRecord.passes = RunPasses /\ RunRecord.exit = 0
                        /\ RunRecord.counters.verify_ok > 0 /\ RunRecord.counters.id_ok > 0
                        /\ RunRecord.counters.verify_fail + RunRecord.counters.id_fail
                              + RunRecord.counters.fallbacks = 0
    BY <1>1, <1>2 DEF GateIsEvidence
  <2>2. GateGood(RunRecord)
    BY <2>1 DEF RunReports, GateReports, LaunchEnds
  <2>3. RunRecord.exit = driverExit /\ RunRecord.passes = passes /\ RunRecord.env = child
    BY DEF RunRecord
  <2>4. passes = RunPasses
    BY <1>1, <2>1, <2>2, <2>3 DEF LaInv, PassInv, RowPasses, GateGood
  <2>5. \A s \in Checks : s \in DOMAIN child /\ child[s] = "row"
    <3>1. RowOwn = Checks /\ userSet = {}
      BY <2>1 DEF RowOwn, LaInv, LaType
    <3>2. SettingsOf(child, RowOwn)
      BY <1>1 DEF LaInv, PassInv
    <3> QED
      BY <3>1, <3>2 DEF SettingsOf
  <2> QED
    BY <2>2, <2>3, <2>4, <2>5 DEF GateGood
<1> QED
  BY <1>4, <1>5, <1>6, <1>7, <1>8 DEF LaInv

(* A matrix keeps a record for its next row, and writes all of them.       *)
LEMMA MatrixStep ==
  ASSUME LaunchAssumption, LaInv, MatrixKeeps \/ MatrixWrites
  PROVE  LaInv'
<1>1. CASE MatrixKeeps
  <2>1. /\ UNCHANGED <<launchSettings, shell, child, launchDriver, document, exitStatus>>
        /\ UNCHANGED <<lcommand, userSet, shellAtStart, timesPrompt, driverExit>>
        /\ lpc = "record" /\ lcommand = "matrix" /\ records' = Append(records, RunRecord)
        /\ lpc' = (IF Len(records') = Len(LaunchMatrix) THEN "write" ELSE "settings")
    BY <1>1 DEF MatrixKeeps, launchSettings, launchDriver
  <2>2. PICK S : records \in Seq(S)
    BY DEF LaInv, LaunchRowsInv
  <2>3. /\ records' \in Seq(S \cup {RunRecord}) /\ Len(records) \in Nat
        /\ Len(records') = Len(records) + 1 /\ records'[Len(records) + 1] = RunRecord
        /\ \A i \in 1..Len(records) : records'[i] = records[i]
    <3>1. records \in Seq(S \cup {RunRecord}) /\ RunRecord \in S \cup {RunRecord}
      BY <2>2, SeqMonotonic
    <3> QED
      BY <2>1, <3>1, AppendProperties
  <2>4. LaType'
    BY <2>1 DEF LaInv, LaType
  <2>5. LaunchRowsInv'
    <3>1. \E T : records' \in Seq(T)
      BY <2>3, Zenon
    <3>2. exitStatus = -1 /\ Len(records) < Len(LaunchMatrix) /\ Len(LaunchMatrix) \in Nat
      BY <2>1 DEF LaInv, LaType, LaunchRowsInv, LaunchAssumption
    <3> QED
      BY <2>1, <2>3, <3>1, <3>2 DEF LaunchRowsInv
  <2>6. RecordsInv'
    <3>1. \A r : RecordOk(r) => RecordOk(r)'
      BY <2>1, RecordStays
    <3>2. RecordOk(RunRecord) /\ RunRecord.row = Len(records) + 1
      BY <2>1, RecordHolds
    <3>3. ASSUME NEW i \in DOMAIN records' PROVE records'[i].row = i /\ RecordOk(records'[i])
      <4>1. i \in 1..Len(records) \/ i = Len(records) + 1
        BY <2>3
      <4>2. CASE i \in 1..Len(records)
        BY <2>2, <2>3, <4>2 DEF LaInv, RecordsInv
      <4>3. CASE i = Len(records) + 1
        BY <2>3, <3>2, <4>3
      <4> QED
        BY <4>1, <4>2, <4>3
    <3> QED
      BY <3>1, <3>3 DEF RecordsInv
  <2>7. PassInv' /\ DocumentInv' /\ GateIsEvidence'
    BY <2>1 DEF LaInv, LaType, PassInv, DocumentInv, GateIsEvidence
  <2> QED
    BY <2>4, <2>5, <2>6, <2>7 DEF LaInv
<1>2. CASE MatrixWrites
  <2>1. /\ UNCHANGED <<launchSettings, shell, child, launchDriver, records>>
        /\ UNCHANGED <<lcommand, userSet, shellAtStart, timesPrompt, driverExit>>
        /\ lpc = "write" /\ lpc' = "done" /\ exitStatus' = 0 /\ document'.rows = records
    BY <1>2 DEF MatrixWrites, LaunchEnds, launchSettings, launchDriver
  <2>2. lcommand = "matrix" /\ LaType'
    BY <2>1 DEF LaInv, LaType, LaunchRowsInv
  <2>3. LaunchRowsInv'
    BY <2>1, <2>2 DEF LaInv, LaunchRowsInv
  <2>4. RecordsInv'
    BY <2>1, RecordStays DEF LaInv, RecordsInv
  <2>5. PassInv' /\ DocumentInv' /\ GateIsEvidence'
    BY <2>1, <2>2 DEF PassInv, DocumentInv, GateIsEvidence
  <2> QED
    BY <2>2, <2>3, <2>4, <2>5 DEF LaInv
<1> QED
  BY <1>1, <1>2

LEMMA LaunchStutters == ASSUME LaInv, UNCHANGED launchVars PROVE LaInv'
<1>1. /\ UNCHANGED <<launchSettings, lcommand, userSet, shellAtStart, shell, lpc, child,
                     timesPrompt, passes, printed, stepFile, driverExit, records, document,
                     exitStatus>>
  BY DEF launchVars, launchSettings, launchDriver
<1>2. RecordsInv'
  BY <1>1, RecordStays DEF LaInv, RecordsInv
<1>3. LaType' /\ LaunchRowsInv' /\ DocumentInv' /\ GateIsEvidence'
  BY <1>1 DEF LaInv, LaType, LaunchRowsInv, DocumentInv, GateIsEvidence
<1>4. RowOwn' = RowOwn /\ RowPasses' = RowPasses /\ StepTimes' = StepTimes
      /\ RecordedBudget' = RecordedBudget
  BY <1>1 DEF RowOwn, RowPasses, StepTimes, RecordedBudget
<1>5. PassInv'
  BY <1>1, <1>4 DEF LaInv, PassInv, SettingsOf, BudgetOf
<1> QED
  BY <1>2, <1>3, <1>5 DEF LaInv

LEMMA LaunchShows == ASSUME LaunchAssumption, LaInv PROVE LaunchIsRecorded
<1>1. LaunchTypeOK
  BY DEF LaInv, LaType, LaunchRowsInv, LaunchTypeOK
<1>2. SettingsAreTheRows
  BY DEF LaInv, RecordsInv, RecordOk, SettingsOf, OwnOf, SettingsAreTheRows
<1>3. BudgetIsTheRuns
  BY DEF LaInv, RecordsInv, RecordOk, BudgetOf, BudgetIsTheRuns
<1>4. RegimesAreThePasses
  BY DEF LaInv, RecordsInv, RecordOk, RegimesOf, RegimesAreThePasses
<1>5. DocumentIsWhole
  <2>1. lcommand = "matrix" /\ exitStatus = 0 =>
          document.rows = records /\ Len(records) = Len(LaunchMatrix)
    BY DEF LaInv, LaunchRowsInv, DocumentInv
  <2>2. \A i \in DOMAIN records : records[i].row = i
    BY DEF LaInv, RecordsInv
  <2> QED
    BY <2>1, <2>2 DEF LaInv, DocumentInv, DocumentIsWhole
<1> QED
  BY <1>1, <1>2, <1>3, <1>4, <1>5 DEF LaInv, LaunchIsRecorded

(* A launch reports what it ran, for every matrix whose rows set the budget *)
(* and the checks, every shell, every --set and any number of passes: each  *)
(* record is of its own row's settings and budget, its regimes are its      *)
(* passes, a gate that passes has run its checks, and the document is whole *)
(* (sabah/tools/stream.py:315-364, cli.py:234-287).                         *)
THEOREM LaunchReportsWhatItRan == LaunchSpec => []LaunchIsRecorded
<1>1. LaunchInit => LaInv
  BY LaunchAssumption, LaunchStarts
<1>2. LaInv /\ [LaunchNext]_launchVars => LaInv'
  BY LaunchAssumption, RunStep, GivesUpStep, ReportsStep, MatrixStep, LaunchStutters
     DEF LaunchNext
<1>3. LaInv => LaunchIsRecorded
  BY LaunchAssumption, LaunchShows
<1> QED
  BY <1>1, <1>2, <1>3, PTL DEF LaunchSpec
=============================================================================
