------------------------------- MODULE Qualify -------------------------------
(* The hardware profile and the commands that make and read it             *)
(* (sabah/hardware/profile.py; qualify, requalify, plan and status of      *)
(* sabah/tools/cli.py).  A profile is measured once and saved; a plan      *)
(* loads it, and measures again only when there is none or it does not     *)
(* load.  Two commands may run at the same time in two shells: they share  *)
(* the profile and the file the H2D qualifier reports in.  A command may   *)
(* be killed at any step.                                                  *)
EXTENDS Integers, Sequences, FiniteSets

CONSTANTS Proc,          \* shells
          Gpu,           \* the devices of the machine
          SmiOrder,      \* nvidia-smi's order of them
          CudaOrders,    \* the orders CUDA may list them in
          Total,         \* [Gpu -> Nat]: their memory
          OthersHold,    \* the ways other programs may hold memory
          MaySpoil,      \* devices whose row of nvidia-smi may be unreadable
          MaxCommands    \* bounds the commands started

ASSUME QualifyAssumption ==
  /\ IsFiniteSet(Gpu) /\ Total \in [Gpu -> Nat] /\ OthersHold \subseteq [Gpu -> Nat]
  /\ MaySpoil \subseteq Gpu
  /\ SmiOrder \in Seq(Gpu) /\ Len(SmiOrder) = Cardinality(Gpu)
  /\ CudaOrders \subseteq Seq(Gpu) /\ MaxCommands \in Nat

VARIABLES inUse,      \* [Gpu -> Nat]: memory other programs hold
          qualifierBuilt,      \* the qualifier is built
          file,       \* hardware_profile.json
          report,     \* _qualify.json: "none", "torn" or "whole"
          cmdPc,      \* [Proc -> where its command is]
          command,    \* [Proc -> its command]
          hwp,        \* [Proc -> the profile it holds]
          dumped,     \* [Proc -> another command saved since it opened the file]
          started     \* commands so far

qualifyVars == <<inUse, qualifierBuilt, file, report, cmdPc, command, hwp, dumped, started>>

Version == 2
Absent  == [is |-> "absent"]
Torn    == [is |-> "torn"]
Reserve == 1      \* VRAM_RESERVE_FRAC of a device, and at least the minimum
ZeroIfLess(n) == IF n < 0 THEN 0 ELSE n

QualifyInit ==
  /\ inUse \in OthersHold
  /\ qualifierBuilt \in BOOLEAN
  /\ file \in {Absent, [is |-> "profile", version |-> 1, gpus |-> <<>>, h2d |-> FALSE,
                      told |-> FALSE, smi |-> {}]}
  /\ report = "none"
  /\ cmdPc = [p \in Proc |-> "idle"]
  /\ command = [p \in Proc |-> "none"]
  /\ hwp = [p \in Proc |-> Absent]
  /\ dumped = [p \in Proc |-> FALSE]
  /\ started = 0

CmdGoes(p, from, to) == cmdPc[p] = from /\ cmdPc' = [cmdPc EXCEPT ![p] = to]

(* main: one command of a shell.                                           *)
Start(p) ==
  /\ started < MaxCommands
  /\ started' = started + 1
  /\ \/ CmdGoes(p, "idle", "measure") /\ command' = [command EXCEPT ![p] = "qualify"]
     \/ \E c \in {"plan", "status"} :
          CmdGoes(p, "idle", "load") /\ command' = [command EXCEPT ![p] = c]
  /\ UNCHANGED <<inUse, qualifierBuilt, file, report, hwp, dumped>>

(* Not this: a profile of another version is as good.                      *)
LoadsAny == file.is = "profile"
(* HardwareProfile.load: JSON that parses, of this version.                *)
Loads == file.is = "profile" /\ file.version = Version

(* Not this: a plan, too, ends when the profile does not load.             *)
LoadOrEnd(p) ==
  /\ \/ Loads /\ CmdGoes(p, "load", "done") /\ hwp' = [hwp EXCEPT ![p] = file]
     \/ ~Loads /\ command[p] = "status" /\ CmdGoes(p, "load", "ended") /\ UNCHANGED hwp
  /\ UNCHANGED <<inUse, qualifierBuilt, file, report, command, dumped, started>>

(* _load_or_qualify, and cmd_status, which loads a profile that is there   *)
(* and raises when it cannot.                                              *)
LoadProfile(p) ==
  /\ \/ Loads /\ CmdGoes(p, "load", "done") /\ hwp' = [hwp EXCEPT ![p] = file]
     \/ ~Loads /\ command[p] = "plan" /\ CmdGoes(p, "load", "measure") /\ UNCHANGED hwp
     \/ ~Loads /\ command[p] = "status" /\ CmdGoes(p, "load", "ended") /\ UNCHANGED hwp
  /\ UNCHANGED <<inUse, qualifierBuilt, file, report, command, dumped, started>>

(* qualify: the qualifier, when it is built, opens its report after it has *)
(* measured, writes it and exits with 0; it may fail before, or run into   *)
(* its timeout with the report half written.                               *)
RunQualifier(p) ==
  /\ \/ ~qualifierBuilt /\ CmdGoes(p, "measure", "no report") /\ UNCHANGED report
     \/ qualifierBuilt /\ CmdGoes(p, "measure", "writing") /\ report' = "torn"
     \/ qualifierBuilt /\ CmdGoes(p, "measure", "no report") /\ UNCHANGED report
  /\ UNCHANGED <<inUse, qualifierBuilt, file, command, hwp, dumped, started>>

QualifierEnds(p) ==
  /\ \/ CmdGoes(p, "writing", "exited 0") /\ report' = "whole"
     \/ CmdGoes(p, "writing", "no report") /\ UNCHANGED report
  /\ UNCHANGED <<inUse, qualifierBuilt, file, command, hwp, dumped, started>>

(* The entry of index i: CUDA's i-th device gives the name and the total,  *)
(* nvidia-smi's i-th row what is free; the total when there is no such     *)
(* row.  With neither it is of a device "?" of no memory.                  *)
Entry(i, cuda, rows) ==
  LET c == i \in DOMAIN cuda
      s == i \in DOMAIN SmiOrder /\ SmiOrder[i] \in rows
      total == IF c THEN Total[cuda[i]] ELSE IF s THEN Total[SmiOrder[i]] ELSE 0
      free  == IF s THEN Total[SmiOrder[i]] - inUse[SmiOrder[i]] ELSE total
      least == IF free < total THEN free ELSE total
  IN [gpu |-> IF c THEN cuda[i] ELSE SmiOrder[i], usable |-> ZeroIfLess(least - Reserve)]

(* The profile: as many entries as the longer of the two lists has.  h2d   *)
(* is there when the report was read; when it was not, a warning tells.    *)
MostRows(a, b) == IF a > b THEN a ELSE b
ProfileFrom(cuda, rows, h2d, told) ==
  [is |-> "profile", version |-> Version, h2d |-> h2d, told |-> told, smi |-> rows,
   gpus |-> [i \in 1..MostRows(Cardinality(rows), Len(cuda)) |-> Entry(i, cuda, rows)]]

(* What nvidia-smi's answer is read as: no rows when it is not there, and  *)
(* without the rows that are malformed or hold an [N/A], each skipped by   *)
(* itself.  It is asked before the qualifier is started, and nothing it    *)
(* says changes in between.                                                *)
Rows == {{}} \cup {Gpu \ spoilt : spoilt \in SUBSET MaySpoil}

(* Exit code 0: the report is read if it is there, and removed.            *)
ReadReport(p) ==
  /\ CmdGoes(p, "exited 0", "save")
  /\ \E rows \in Rows, cuda \in CudaOrders :
       hwp' = [hwp EXCEPT ![p] = IF report = "whole" THEN ProfileFrom(cuda, rows, TRUE, FALSE)
                                 ELSE ProfileFrom(<<>>, rows, FALSE, TRUE)]
  /\ report' = "none"
  /\ UNCHANGED <<inUse, qualifierBuilt, file, command, dumped, started>>

(* No qualifier, or one that failed.                                       *)
Unmeasured(p) ==
  /\ CmdGoes(p, "no report", "save")
  /\ \E rows \in Rows : hwp' = [hwp EXCEPT ![p] = ProfileFrom(<<>>, rows, FALSE, TRUE)]
  /\ UNCHANGED <<inUse, qualifierBuilt, file, report, command, dumped, started>>

(* save: open truncates the profile, dump and close write it.  What was    *)
(* saved between the two by another command is overwritten from the start; *)
(* if it was longer, its tail stays.                                       *)
SaveOpens(p) ==
  /\ CmdGoes(p, "save", "saving")
  /\ file' = Torn
  /\ dumped' = [dumped EXCEPT ![p] = FALSE]
  /\ UNCHANGED <<inUse, qualifierBuilt, report, command, hwp, started>>

SaveCloses(p) ==
  /\ CmdGoes(p, "saving", "done")
  /\ \/ file' = hwp[p]
     \/ dumped[p] /\ file' = Torn
  /\ dumped' = [q \in Proc |-> dumped[q] \/ (q # p /\ cmdPc[q] = "saving")]
  /\ UNCHANGED <<inUse, qualifierBuilt, report, command, hwp, started>>

(* The plan, or the summary, is printed from the profile held.             *)
Prints(p) ==
  /\ cmdPc[p] \in {"done", "ended"}
  /\ cmdPc' = [cmdPc EXCEPT ![p] = "idle"]
  /\ command' = [command EXCEPT ![p] = "none"]
  /\ hwp' = [hwp EXCEPT ![p] = Absent]
  /\ UNCHANGED <<inUse, qualifierBuilt, file, report, dumped, started>>

(* The shell is closed: what is on disk stays.                             *)
Killed(p) ==
  /\ cmdPc[p] # "idle"
  /\ cmdPc' = [cmdPc EXCEPT ![p] = "idle"]
  /\ command' = [command EXCEPT ![p] = "none"]
  /\ hwp' = [hwp EXCEPT ![p] = Absent]
  /\ UNCHANGED <<inUse, qualifierBuilt, file, report, dumped, started>>

CommandStep(p) ==
  \/ LoadProfile(p) \/ RunQualifier(p) \/ QualifierEnds(p) \/ ReadReport(p)
  \/ Unmeasured(p) \/ SaveOpens(p) \/ SaveCloses(p) \/ Prints(p)

QualifyNext == \E p \in Proc : Start(p) \/ CommandStep(p) \/ Killed(p)

(* A process that runs is scheduled, and the qualifier has a timeout.      *)
QualifyFair == \A p \in Proc : WF_qualifyVars(CommandStep(p))

QualifySpec == QualifyInit /\ [][QualifyNext]_qualifyVars /\ QualifyFair

-----------------------------------------------------------------------------
QualifyTypeOK ==
  /\ report \in {"none", "torn", "whole"}
  /\ file.is \in {"absent", "torn", "profile"}
  /\ cmdPc \in [Proc -> {"idle", "load", "measure", "writing", "exited 0", "no report",
                         "save", "saving", "done", "ended"}]
  /\ \A p \in Proc : cmdPc[p] = "idle" <=> command[p] = "none"

(* A plan or a status is printed from a whole profile of this version,     *)
(* whoever was killed or saving at the time (profile.py:85-93,             *)
(* cli.py:99-106).                                                         *)
PrintsWholeProfile ==
  \A p \in Proc : cmdPc[p] = "done" => hwp[p].is = "profile" /\ hwp[p].version = Version

(* A profile whose H2D figures were not measured says so, on disk and in   *)
(* hand, also when two qualifiers were writing one report                  *)
(* (profile.py:259-283).                                                   *)
UnmeasuredIsTold ==
  \A x \in {file} \union {hwp[p] : p \in Proc} :
    x.is = "profile" /\ x.version = Version /\ ~x.h2d => x.told

(* What a profile can know of the memory of device g: what nvidia-smi says *)
(* is free, and the total where its row was not read.                      *)
KnownFree(g, rows, u) == Total[g] - (IF g \in rows THEN u[g] ELSE 0)

(* What the planner is given for a device leaves the reserve, and is there *)
(* on every device whose row of nvidia-smi was read, whatever became of    *)
(* the other rows and of the qualifier, when CUDA lists the devices in     *)
(* nvidia-smi's order (profile.py:132-141, 285-293).                       *)
UsableIsThere ==
  \A p \in Proc : cmdPc[p] \in {"save", "saving"} =>
    \A i \in DOMAIN hwp[p].gpus :
      LET e == hwp[p].gpus[i]
      IN  e.usable <= ZeroIfLess(KnownFree(e.gpu, hwp[p].smi, inUse) - Reserve)

(* "Never assume nominal capacity" (profile.py:8-10).  In no run: one row  *)
(* that is skipped, or no nvidia-smi, and the device's total is taken for  *)
(* free (profile.py:290).                                                  *)
NothingIsNominal ==
  \A p \in Proc : cmdPc[p] \in {"save", "saving"} =>
    \A i \in DOMAIN hwp[p].gpus :
      LET e == hwp[p].gpus[i]
      IN  e.usable <= ZeroIfLess(Total[e.gpu] - inUse[e.gpu] - Reserve)

(* A command that is not killed ends: a profile that cannot be read is     *)
(* measured again instead of refused (cli.py:99-106).                      *)
CommandsEnd == \A p \in Proc : cmdPc[p] = "load" ~> cmdPc[p] = "idle"
(* What a plan is printed from, whoever qualifies or is killed meanwhile    *)
(* (profile.py:257-312, cli.py:88-142).                                     *)
HardwareIsTold ==
  /\ QualifyTypeOK
  /\ PrintsWholeProfile
  /\ UnmeasuredIsTold
  /\ UsableIsThere
=============================================================================
