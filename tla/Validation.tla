----------------------------- MODULE Validation -----------------------------
(* tools/v1: validate.py executes the plan's runs in order and never        *)
(* repeats one that has a result unless it is told to, with a reason;       *)
(* build_verify.py builds beside it; evaluate.py reads the run directories  *)
(* and writes the release gates.  validate.py may be killed at any point    *)
(* and started again; a build it started goes on without it, and so may the *)
(* driver of the run it was in.                                             *)
(*                                                                          *)
(* Of the plan: the free run, a run forced to its tokens, the benchmark.    *)
EXTENDS Naturals, Sequences, FiniteSets

CONSTANTS
  Prompts,         \* prompts of the manifest
  Reuse,           \* is evaluate.py called with --reuse?
  MaxSessions,     \* bound: times validate.py is started
  MaxLeft          \* bound: drivers of killed sessions that run at a time

ASSUME ValidationAssumption ==
  Prompts \in Nat /\ Reuse \in BOOLEAN /\ MaxSessions \in Nat /\ MaxLeft \in Nat

Plan == <<"R1", "R3", "R17">>

ValRun == {Plan[i] : i \in DOMAIN Plan}

(* The runs whose tokens matter, and the tokens: a run that is not forced   *)
(* may come out one way or another.                                        *)
TokenRun == {"R1", "R3"}

Tokens == {"x", "y"}

Prompt == 1..Prompts

NoFeed == [p \in Prompt |-> "none"]

VARIABLES
  vproc,           \* validate.py: place in the plan, is a run under way and how many
                   \* prompts are behind it; --only, --rerun and whether --reason came
  ours,            \* is a build of this process running?
  orphans,         \* builds of earlier processes that still run
  built,           \* R18_build.json is there
  items,           \* what each run left for each prompt: the tokens it fed
  paths,           \* path.json: exit code of the run, or none
  sessions,        \* times validate.py was started
  logged,          \* attempts.jsonl: is the run's last start a rerun with a reason?
  forcing,         \* the tokens the driver read when it was started
  left,            \* drivers that outlived their validate.py, as [run, fed, item]
  mishaps,         \* history: what the properties make an exception of
  evidence,        \* full_graph_statistics.json and structural_coverage.json
  release          \* all_pass of release_gates.json

valBuilds == <<ours, orphans, built>>
valGates  == <<evidence, release>>
valVars   == <<vproc, valBuilds, items, paths, sessions, logged, forcing, left, mishaps, valGates>>

(* A session that ended before its build or its driver did; a free run made *)
(* again, made after the forced one (--only), or written to by a driver     *)
(* that was left behind.                                                    *)
Mishap == {"cutOff", "freeLater"}

NoRun == "no run"

NoProcess ==
  [at |-> 0, busy |-> FALSE, item |-> 0, only |-> NoRun, rerun |-> NoRun, reason |-> FALSE]

Done(r) == paths[r] # "none"

Current == Plan[vproc.at]

Running(r) == vproc.busy /\ Current = r

StartValidate ==
  /\ vproc.at = 0 /\ sessions < MaxSessions /\ sessions' = sessions + 1
  /\ \E only, r \in ValRun \cup {NoRun}, reason \in BOOLEAN :
       /\ r = NoRun => ~reason
       /\ only # NoRun => r \in {NoRun, only}
       /\ vproc' = [NoProcess EXCEPT !.at = 1, !.only = only, !.rerun = r, !.reason = reason]
       /\ ours' = (only = NoRun /\ ~built)
  /\ UNCHANGED <<orphans, built, items, paths, logged, forcing, left, mishaps, valGates>>

(* The benchmark waits for the build this process started.                 *)
HoldsBenchNever == FALSE
HoldsBench      == Current = "R17" /\ ours

NextRun ==
  vproc' = IF vproc.at = Len(Plan) THEN NoProcess
           ELSE [vproc EXCEPT !.at = @ + 1, !.busy = FALSE, !.item = 0]

NotRunning == forcing' = NoFeed /\ logged' = FALSE

(* The process ends; its build does not.                                   *)
EndsEarly ==
  /\ vproc' = NoProcess
  /\ orphans' = (IF ours THEN orphans + 1 ELSE orphans) /\ ours' = FALSE

AtRun == vproc.at # 0 /\ ~vproc.busy /\ ~HoldsBench

Wanted == vproc.only \in {NoRun, Current}

SkipRun ==
  /\ AtRun
  /\ Wanted => Done(Current) /\ vproc.rerun # Current
  /\ NextRun
  /\ UNCHANGED <<valBuilds, items, paths, sessions, logged, forcing, left, mishaps, valGates>>

RefuseRerun ==
  /\ AtRun /\ Wanted /\ Done(Current) /\ vproc.rerun = Current /\ ~vproc.reason
  /\ EndsEarly /\ mishaps' = mishaps \cup {"cutOff"}
  /\ UNCHANGED <<built, items, paths, sessions, logged, forcing, left, valGates>>

MayStart(r) == Done(r) => vproc.rerun = r /\ vproc.reason

(* The driver reads every prompt's forced tokens before it decodes any;    *)
(* where there are none it runs free.  The benchmark leaves no tokens.      *)
FeedFree(r, free) == IF r = "R17" THEN NoFeed ELSE [p \in Prompt |-> free]
Feed(r, free) ==
  IF r = "R17" THEN NoFeed
  ELSE [p \in Prompt |-> IF r = "R3" /\ items["R1"][p] # "none" THEN items["R1"][p] ELSE free]

StartRun ==
  /\ AtRun /\ Wanted /\ MayStart(Current)
  /\ logged' = (Done(Current) /\ vproc.reason)
  /\ \E free \in Tokens : forcing' = Feed(Current, free)
  /\ vproc' = [vproc EXCEPT !.busy = TRUE, !.item = 0]
  /\ mishaps' = mishaps \cup (IF \/ Current = "R1" /\ Done("R1")
                                 \/ Current = "R3" /\ ~Done("R1")
                              THEN {"freeLater"} ELSE {})
  /\ UNCHANGED <<valBuilds, items, paths, sessions, left, valGates>>

(* A driver takes the prompts in their order.                              *)
FinishItem ==
  /\ vproc.busy /\ Current \in TokenRun /\ vproc.item < Prompts
  /\ vproc' = [vproc EXCEPT !.item = @ + 1]
  /\ items' = [items EXCEPT ![Current][vproc.item + 1] = forcing[vproc.item + 1]]
  /\ UNCHANGED <<valBuilds, paths, sessions, logged, forcing, left, mishaps, valGates>>

(* path.json is written when the driver has ended, well or not.            *)
RunEnds ==
  /\ vproc.busy
  /\ \E rc \in {0, 1} :
       /\ rc = 0 /\ Current \in TokenRun => vproc.item = Prompts
       /\ paths' = [paths EXCEPT ![Current] = IF rc = 0 THEN "ok" ELSE "failed"]
  /\ NextRun /\ NotRunning
  /\ UNCHANGED <<valBuilds, items, sessions, left, mishaps, valGates>>

(* A console's interrupt ends the driver too; a kill of the process leaves  *)
(* it, and it goes on with its items, but nobody writes its path.json.      *)
KillValidate ==
  /\ vproc.at # 0 /\ EndsEarly /\ NotRunning
  /\ \/ UNCHANGED left /\ mishaps' = mishaps \cup {"cutOff"}
     \/ /\ vproc.busy /\ Cardinality(left) < MaxLeft
        /\ left' = left \cup {[run |-> Current, fed |-> forcing, item |-> vproc.item]}
        /\ mishaps' = mishaps \cup {"cutOff"} \cup (IF Current = "R1" THEN {"freeLater"} ELSE {})
  /\ UNCHANGED <<built, items, paths, sessions, valGates>>

LeftWrites(d) ==
  /\ d.run \in TokenRun /\ d.item < Prompts
  /\ left' = (left \ {d}) \cup {[d EXCEPT !.item = @ + 1]}
  /\ items' = [items EXCEPT ![d.run][d.item + 1] = d.fed[d.item + 1]]
  /\ UNCHANGED <<vproc, valBuilds, paths, sessions, logged, forcing, mishaps, valGates>>

LeftEnds(d) ==
  /\ left' = left \ {d}
  /\ UNCHANGED <<vproc, valBuilds, items, paths, sessions, logged, forcing, mishaps, valGates>>

BuildVerify ==
  /\ \/ ours /\ ours' = FALSE /\ UNCHANGED orphans
     \/ orphans > 0 /\ orphans' = orphans - 1 /\ UNCHANGED ours
  /\ built' = TRUE
  /\ UNCHANGED <<vproc, items, paths, sessions, logged, forcing, left, mishaps, valGates>>
-----------------------------------------------------------------------------
(* Gate B: the runs that go through the runtime are there and ended well.  *)
GateB == paths["R3"] = "ok"

(* Gates H and I compare logits, which mean something only in one context: *)
(* the forced run must have fed the free run's tokens.                     *)
SameContext    == items["R3"] = items["R1"]

AllItems == \A p \in Prompt : items["R1"][p] # "none" /\ items["R3"][p] # "none"

(* The benchmark is available when each of its runs ended well.            *)
Benchmark == paths["R17"] = "ok"

Computed(file, value) == IF Reuse /\ evidence[file] # "none" THEN evidence[file] ELSE value

Verdict(ok) == IF ok THEN "ok" ELSE "not ok"

(* A context mismatch or a missing item raises: no gates are written, and   *)
(* those written before stay, as they do when a run is made again.  An      *)
(* evidence file that is reused raises nothing.                             *)
Evaluate ==
  /\ built
  /\ \/ Reuse /\ evidence["graph"] # "none"
     \/ AllItems /\ SameContext
  /\ evidence' = [structural |-> Computed("structural", Verdict(GateB)),
                  graph |-> Computed("graph", "ok")]
  /\ release' = (Benchmark /\ \A f \in DOMAIN evidence : evidence'[f] = "ok")
  /\ UNCHANGED <<vproc, valBuilds, items, paths, sessions, logged, forcing, left, mishaps>>

ValInit ==
  /\ vproc = NoProcess /\ ours = FALSE /\ orphans = 0 /\ built = FALSE
  /\ items = [r \in TokenRun |-> NoFeed] /\ paths = [r \in ValRun |-> "none"]
  /\ sessions = 0 /\ logged = FALSE /\ forcing = NoFeed
  /\ left = {} /\ mishaps = {}
  /\ evidence = [structural |-> "none", graph |-> "none"]
  /\ release = FALSE

ValNext ==
  \/ StartValidate \/ SkipRun \/ RefuseRerun \/ StartRun \/ FinishItem \/ RunEnds
  \/ KillValidate \/ BuildVerify \/ Evaluate
  \/ (\E d \in left : LeftWrites(d) \/ LeftEnds(d))

ValSpec == ValInit /\ [][ValNext]_valVars
-----------------------------------------------------------------------------
(* The kind of value every variable holds; without the process no build is *)
(* its own.                                                                *)
ValTypeOK ==
  /\ vproc \in [at : 0..Len(Plan), busy : BOOLEAN, item : 0..Prompts, only : ValRun \cup {NoRun},
                rerun : ValRun \cup {NoRun}, reason : BOOLEAN]
  /\ vproc.at = 0 => vproc = NoProcess /\ ~ours
  /\ ours \in BOOLEAN /\ orphans \in Nat /\ built \in BOOLEAN /\ release \in BOOLEAN
  /\ items \in [TokenRun -> [Prompt -> Tokens \cup {"none"}]]
  /\ left \subseteq [run : ValRun, fed : [Prompt -> Tokens \cup {"none"}], item : 0..Prompts]
  /\ paths \in [ValRun -> {"none", "ok", "failed"}] /\ sessions \in 0..MaxSessions
  /\ mishaps \subseteq Mishap

(* Whatever is killed, started over or made again, drivers left behind      *)
(* included: what the forced run left is in the free run's context, unless  *)
(* the free run was made again, or first made after the forced one, or a    *)
(* driver of it was left behind.  Only the plan's order and its not         *)
(* repeating what is done see to that; the forced run's directory may hold  *)
(* items of three sessions.                                                 *)
ForcedIsInContext ==
  "freeLater" \notin mishaps =>
    \A p \in Prompt : items["R1"][p] # "none" /\ items["R3"][p] # "none"
                        => items["R3"][p] = items["R1"][p]

(* release_gates.json is not taken back when a run is made again; what it   *)
(* says of the contexts stays true of the runs until the free run is, also  *)
(* when the comparison was reused (--reuse).                                *)
ReleaseStillHolds ==
  release /\ "freeLater" \notin mishaps => AllItems /\ SameContext

(* "The benchmark runs on an otherwise idle machine" (validate.py:147): no  *)
(* build, and no driver, of any session runs beside it, but those of a      *)
(* session that was cut off; one that comes to its end leaves none, however *)
(* its runs ended and whatever it skipped.                                  *)
BenchIsAlone ==
  /\ Running("R17") => ~ours
  /\ "cutOff" \notin mishaps => orphans = 0 /\ left = {} /\ (vproc.at = 0 => ~ours)

(* A result is replaced by a logged rerun with a reason, never silently;    *)
(* what lies beside it also by a driver that a kill left behind, with the   *)
(* tokens that driver was given, and not by anything else.                  *)
RepeatsAreLogged ==
  [][\A r \in ValRun : Done(r) =>
       /\ paths'[r] # paths[r] => logged
       /\ r \in TokenRun => \A p \in Prompt : items'[r][p] # items[r][p] =>
            \/ logged /\ Current = r
            \/ \E d \in left : d.run = r /\ d.fed[p] = items'[r][p]]_valVars

(* What a validation's results and its gates rest on (validate.py:131-168,  *)
(* evaluate.py:280-489).                                                    *)
ReleaseIsEarned ==
  /\ ValTypeOK
  /\ ForcedIsInContext
  /\ ReleaseStillHolds
  /\ BenchIsAlone

(* Said and not so, in no run: validate.py:147 without the exception.  A    *)
(* refused rerun is enough: sys.exit leaves the build it started, and the   *)
(* next session starts a second one and waits for that.                     *)
BenchIsOnIdleMachine == Running("R17") => ~ours /\ orphans = 0 /\ left = {}

(* Expected and not so, in no run: gates that pass are those of the runs as *)
(* they are.                                                                *)
ReleaseIsOfTheRuns == release => SameContext
=============================================================================
