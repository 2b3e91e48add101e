------------------------------ MODULE Evidence ------------------------------
(* What the gates of the release validation are read from: the counters the *)
(* runtime writes to its status file after every call, and the captures of  *)
(* llama-sabah-diag.  A unit of evidence is one prompt of the driver (of    *)
(* the forced run R3 or of the run over several ubatches R13), the prompts  *)
(* of one shared batch (multi), or a group of simultaneous requests to      *)
(* `sabah serve` and the streamed request after them (api).                 *)
(* The host runs a unit's rows in ubatches; every block of one calls the    *)
(* runtime once for each expert projection, the last block for output rows  *)
(* only.  evaluate.py, api_validate.py and opcheck_v1.py compare what was   *)
(* counted and captured with closed forms of the prompt lengths and steps.  *)
(* A call may silently not reach the runtime, a line of a capture index may *)
(* be torn, a client may give up on a request the server goes on with, and  *)
(* the server may die.                                                      *)
EXTENDS Integers, FiniteSets, FiniteSetsExt

CONSTANTS
  EvBlocks,        \* expert blocks of the model (48)
  UB,              \* rows of an ubatch (512)
  TopK,            \* experts of a row, the slots of a projection (10)
  Seqs,            \* prompts of a run, requests to the server
  PromptRows,      \* tokens a prompt of the driver may have
  RequestRows,     \* new prompt tokens a request, or a prompt of a shared batch, may have
  DecodeSteps,     \* generated tokens that may be fed back
  MaxUnits,        \* bound: units of a run; the last one of api is the stream
  MaxFaults        \* bound: faults

ASSUME EvidenceAssumption ==
  /\ EvBlocks \in Nat \ {0} /\ UB \in Nat \ {0} /\ TopK \in Nat \ {0} /\ IsFiniteSet(Seqs)
  /\ PromptRows \cup RequestRows \subseteq Nat \ {0} /\ DecodeSteps \subseteq Nat
  /\ MaxUnits \in Nat /\ MaxFaults \in Nat

VARIABLES
  emode,           \* forced, ubatch, multi or api
  unit,            \* units begun
  members,         \* the sequences of the unit under way
  asked,           \* what each sequence was asked: prompt rows, steps fed back
  todo,            \* what is left of it
  answered,        \* what the client has of each: nothing, an answer, an error
  ubatch,          \* rows of each sequence, and the block that comes next
  place,           \* step of the capture and ubatch of the step
  counters,        \* calls and token rows of the status file
  before,          \* the counters as the unit's evidence starts from them
  index,           \* lines of the capture index that can be read
  server,          \* starting, up or gone; of a driver, up
  passed,          \* has every unit so far passed its gate?
  capsPassed,      \* has every capture so far passed its gates?
  outcome,         \* of the script: running, raised, written
  faults           \* lost calls, lines torn (of a product, beside one), requests
                   \* given up, crashes

evidenceVars == <<emode, unit, members, asked, todo, answered, ubatch, place, counters, before,
                  index, server, passed, capsPassed, outcome, faults>>

Ops       == {"gate", "up", "down"}
BesideOps == {"topk", "weighted"}
Prompted  == emode \in {"forced", "ubatch"}
LastBlock == EvBlocks - 1
Nothing2  == [p |-> 0, d |-> 0]
NoUbatch  == [take |-> [q \in Seqs |-> 0], at |-> EvBlocks]

(* The prompts of a shared batch are one unit.                              *)
Units == IF emode = "multi" THEN 1 ELSE MaxUnits

Live == {q \in Seqs : todo[q] # Nothing2}
Smaller(a, b) == IF a < b THEN a ELSE b
RowsOf(take) == MapThenSumSet(LAMBDA q : take[q], Seqs)

(* Sequences the ubatch computes logits for: the last prompt row, a step.   *)
Outputs(take) == {q \in Seqs : take[q] > 0 /\ todo[q].p \in {0, take[q]}}

(* Rows of a block's three calls.                                           *)
BlockRows == IF ubatch.at = LastBlock THEN Cardinality(Outputs(ubatch.take)) ELSE RowsOf(ubatch.take)

TotalFaults == faults.lost + faults.torn + faults.beside + faults.givenUp + faults.crash
Fault(kind) == faults' = [faults EXCEPT ![kind] = @ + 1]

(* Closed forms of evaluate.py and api_validate.py: 141 and 144 of the      *)
(* model's 48 blocks.                                                       *)
PerRow == 3 * (EvBlocks - 1)
PerOut == 3 * EvBlocks

expectedPrompt[rem \in Nat] ==
  IF rem = 0 THEN [calls |-> 0, tokens |-> 0]
  ELSE LET n    == Smaller(UB, rem)
           rest == expectedPrompt[rem - n]
       IN  IF rem = n
           THEN [calls |-> PerOut, tokens |-> PerRow * n + 3]
           ELSE [calls |-> PerRow + rest.calls, tokens |-> PerRow * n + rest.tokens]

ExpectedSeq(p, d) ==
  [calls |-> expectedPrompt[p].calls + PerOut * d, tokens |-> expectedPrompt[p].tokens + PerOut * d]

RowsAsked(S, kind) == MapThenSumSet(LAMBDA q : asked[q][kind], S)
ExpectedMulti ==
  PerRow * (RowsAsked(members, "p") + RowsAsked(members, "d"))
    + 3 * (Cardinality(members) + RowsAsked(members, "d"))

Ok(q) == answered[q] = "ok"
OkMembers == {q \in members : Ok(q)}

(* Mutant of ExpectedApi: the last block's rows of the prompts are left out. *)
ExpectedApiNoOutputs ==
  PerRow * RowsAsked(OkMembers, "p") + PerOut * RowsAsked(OkMembers, "d")
ExpectedApi ==
  PerRow * RowsAsked(OkMembers, "p") + 3 * Cardinality(members)
    + PerOut * RowsAsked(OkMembers, "d")
-----------------------------------------------------------------------------
(* opcheck_v1.py: the captures of a step.  A node without rows is in the    *)
(* index and counts for nothing.                                            *)
Occs(op, il, step) ==
  {r.occ : r \in {x \in index : x.op = op /\ x.il = il /\ x.step = step /\ x.rows > 0}}
Products == {r \in index : r.op \in Ops /\ r.rows > 0}
CapSteps == {r.step : r \in index}
Missing ==
  {<<step, il, op>> \in CapSteps \X (0..LastBlock) \X Ops : Occs(op, il, step) = {}}

(* The products compared with what was captured beside them: gate's ids     *)
(* with the router's, down's rows with the weighted ones.  Where that is    *)
(* not in the index the product is passed over.                             *)
BesideOf == [gate |-> "topk", down |-> "weighted"]
Structural(op) == {r \in Products : r.op = op /\ r.occ \in Occs(BesideOf[op], r.il, r.step)}

(* slot_offset is a hash of everything but the block and the slot.          *)
SlotsOf(il, c) == {(il + c) % TopK, (il + c + TopK \div 2) % TopK}
Samples(c) ==
  UNION {{[op |-> r.op, il |-> r.il, rows |-> r.rows, slot |-> s] : s \in SlotsOf(r.il, c)} :
           r \in Products}

(* Of a prompt of R3.                                                       *)
GateC(c) ==
  /\ Samples(c) # {} /\ Missing = {}
  /\ Structural("gate") # {} /\ Structural("down") # {}
  /\ \A op \in Ops :
       /\ {x.il : x \in {y \in Samples(c) : y.op = op}} = 0..LastBlock
       /\ {x.slot : x \in {y \in Samples(c) : y.op = op}} = 0..TopK - 1

(* Of a prompt of R13: every ubatch of the prefill, the last block's rows   *)
(* in the final one.                                                        *)
GateG(n) ==
  LET U == (n + UB - 1) \div UB
  IN  /\ Products # {} /\ Missing = {}
      /\ \A op \in Ops :
           /\ \A il \in 0..LastBlock - 1 : Occs(op, il, 0) = 0..U - 1
           /\ Occs(op, LastBlock, 0) = {U - 1}

(* Every decode step is one ubatch with a row of every prompt.              *)
GateF1 ==
  /\ Missing = {}
  /\ CapSteps \ {0} # {}
  /\ \A step \in CapSteps \ {0} :
       LET occs == Occs("down", 0, step)
       IN  /\ Cardinality(occs) = 1
           /\ \A r \in index :
                r.op = "down" /\ r.il = 0 /\ r.step = step /\ r.occ \in occs =>
                  r.rows = Cardinality(members)

(* The test libraries, and the samples they make wrong: slot 0 executes the *)
(* neighbouring expert; slot i reads input row i + 1, which only `down` has *)
(* one of a slot; row t reads the input of row t + 1.                       *)
Wrong(k, x) ==
  CASE k = 1 -> x.slot = 0
    [] k = 2 -> x.op = "down" /\ TopK > 1
    [] k = 3 -> x.rows > 1
Detected(k, c) == \E x \in Samples(c) : Wrong(k, x)
-----------------------------------------------------------------------------
(* A unit begins: the status file, or /health, is read, then the rows are   *)
(* asked for.  A prompt of the driver has its own capture directory.        *)
Begin(S) ==
  /\ outcome = "running" /\ server = "up" /\ members = {} /\ unit < Units
  /\ unit' = unit + 1 /\ members' = S
  /\ \E sizes \in [S -> [p : IF Prompted THEN PromptRows ELSE RequestRows, d : DecodeSteps]] :
       /\ emode = "multi" => \A q, r \in S : sizes[q].d = sizes[r].d
       /\ asked' = [q \in Seqs |-> IF q \in S THEN sizes[q] ELSE asked[q]]
       /\ todo' = [q \in Seqs |-> IF q \in S THEN sizes[q] ELSE todo[q]]
  /\ answered' = [q \in Seqs |-> IF q \in S THEN "waiting" ELSE "none"]
  /\ before' = counters /\ index' = {} /\ place' = [step |-> 0, occ |-> 0]
  /\ UNCHANGED <<emode, ubatch, counters, server, passed, capsPassed, outcome, faults>>

BeginPrompt == Prompted /\ Begin({CHOOSE q \in Seqs : TRUE})
BeginMulti  == emode = "multi" /\ Begin(Seqs)
BeginGroup  ==
  /\ emode = "api" /\ unit < MaxUnits - 1
  /\ \E S \in SUBSET (Seqs \ Live) \ {{}} : Begin(S)
BeginStream == emode = "api" /\ unit = MaxUnits - 1 /\ \E q \in Seqs \ Live : Begin({q})

(* The host's next ubatch.  A sequence is in its prompt or takes one step.  *)
(* The driver fills ubatches with a prompt; its shared batches are a step   *)
(* of every sequence; a server mixes the rows of what it is serving.        *)
May(q, n) == IF todo[q].p > 0 THEN n <= todo[q].p ELSE n <= todo[q].d /\ n <= 1
FormUbatch ==
  /\ ubatch.at = EvBlocks /\ Live # {} /\ server = "up"
  /\ \E take \in [Seqs -> 0..UB] :
       /\ RowsOf(take) \in 1..UB /\ \A q \in Seqs : May(q, take[q])
       /\ Prompted => \A q \in Live : todo[q].p > 0 => take[q] = Smaller(UB, todo[q].p)
       /\ emode = "multi" =>
            IF \E q \in Live : todo[q].p > 0
            THEN \A q \in Live : todo[q].p = 0 => take[q] = 0
            ELSE \A q \in Live : take[q] = 1
       /\ ubatch' = [take |-> take, at |-> 0]
  /\ UNCHANGED <<emode, unit, members, asked, todo, answered, place, counters, before, index,
                 server, passed, capsPassed, outcome, faults>>

(* The rows are done: of a prompt that is, the first logits; a capture goes *)
(* to its next step when no prompt is left in this one.                     *)
Consumed ==
  [q \in Seqs |->
     IF todo[q].p > 0 THEN [todo[q] EXCEPT !.p = @ - ubatch.take[q]]
     ELSE [todo[q] EXCEPT !.d = @ - ubatch.take[q]]]
EndUbatch ==
  IF ubatch.at = LastBlock
  THEN /\ todo' = Consumed
       /\ answered' = [q \in Seqs |-> IF answered[q] = "waiting" /\ Consumed[q] = Nothing2
                                      THEN "ok" ELSE answered[q]]
       /\ ubatch' = NoUbatch
       /\ place' = IF emode = "api" THEN place
                   ELSE IF \E q \in Seqs : Consumed[q].p > 0
                   THEN [place EXCEPT !.occ = @ + 1]
                   ELSE [step |-> place.step + 1, occ |-> 0]
  ELSE ubatch' = [ubatch EXCEPT !.at = @ + 1] /\ UNCHANGED <<todo, answered, place>>

(* Three calls of a block; the counters are in the file before a call       *)
(* returns.  A node without rows is not dispatched.  One call may stay with *)
(* the host, one line may be torn; the reader skips it.                     *)
Records(torn) ==
  IF emode = "api" THEN index
  ELSE index \cup {[op |-> op, il |-> ubatch.at, step |-> place.step, occ |-> place.occ,
                    rows |-> BlockRows] : op \in (Ops \cup BesideOps) \ torn}
Calls(lost) ==
  [calls |-> counters.calls + (IF BlockRows = 0 THEN 0 ELSE 3 - lost),
   tokens |-> counters.tokens + BlockRows * (3 - lost)]

RunBlock ==
  /\ ubatch.at < EvBlocks
  /\ counters' = Calls(0) /\ index' = Records({}) /\ EndUbatch
  /\ UNCHANGED <<emode, unit, members, asked, before, server, passed, capsPassed, outcome, faults>>

LoseCall ==
  /\ ubatch.at < EvBlocks /\ BlockRows > 0 /\ TotalFaults < MaxFaults
  /\ counters' = Calls(1) /\ index' = Records({}) /\ EndUbatch /\ Fault("lost")
  /\ UNCHANGED <<emode, unit, members, asked, before, server, passed, capsPassed, outcome>>

TearLine ==
  /\ ubatch.at < EvBlocks /\ emode # "api" /\ BlockRows > 0 /\ TotalFaults < MaxFaults
  /\ \/ \E op \in Ops : index' = Records({op}) /\ Fault("torn")
     \/ \E op \in BesideOps : index' = Records({op}) /\ Fault("beside")
  /\ counters' = Calls(0) /\ EndUbatch
  /\ UNCHANGED <<emode, unit, members, asked, before, server, passed, capsPassed, outcome>>

(* A request that fails is recorded as failed and the group goes on; the    *)
(* stream's failure leaves no results.                                      *)
IsStream == emode = "api" /\ unit = MaxUnits
GiveUp(q) ==
  /\ emode = "api" /\ outcome = "running" /\ answered[q] = "waiting" /\ TotalFaults < MaxFaults
  /\ answered' = [answered EXCEPT ![q] = "error"] /\ Fault("givenUp")
  /\ IF IsStream THEN outcome' = "raised" /\ server' = "gone" ELSE UNCHANGED <<outcome, server>>
  /\ UNCHANGED <<emode, unit, members, asked, todo, ubatch, place, counters, before, index,
                 passed, capsPassed>>

(* The counters of the unit against the closed form of its kind.            *)
DeltaCalls  == counters.calls - before.calls
DeltaTokens == counters.tokens - before.tokens
GateBSeq ==
  \A q \in members :
    LET e == ExpectedSeq(asked[q].p, asked[q].d)
    IN  DeltaCalls = e.calls /\ DeltaTokens = e.tokens
GateBMulti == DeltaTokens = ExpectedMulti
Exact   == DeltaTokens = ExpectedApi
GateF2  == (\A q \in members : Ok(q)) /\ Exact

EndUnit ==
  /\ outcome = "running" /\ server = "up" /\ members # {}
  /\ \A q \in members : answered[q] \in {"ok", "error"}
  /\ passed' = (passed /\ CASE Prompted -> GateBSeq
                            [] emode = "multi" -> GateBMulti
                            [] emode = "api" -> GateF2)
  /\ capsPassed' =
       (capsPassed /\ CASE emode = "forced" -> (\A c \in 0..TopK - 1 : GateC(c))
                        [] emode = "ubatch" -> (\A q \in members : GateG(asked[q].p))
                        [] emode = "multi" -> GateF1
                        [] emode = "api" -> TRUE)
  /\ members' = {} /\ answered' = [q \in Seqs |-> "none"]
  /\ UNCHANGED <<emode, unit, asked, todo, ubatch, place, counters, before, index, server,
                 outcome, faults>>

(* Server: healthy before the first group or the script raises; stopped in  *)
(* the end whatever happened.                                               *)
ServerUp ==
  /\ server = "starting" /\ server' = "up"
  /\ UNCHANGED <<emode, unit, members, asked, todo, answered, ubatch, place, counters, before,
                 index, passed, capsPassed, outcome, faults>>

ServerDies ==
  /\ emode = "api" /\ outcome = "running" /\ server # "gone" /\ TotalFaults < MaxFaults
  /\ server' = "gone" /\ outcome' = "raised" /\ Fault("crash")
  /\ todo' = [q \in Seqs |-> Nothing2] /\ ubatch' = NoUbatch
  /\ answered' = [q \in Seqs |-> IF answered[q] = "waiting" THEN "error" ELSE answered[q]]
  /\ UNCHANGED <<emode, unit, members, asked, place, counters, before, index, passed, capsPassed>>

WriteResults ==
  /\ outcome = "running" /\ unit = Units /\ members = {}
  /\ outcome' = "written" /\ server' = "gone"
  /\ UNCHANGED <<emode, unit, members, asked, todo, answered, ubatch, place, counters, before,
                 index, passed, capsPassed, faults>>

EvidenceInit ==
  /\ emode \in {"forced", "ubatch", "multi", "api"} /\ unit = 0 /\ members = {}
  /\ asked = [q \in Seqs |-> Nothing2] /\ todo = asked
  /\ answered = [q \in Seqs |-> "none"] /\ ubatch = NoUbatch
  /\ place = [step |-> 0, occ |-> 0] /\ counters = [calls |-> 0, tokens |-> 0]
  /\ before = counters /\ index = {} /\ server = IF emode = "api" THEN "starting" ELSE "up"
  /\ passed = TRUE /\ capsPassed = TRUE /\ outcome = "running"
  /\ faults = [lost |-> 0, torn |-> 0, beside |-> 0, givenUp |-> 0, crash |-> 0]

EvidenceNext ==
  \/ BeginPrompt \/ BeginMulti \/ BeginGroup \/ BeginStream \/ FormUbatch
  \/ RunBlock \/ LoseCall \/ TearLine \/ (\E q \in Seqs : GiveUp(q)) \/ EndUnit
  \/ ServerUp \/ ServerDies \/ WriteResults

EvidenceSpec == EvidenceInit /\ [][EvidenceNext]_evidenceVars
-----------------------------------------------------------------------------
EvidenceTypeOK ==
  /\ unit \in 0..MaxUnits /\ members \subseteq Seqs /\ ubatch.at \in 0..EvBlocks
  /\ asked \in [Seqs -> [p : Nat, d : Nat]] /\ todo \in [Seqs -> [p : Nat, d : Nat]]
  /\ answered \in [Seqs -> {"none", "waiting", "ok", "error"}]
  /\ passed \in BOOLEAN /\ capsPassed \in BOOLEAN
  /\ outcome \in {"running", "raised", "written"} /\ server \in {"starting", "up", "gone"}

(* Between units the counter gates say exactly whether every call of every  *)
(* unit reached the runtime and every request was answered, whatever else   *)
(* the server was still running: a closed form that is off by one output    *)
(* row, or a counter read too early, would break it.                        *)
CountersTell ==
  members = {} /\ outcome # "raised" => (passed <=> faults.lost = 0 /\ faults.givenUp = 0)

(* The captures' gates pass on a whole capture.  Of a product's torn line   *)
(* gate G tells always; gate C, which asks for one line of each product in  *)
(* a step, when the prompt fits in an ubatch (asked of the first prompt,    *)
(* the others are like it); gate F1 of one of a decode step.                *)
CapturesTell ==
  members = {} =>
    /\ /\ faults.torn = 0 /\ faults.beside = 0
       /\ emode = "multi" => \A q \in Seqs : asked[q].d > 0
       => capsPassed
    /\ emode = "ubatch" /\ capsPassed => faults.torn = 0
    /\ emode = "forced" /\ unit = 1 /\ capsPassed /\ faults.torn > 0 => \E q \in Seqs : asked[q].p > UB
    /\ emode = "multi" /\ capsPassed =>
         \A step \in CapSteps, il \in 0..LastBlock, op \in Ops :
           Occs(op, il, step) # {} /\ (step > 0 => Occs(op, il, step) = {0})

(* Expected and not so, in no run: captures that pass were compared with    *)
(* all that lies beside them.  Where a line of the router's choice or of    *)
(* the weighted rows is torn, the product is passed over in silence.        *)
ComparesAll ==
  emode # "api" /\ members = {} /\ unit > 0 /\ capsPassed =>
    \A op \in DOMAIN BesideOf : Structural(op) = {r \in Products : r.op = op}

(* Whatever slots the hash picks, a whole prefill shows every one of the    *)
(* wrong libraries; the third one needs an ubatch of two rows.              *)
SentinelsAreSeen ==
  Prompted /\ members # {} /\ faults.torn = 0 /\ place.step > 0 =>
    \A k \in 1..3, c \in 0..TopK - 1, q \in members :
      (k = 3 => asked[q].p > 1 /\ UB > 1) => Detected(k, c)

(* Results are written by a script whose server answered to the end.        *)
WrittenIsComplete ==
  outcome = "written" => faults.crash = 0 /\ unit = Units /\ \A q \in Seqs : answered[q] = "none"

EvidenceCounts ==
  EvidenceTypeOK /\ CountersTell /\ CapturesTell /\ SentinelsAreSeen /\ WrittenIsComplete
=============================================================================
