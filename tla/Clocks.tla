------------------------------- MODULE Clocks -------------------------------
(***************************************************************************)
(* Clock hygiene of a measured run: the sampler thread of                  *)
(* sabah/tools/clocks.py with its nvidia-smi process, beside the main      *)
(* thread that waits for the driver, stops the sampler and judges the      *)
(* record.                                                                 *)
(***************************************************************************)
EXTENDS Integers, Sequences, FiniteSets

CONSTANTS
  Boost,                  \* MIN_STEADY_SM_MHZ
  MemFloor,               \* MIN_STEADY_MEM_MHZ
  Shown,                  \* the [sm, mem] a sample may show, mem as Unread too
  Margin,                 \* the 2 s the steady window adds to the decodes, in ticks
  MaxTime                 \* bound: ticks of a run

ASSUME ClocksAssumption ==
  /\ Shown \subseteq [sm : Nat, mem : Nat]
  /\ {Boost, MemFloor, Margin, MaxTime} \subseteq Nat

VARIABLES
  now,
  driver,                 \* load, decode, exited
  decoded,                \* ticks spent decoding: decode_ms of the driver's lines
  sampler,                \* the thread: new, reading, checked, done
  smi,                    \* its process: none, alive, dead
  stopEvt,
  main,                   \* wait, stop, join, record, end
  stopSaw,                \* what stop found and did: unasked, nothing, ended, failed
  joined,                 \* join returned because the thread was done
  samples,                \* <<[t, sm, mem]>>
  rec                     \* the record, or NoClockRecord

clockVars == <<now, driver, decoded, sampler, smi, stopEvt, main, stopSaw, joined, samples, rec>>

NoClockRecord == [valid |-> "none", steady |-> {}, whole |-> <<>>]
Unread  == 0             \* the memory clock of a sample that shows none
Reading == [t : 0..MaxTime, sm : Nat, mem : Nat]

ClockInit ==
  /\ now = 0 /\ driver = "load" /\ decoded = 0
  /\ sampler = "new" /\ smi = "none" /\ stopEvt = FALSE
  /\ main = "wait" /\ stopSaw = "unasked" /\ joined = FALSE /\ samples = <<>> /\ rec = NoClockRecord

-----------------------------------------------------------------------------
(* The verdict, pure, over the samples at the positions I.                 *)

UpTo(v, I, x)  == {i \in I : v[i] <= x}
Under(v, I, x) == {i \in I : v[i] < x}

(* What sorting the values at I puts in place n.                           *)
Nth(v, I, n) ==
  CHOOSE x \in {v[i] : i \in I} :
    Cardinality(Under(v, I, x)) < n /\ n <= Cardinality(UpTo(v, I, x))

(* _agg: the middle value, or the mean of the two; doubled, to stay in Nat *)
TwiceMedian(v, I) ==
  LET n == Cardinality(I)
  IN  IF n % 2 = 1 THEN 2 * Nth(v, I, n \div 2 + 1)
      ELSE Nth(v, I, n \div 2) + Nth(v, I, n \div 2 + 1)

(* A median below a floor; values nobody read have none.                   *)
Below(v, I, goal) == I # {} /\ TwiceMedian(v, I) < 2 * goal

WithMem(mem, I) == {i \in I : mem[i] # Unread}

(* verdict: a run without samples is neither valid nor invalid; one whose  *)
(* samples show no memory clock is judged by the other clock alone.        *)
WindowVerdict(sm, mem, I) ==
  IF I = {} THEN "unknown"
  ELSE IF Below(sm, I, Boost) \/ Below(mem, WithMem(mem, I), MemFloor) THEN "invalid" ELSE "valid"

SmOf(v)  == [i \in DOMAIN v |-> v[i].sm]
MemOf(v) == [i \in DOMAIN v |-> v[i].mem]

(* window(end - span, end).                                                *)
Window(from) == {i \in DOMAIN samples : from <= samples[i].t}

(* record: the decodes and a margin; without decode times, or samples in   *)
(* that window, the last third of the run.                                 *)
Steady ==
  LET tail == Window(now - decoded - Margin)
  IN  IF decoded > 0 /\ tail # {} THEN tail
      ELSE {i \in DOMAIN samples : 3 * (now - samples[i].t) <= now - samples[1].t}

-----------------------------------------------------------------------------
(* Time and the driver.                                                    *)

ClockRest == UNCHANGED <<stopSaw, joined, rec>>

(* Time passes; the driver's lines will say how much of it was decoding.   *)
Tick ==
  /\ now < MaxTime /\ main # "end" /\ now' = now + 1
  /\ decoded' = IF driver = "decode" THEN decoded + 1 ELSE decoded
  /\ ClockRest /\ UNCHANGED <<driver, sampler, smi, stopEvt, main, samples>>

DriverSteps ==
  /\ \/ driver = "load" /\ driver' \in {"decode", "exited"}
     \/ driver = "decode" /\ driver' = "exited"
  /\ ClockRest /\ UNCHANGED <<now, decoded, sampler, smi, stopEvt, main, samples>>

(* ClockSampler.run: Popen, which may fail.                                *)
SamplerOpens ==
  /\ sampler = "new"
  /\ \/ sampler' = "reading" /\ smi' = "alive"
     \/ sampler' = "done" /\ smi' = "none"
  /\ ClockRest /\ UNCHANGED <<now, driver, decoded, stopEvt, main, samples>>

(* A line is read and the stop event checked; at end of file the loop ends *)
SamplerReads ==
  /\ sampler = "reading"
  /\ \/ smi = "alive" /\ sampler' = IF stopEvt THEN "done" ELSE "checked"
     \/ smi = "dead" /\ sampler' = "done"
  /\ ClockRest /\ UNCHANGED <<now, driver, decoded, smi, stopEvt, main, samples>>

(* A line that parses is kept; what nvidia-smi says between decodes is its *)
(* own business.                                                           *)
SamplerKeeps ==
  /\ sampler = "checked" /\ sampler' = "reading"
  /\ \/ samples' = samples
     \/ \E x \in Shown : samples' = Append(samples, [t |-> now, sm |-> x.sm, mem |-> x.mem])
  /\ Len(samples') <= now + 1
  /\ ClockRest /\ UNCHANGED <<now, driver, decoded, smi, stopEvt, main>>

SmiDies ==
  /\ smi = "alive" /\ smi' = "dead"
  /\ ClockRest /\ UNCHANGED <<now, driver, decoded, sampler, stopEvt, main, samples>>

-----------------------------------------------------------------------------
(* The main thread: subprocess.run returned, then stop.                    *)

StopSets ==
  /\ main = "wait" /\ driver = "exited" /\ main' = "stop" /\ stopEvt' = TRUE
  /\ ClockRest /\ UNCHANGED <<now, driver, decoded, sampler, smi, samples>>

(* _proc is read once: None if the thread has not got to its Popen yet.    *)
(* terminate, or the wait of five seconds for the end, may fail: that is   *)
(* passed over, and the process stays.                                     *)
StopTerminates ==
  /\ main = "stop" /\ main' = "join"
  /\ \/ smi = "none" /\ stopSaw' = "nothing" /\ UNCHANGED smi
     \/ smi # "none" /\ stopSaw' = "ended" /\ smi' = "dead"
     \/ smi = "alive" /\ stopSaw' = "failed" /\ UNCHANGED smi
  /\ UNCHANGED <<now, driver, decoded, sampler, stopEvt, joined, samples, rec>>

(* Mutant of StopJoins: stop does not wait and says it has.                *)
StopReturnsAtOnce ==
  /\ main = "join" /\ main' = "record" /\ joined' = TRUE
  /\ UNCHANGED <<now, driver, decoded, sampler, smi, stopEvt, stopSaw, samples, rec>>

(* join(timeout=5) returns when the thread is done or the time is up.      *)
StopJoins ==
  /\ main = "join" /\ main' = "record" /\ joined' = (sampler = "done")
  /\ UNCHANGED <<now, driver, decoded, sampler, smi, stopEvt, stopSaw, samples, rec>>

Record ==
  /\ main = "record" /\ main' = "end"
  /\ rec' = [valid |-> WindowVerdict(SmOf(samples), MemOf(samples), Steady), steady |-> Steady,
             whole |-> samples]
  /\ UNCHANGED <<now, driver, decoded, sampler, smi, stopEvt, stopSaw, joined, samples>>

ClockNext ==
  \/ Tick \/ DriverSteps \/ SamplerOpens \/ SamplerReads \/ SamplerKeeps \/ SmiDies
  \/ StopSets \/ StopTerminates \/ StopJoins \/ Record

ClockSpec == ClockInit /\ [][ClockNext]_clockVars

-----------------------------------------------------------------------------
ClockTypeOK ==
  /\ now \in 0..MaxTime /\ decoded \in 0..now
  /\ samples \in Seq(Reading) /\ rec.valid \in {"none", "unknown", "valid", "invalid"}

(* Half of the samples at I, or more, show a clock at its floor; or half   *)
(* of them, or more, do not.                                               *)
HalfAt(v, I, goal)    == 2 * Cardinality({i \in I : v[i] >= goal}) >= Cardinality(I)
HalfUnder(v, I, goal) == 2 * Cardinality({i \in I : v[i] >= goal}) <= Cardinality(I)

(* A run called valid had the boost clock in at least half the samples of  *)
(* its steady window, and the memory's in at least half of those that show *)
(* one; one called invalid lacked one of the two in at least half          *)
(* (clocks.py:124-156).                                                    *)
ValidIsBoosted ==
  LET sm  == SmOf(rec.whole)
      mem == MemOf(rec.whole)
      shown == WithMem(mem, rec.steady)
  IN  /\ rec.valid = "valid" => HalfAt(sm, rec.steady, Boost) /\ HalfAt(mem, shown, MemFloor)
      /\ rec.valid = "invalid" =>
           \/ HalfUnder(sm, rec.steady, Boost)
           \/ shown # {} /\ HalfUnder(mem, shown, MemFloor)

(* With the thread joined, the record holds every sample there will be.    *)
RecordIsComplete == joined /\ main = "end" => rec.whole = samples

(* Once the sampler is stopped, nvidia-smi runs on only if stop looked     *)
(* before the thread had started it, or could not end it and went on       *)
(* (clocks.py:184-194).                                                    *)
OnlyThenOrphaned ==
  main \in {"join", "record", "end"} /\ smi = "alive" => stopSaw \in {"nothing", "failed"}

(* A clock record says of a run what was sampled in it, all of it, and the  *)
(* sampler does not outlive it but where noted (clocks.py:104-226).         *)
ClockIsRecorded ==
  /\ ClockTypeOK
  /\ ValidIsBoosted
  /\ RecordIsComplete
  /\ OnlyThenOrphaned
=============================================================================
