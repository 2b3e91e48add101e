------------------------------- MODULE Planner -------------------------------
(* The planner (sabah/planner/planner.py): a model's byte budget and a     *)
(* machine's usable capacities become an execution class, a placement and  *)
(* a projected band.  Sizes are in MB, bandwidths in tenths of a GB/s, hit *)
(* rates in ten-thousandths, times in units of 10 us, all rounded down.    *)
EXTENDS Integers, Sequences, FiniteSets, FiniteSetsExt, SequencesExt

CONSTANTS Models,       \* the ModelProfiles asked about
          Machines,     \* the HardwareProfiles they are planned on
          Concurrency   \* the values of --concurrency

VARIABLES model, hw, batch,   \* the question
          answer              \* the ExecutionPlan, Unplanned, or Raises

plannerVars == <<model, hw, batch, answer>>

Unplanned == [class |-> "unplanned"]
Raises    == [class |-> "ValueError"]
Never     == 1000000000       \* float("inf") for a time

(* The calibration of qwen4exp: what the runtime's LRU hits at a capacity  *)
(* in GB, and what a placement that never moves would.                     *)
LruCurve ==
  <<<<2, 2444>>, <<4, 4458>>, <<6, 5530>>, <<8, 6206>>, <<12, 7157>>, <<16, 7809>>,
    <<20, 8296>>, <<24, 8660>>, <<28, 8925>>, <<32, 9117>>, <<36, 9270>>, <<40, 9385>>,
    <<48, 9552>>, <<56, 9668>>, <<64, 9756>>, <<72, 9832>>, <<77, 10000>>>>
StaticCurve ==
  <<<<2, 1092>>, <<4, 1859>>, <<6, 2621>>, <<8, 3207>>, <<12, 4246>>, <<16, 4998>>,
    <<20, 5627>>, <<24, 6149>>, <<28, 6601>>, <<32, 6976>>, <<36, 7331>>, <<40, 7640>>,
    <<48, 8184>>, <<56, 8659>>, <<64, 9043>>, <<72, 9366>>, <<77, 10000>>>>
(* R_B, in thousandths, at the batches 1, 2, 4, ... 32: how often a batch   *)
(* shares a weight, over mixed prompts and over prompts of one domain.     *)
Doubling == <<1, 2, 4, 8, 16, 32>>
ReuseMixed      == <<1000, 1019, 1057, 1134, 1307, 1651>>
ReuseSameDomain == <<1000, 1071, 1193, 1401, 1762, 2385>>

AtLeast(a, b) == IF a >= b THEN a ELSE b
AtMost(a, b)  == IF a <= b THEN a ELSE b

(* Linear between the points, to zero below the first one and flat above   *)
(* the last.                                                               *)
InterpHit(curve, mb) ==
  LET n == Len(curve) IN
  IF mb <= 1000 * curve[1][1] THEN (curve[1][2] * mb) \div (1000 * curve[1][1])
  ELSE IF mb >= 1000 * curve[n][1] THEN curve[n][2]
  ELSE LET i == CHOOSE i \in 2..n : mb <= 1000 * curve[i][1] /\ mb > 1000 * curve[i - 1][1]
           x0 == 1000 * curve[i - 1][1]
       IN curve[i - 1][2] + ((mb - x0) * (curve[i][2] - curve[i - 1][2]))
                             \div (1000 * curve[i][1] - x0)

(* KV of a block in four, for every slot, and 704 MiB of state and scratch *)
KvBytes(m, context, b) ==
  (AtLeast(1, m.nBlocks \div 4) * 2048 * context * AtLeast(1, b)) \div 1000000 + 738
KvHere == KvBytes(model, model.context, batch)

-----------------------------------------------------------------------------
(* Placement: each device must hold the fixed path and the workspace, and  *)
(* what it has left over holds experts.                                    *)
Gpus == DOMAIN hw.gpus
Room(g) == hw.gpus[g].usable - model.fixed - KvHere
ExpertCapacity(g) == AtLeast(0, Room(g))
(* Not this: the devices as one memory.                                    *)
UnifiedTotal == AtLeast(0, MapThenSumSet(LAMBDA g : hw.gpus[g].usable, Gpus)
                            - model.fixed - KvHere)
UsableTotal == MapThenSumSet(ExpertCapacity, Gpus)
CapacityTotal == IF model.bank > 0 THEN AtMost(UsableTotal, model.bank) ELSE UsableTotal

RamBankResident == hw.ram >= model.bank
OsReserve == 2147
WarmBytes == IF RamBankResident THEN 0
             ELSE AtMost(AtLeast(0, hw.ram - OsReserve), model.bank)

WarmOrder == SetToSortSeq(DOMAIN model.perBlock,
  LAMBDA a, b : \/ model.perBlock[a] < model.perBlock[b]
                \/ model.perBlock[a] = model.perBlock[b] /\ a < b)

(* Whole blocks, each all of its experts, while they fit the budget.       *)
SelectWarmBlocks(budget) ==
  FoldLeft(LAMBDA s, b : IF s.used + model.perBlock[b] <= budget
                         THEN [out |-> s.out \union {b}, used |-> s.used + model.perBlock[b]]
                         ELSE s,
           [out |-> {}, used |-> 0], WarmOrder).out

-----------------------------------------------------------------------------
(* The execution class, before the recommendation may withdraw it.         *)
GpuBandwidth == MapThenSumSet(LAMBDA g : (AtLeast(hw.gpus[g].h2d * 12, 1000) * 3) \div 4, Gpus)
H2D == IF hw.h2d > 0 THEN hw.h2d ELSE MapThenSumSet(LAMBDA g : hw.gpus[g].h2d, Gpus)
CpuBandwidth == (hw.ramBw * 54) \div 100

Class ==
  IF UsableTotal >= model.bank /\ Gpus # {} THEN "FULL_GPU"
  ELSE IF UsableTotal = 0 /\ CpuBandwidth = 0 THEN "REFERENCE"
  ELSE IF ~RamBankResident THEN "STORAGE_BACKED"
  ELSE IF UsableTotal > 0 THEN "GPU_HOT_TIER" ELSE "CPU_EXPERT"

Special == model.workload \notin {"auto", "mixed", "general"}
Lru(mb) == LET base == InterpHit(LruCurve, mb)
           IN IF Special THEN AtMost(9950, base + 1800) ELSE base
HitRate ==
  CASE Class = "FULL_GPU" -> 10000
    [] Class # "FULL_GPU" /\ UsableTotal > 0 -> Lru(UsableTotal)
    [] OTHER -> IF RamBankResident THEN 10000 ELSE 0
HitFloor == IF Class = "FULL_GPU" THEN 0 ELSE InterpHit(StaticCurve, UsableTotal)

(* reuse.get(B) or the largest measured batch below it: none below one.    *)
MeasuredBatches == {k \in DOMAIN Doubling : Doubling[k] <= batch}
NoBatchReuse    == MeasuredBatches = {}
ReuseHere       == (IF Special THEN ReuseSameDomain ELSE ReuseMixed)[Max(MeasuredBatches)]
BatchBytes == (model.perToken * batch * 1000) \div ReuseHere

(* Not this: a rate that was not measured costs nothing.                   *)
OverForFree(mb, bw) == IF bw = 0 THEN 0 ELSE (mb * 1000) \div bw

(* One byte per second (max(bw, 1)) is never, as a bandwidth of zero is.   *)
Over(mb, bw) == IF bw = 0 THEN Never ELSE (mb * 1000) \div bw
WithOverhead(t) == IF t >= Never THEN Never ELSE (t * 112) \div 100
OnGpu == Class \in {"FULL_GPU", "GPU_HOT_TIER"}
Ssd == IF hw.storage > 0 THEN hw.storage ELSE 5

TimeFixed == CASE Gpus # {} -> Over(model.fixed, GpuBandwidth)
               [] Gpus = {} /\ Class = "CPU_EXPERT" -> Over(model.fixed, CpuBandwidth)
               [] OTHER -> 0
TimeCompute == IF Class = "CPU_EXPERT" THEN Over(BatchBytes, CpuBandwidth)
               ELSE Over(BatchBytes, GpuBandwidth)
MissBytes(hit) == (BatchBytes * (10000 - hit)) \div 10000
NotInRam(mb) == IF hw.ram >= model.bank THEN 0
                ELSE (mb * ((model.bank - hw.ram) \div 100)) \div AtLeast(1, model.bank \div 100)
TimeFetch == CASE OnGpu -> Over(MissBytes(HitRate), H2D)
               [] Class = "CPU_EXPERT" -> 0
               [] OTHER -> Over(NotInRam(BatchBytes), Ssd)

(* A pass overlaps fetch and compute of a block, and nothing across blocks.*)
Pass(fetch) == WithOverhead(TimeFixed + AtLeast(fetch, TimeCompute))
TimePass == Pass(TimeFetch)
TimeFloor == Pass(Over(MissBytes(HitFloor), H2D))

(* The reference reads a token's experts from RAM, and what is not in RAM  *)
(* from storage.                                                           *)
RefBandwidth == IF CpuBandwidth > 0 THEN CpuBandwidth ELSE 10
TimeReference ==
  WithOverhead((IF Gpus # {} THEN Over(model.fixed, GpuBandwidth) ELSE Over(model.fixed, RefBandwidth))
               + Over(model.perToken, RefBandwidth)
               + (IF RamBankResident THEN 0 ELSE Over(NotInRam(model.perToken), Ssd)))

(* Speedups over the reference, in percent: batch / t_pass over 1 / t_ref, *)
(* with the class's spread; the low end of a hot tier is at most what its  *)
(* static floor would give.                                                *)
Spread == IF Class = "FULL_GPU" THEN 10 ELSE 18
Speedup(t, percent) == IF t = 0 THEN 0 ELSE (percent * batch * TimeReference) \div t
SpeedupLow ==
  IF Class = "GPU_HOT_TIER" /\ HitFloor > 0
  THEN AtMost(Speedup(TimeFloor, 100), Speedup(TimePass, 100 - Spread))
  ELSE Speedup(TimePass, 100 - Spread)
SpeedupHigh == Speedup(TimePass, 100 + Spread)

Recommended ==
  IF Class = "STORAGE_BACKED" /\ WarmBytes = 0 THEN FALSE ELSE SpeedupLow >= 110

(* A plan that is not recommended and slower than the reference is one for *)
(* the reference; one that is just short of the bar keeps its class.       *)
FinalClass == IF ~Recommended /\ SpeedupHigh < 100 THEN "REFERENCE" ELSE Class

NoPlanFor == [class |-> "REFERENCE", devices |-> <<>>, capacity |-> 0, resident |-> FALSE,
              warm |-> 0, blocks |-> {}, hit |-> 0, floor |-> 0, time |-> 0,
              low |-> 0, high |-> 0, recommended |-> FALSE]
Devices == [g \in Gpus |-> [usable |-> hw.gpus[g].usable, fixed |-> model.fixed,
                            kv |-> KvHere, experts |-> ExpertCapacity(g)]]
Placed == [NoPlanFor EXCEPT !.devices = Devices, !.capacity = CapacityTotal,
             !.resident = RamBankResident, !.warm = WarmBytes, !.blocks = SelectWarmBlocks(WarmBytes)]

PlanOf ==
  IF ~model.supported \/ ~model.calibrated THEN NoPlanFor
  ELSE IF Class = "REFERENCE" THEN Placed
  ELSE IF NoBatchReuse THEN Raises
  ELSE [Placed EXCEPT !.class = FinalClass, !.hit = HitRate, !.floor = HitFloor, !.time = TimePass,
          !.low = SpeedupLow, !.high = SpeedupHigh, !.recommended = Recommended]

PlannerInit ==
  /\ model \in Models /\ hw \in Machines /\ batch \in Concurrency
  /\ answer = Unplanned

MakePlan == answer = Unplanned /\ answer' = PlanOf /\ UNCHANGED <<model, hw, batch>>

PlannerNext == MakePlan
PlannerSpec == PlannerInit /\ [][PlannerNext]_plannerVars

-----------------------------------------------------------------------------
Answered == answer \notin {Unplanned, Raises}

PlannerTypeOK ==
  Answered =>
    /\ answer.class \in {"FULL_GPU", "GPU_HOT_TIER", "CPU_EXPERT", "STORAGE_BACKED", "REFERENCE"}
    /\ answer.hit \in 0..10000 /\ answer.floor \in 0..10000
    /\ answer.capacity \in 0..model.bank

(* Experts planned for VRAM can be put there: they divide among devices    *)
(* each of which also holds the fixed path and the workspace.  Memory that *)
(* only the devices together have is not capacity.                         *)
(* (planner.py:241-252, and line 7 of its docstring)                       *)
CapacityIsPerDevice ==
  Answered /\ answer.capacity > 0 =>
    LET holds == {g \in Gpus : hw.gpus[g].usable >= model.fixed + KvHere}
    IN /\ holds # {}
       /\ answer.capacity + Cardinality(holds) * (model.fixed + KvHere)
            <= MapThenSumSet(LAMBDA g : hw.gpus[g].usable, holds)

(* The warm tier is pinned whole blocks that fit what RAM has left, and no *)
(* other choice of blocks has more of them (planner.py:169-189).           *)
WarmIsMost ==
  Answered => LET size(S) == MapThenSumSet(LAMBDA b : model.perBlock[b], S)
                  fits == {S \in SUBSET DOMAIN model.perBlock : size(S) <= answer.warm}
              IN /\ answer.warm > 0 => answer.warm <= hw.ram - 2147
                 /\ answer.blocks \in fits
                 /\ answer.warm > 0 => \A S \in fits : Cardinality(S) <= Cardinality(answer.blocks)

(* Residency that adapts hits at least what a placement that stays would,  *)
(* and more VRAM never hits less: the band the planner prints is in order  *)
(* at every capacity (planner.py:192-203, 305-322).                        *)
HitsGrow ==
  Answered /\ answer.class = "GPU_HOT_TIER" =>
    /\ answer.floor <= answer.hit
    /\ \A more \in {500, 1000, 3000, 9000} : Lru(UsableTotal + more) >= answer.hit

(* What is recommended beats the reference by a tenth also when caching    *)
(* buys nothing beyond a static placement; and a plan whose whole band is  *)
(* below the reference is a plan for the reference                         *)
(* (planner.py:367-374, 391-398, 417-436).                                 *)
AllowedToSayNo ==
  Answered /\ answer.class # "REFERENCE" =>
    /\ answer.recommended =>
         /\ 82 * batch * TimeReference >= 110 * answer.time
         /\ answer.class = "GPU_HOT_TIER" => 10 * batch * TimeReference >= 11 * TimeFloor
    /\ answer.high < 100 => answer.recommended
    /\ answer.low <= answer.high

(* The invariants a test says the planner must never violate, for a device *)
(* of the plan (sabah/tests/test_planner.py:101-105).                      *)
PlacementFits ==
  Answered => \A g \in DOMAIN answer.devices :
    LET d == answer.devices[g] IN d.experts + d.fixed + d.kv <= d.usable + 1

(* Without a measured transfer rate a fetch never ends, also one of no     *)
(* bytes on a device that holds the whole bank: such a plan of a GPU class *)
(* promises nothing, is not recommended and is one for the reference       *)
(* (planner.py:349, 363, 391-398, 432-436).                                *)
UnmeasuredIsNotPlanned ==
  Answered /\ H2D = 0 /\ OnGpu =>
    answer.class = "REFERENCE" /\ ~answer.recommended /\ answer.high = 0

(* A storage-backed plan that is recommended has something pinned: it is   *)
(* the warm tier that makes it faster than the reference                   *)
(* (planner.py:415-424).                                                   *)
WarmTierIsPinned ==
  Answered /\ answer.class = "STORAGE_BACKED" /\ answer.recommended => answer.blocks # {}
(* What a plan may not claim, whatever the machine (planner.py:169-454).    *)
PlanIsHonest ==
  /\ PlannerTypeOK
  /\ CapacityIsPerDevice
  /\ WarmIsMost
  /\ HitsGrow
  /\ AllowedToSayNo
  /\ UnmeasuredIsNotPlanned
=============================================================================
