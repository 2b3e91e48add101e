----------------------------- MODULE PinnedPool -----------------------------
(* The pool of pinned host memory (sabah_host_alloc and sabah_host_free of *)
(* sabah_rt.cu) under its three users: the staging buffers of a hot tier,  *)
(* the warm experts of a bank, and the one buffer the fixed path is loaded *)
(* through.  A block that is given back goes to the next request it is     *)
(* large enough for, at once: the pool knows nothing of the copies that    *)
(* may still read it.  One host thread drives the users, as the benchmarks *)
(* do; the copy stream runs beside it.                                     *)
(*                                                                         *)
(* A queued copy is spoilt when the host writes into the block it reads.   *)
EXTENDS Integers, Sequences, FiniteSets, Functions, FiniteSetsExt, SequencesExt

CONSTANTS
  PinSizes,      \* sizes that are asked for
  StageSlots,    \* STAGING_SLOTS
  WarmExperts,   \* bound: experts of a warm tier
  MaxQueued,     \* bound: copies on the stream
  MaxUsers       \* bound: tiers built and fixed paths loaded

ASSUME PinnedAssumption ==
  /\ PinSizes \subseteq Nat \ {0} /\ StageSlots \in Nat \ {0}
  /\ {WarmExperts, MaxQueued, MaxUsers} \subseteq Nat

VARIABLES
  pinPool,       \* g_pinned_pool: [bytes, refcount]
  tierAt, stageSize, stages, stageAt,   \* a hot tier and its ring
  warmBlocks,    \* the bank's _pinned_ptrs, a set
  fixBlock,      \* the staging buffer of the fixed path, or 0
  dma,           \* the copy stream: [from, spoilt]
  lost, users    \* blocks whose owner is gone; users so far

pinUserVars == <<tierAt, stageSize, stages, stageAt, warmBlocks, fixBlock>>
pinVars == <<pinPool, pinUserVars, dma, lost, users>>

-----------------------------------------------------------------------------
(* sabah_host_alloc takes the first block that is free and large enough,   *)
(* or makes one.                                                           *)
PinFits(n) == {i \in DOMAIN pinPool : pinPool[i].refcount = 0 /\ pinPool[i].bytes >= n}

(* Mutant of PinFits: a block in use is as good as a free one.             *)
PinFitsAny(n) == {i \in DOMAIN pinPool : pinPool[i].bytes >= n}

PinGiven(n) == IF PinFits(n) = {} THEN Len(pinPool) + 1 ELSE Min(PinFits(n))

HostAlloc(n) ==
  pinPool' = IF PinFits(n) = {} THEN Append(pinPool, [bytes |-> n, refcount |-> 1])
             ELSE [pinPool EXCEPT ![PinGiven(n)].refcount = 1]

(* sabah_host_free of each of some blocks: they stay in the pool.          *)
HostFree(blocks) ==
  pinPool' = [i \in DOMAIN pinPool |->
                IF i \in blocks /\ pinPool[i].refcount > 0
                THEN [pinPool[i] EXCEPT !.refcount = @ - 1] ELSE pinPool[i]]

(* The host writes into a block.                                           *)
Overwritten(i) ==
  [j \in DOMAIN dma |-> [dma[j] EXCEPT !.spoilt = @ \/ dma[j].from = i]]

(* No copy out of a block is left on the stream.                           *)
PinLanded(i) == \A c \in ToSet(dma) : c.from # i

Queued(queue, i) == dma' = Append(queue, [from |-> i, spoilt |-> FALSE])

-----------------------------------------------------------------------------
(* HotTier: its constructor, one copy of a miss or a prefetch, and free.   *)

NewTier(n) ==
  /\ tierAt = "none" /\ fixBlock = 0 /\ users < MaxUsers
  /\ tierAt' = "building" /\ stageSize' = n /\ users' = users + 1
  /\ UNCHANGED <<pinPool, stages, stageAt, warmBlocks, fixBlock, dma, lost>>

TakeStage ==
  /\ tierAt = "building" /\ Len(stages) < StageSlots
  /\ HostAlloc(stageSize)
  /\ stages' = Append(stages, PinGiven(stageSize))
  /\ UNCHANGED <<tierAt, stageSize, stageAt, warmBlocks, fixBlock, dma, lost, users>>

(* An allocation or an event that fails: the object is dropped, and what   *)
(* it had taken with it.                                                   *)
TierRaises ==
  /\ tierAt = "building" /\ (stages # <<>> \/ PinFits(stageSize) = {})
  /\ tierAt' = "none" /\ lost' = lost \cup ToSet(stages) /\ stages' = <<>> /\ stageSize' = 0
  /\ UNCHANGED <<pinPool, stageAt, warmBlocks, fixBlock, dma, users>>

TierBuilt ==
  /\ tierAt = "building" /\ Len(stages) = StageSlots
  /\ tierAt' = "built" /\ stageAt' = 1
  /\ UNCHANGED <<pinPool, stageSize, stages, warmBlocks, fixBlock, dma, lost, users>>

(* _start_copy through the ring: it waits for the buffer's own last copy.  *)
StagedCopy ==
  /\ tierAt = "built" /\ Len(dma) < MaxQueued
  /\ PinLanded(stages[stageAt])
  /\ Queued(Overwritten(stages[stageAt]), stages[stageAt])
  /\ stageAt' = (stageAt % StageSlots) + 1
  /\ UNCHANGED <<pinPool, tierAt, stageSize, stages, warmBlocks, fixBlock, lost, users>>

(* _start_copy of a warm expert: the pinned block is read in place.        *)
DirectCopy(i) ==
  /\ tierAt = "built" /\ Len(dma) < MaxQueued
  /\ i \in warmBlocks /\ Queued(dma, i)
  /\ UNCHANGED <<pinPool, pinUserVars, lost, users>>

(* Mutant of FreeSlots: the buffers go first, with their copies under way. *)
FreeSlotsLater ==
  /\ tierAt = "built"
  /\ tierAt' = "freeing"
  /\ UNCHANGED <<pinPool, stageSize, stages, stageAt, warmBlocks, fixBlock, dma, lost,
                 users>>

(* free: cudaFree of the slots returns when the device is idle, and only   *)
(* then are the buffers given back.                                        *)
FreeSlots ==
  /\ tierAt = "built" /\ dma = <<>>
  /\ tierAt' = "freeing"
  /\ UNCHANGED <<pinPool, stageSize, stages, stageAt, warmBlocks, fixBlock, dma, lost,
                 users>>

FreeStages ==
  /\ tierAt = "freeing"
  /\ HostFree(ToSet(stages)) /\ tierAt' = "none" /\ stages' = <<>> /\ stageSize' = 0
  /\ UNCHANGED <<stageAt, warmBlocks, fixBlock, dma, lost, users>>

-----------------------------------------------------------------------------
(* ExpertBank: one more expert of load_warm, and close, which no caller    *)
(* does before its tier is gone (bench_moe.py:121, 293).                   *)

WarmExpert(n) ==
  /\ fixBlock = 0 /\ Cardinality(warmBlocks) < WarmExperts /\ tierAt \in {"none", "built"}
  /\ HostAlloc(n) /\ warmBlocks' = warmBlocks \cup {PinGiven(n)} /\ dma' = Overwritten(PinGiven(n))
  /\ UNCHANGED <<tierAt, stageSize, stages, stageAt, fixBlock, lost, users>>

CloseWarm ==
  /\ tierAt = "none" /\ fixBlock = 0 /\ warmBlocks # {}
  /\ HostFree(warmBlocks) /\ warmBlocks' = {}
  /\ UNCHANGED <<tierAt, stageSize, stages, stageAt, fixBlock, dma, lost, users>>

-----------------------------------------------------------------------------
(* FixedPathResident.load: one buffer, a synchronous copy per tensor.      *)

FixTakes(n) ==
  /\ tierAt = "none" /\ fixBlock = 0 /\ users < MaxUsers
  /\ HostAlloc(n) /\ fixBlock' = PinGiven(n) /\ users' = users + 1
  /\ UNCHANGED <<tierAt, stageSize, stages, stageAt, warmBlocks, dma, lost>>

FixWrites ==
  /\ fixBlock # 0
  /\ dma' = Overwritten(fixBlock)
  /\ UNCHANGED <<pinPool, pinUserVars, lost, users>>

FixGives ==
  /\ fixBlock # 0 /\ dma = <<>>
  /\ HostFree({fixBlock}) /\ fixBlock' = 0
  /\ UNCHANGED <<tierAt, stageSize, stages, stageAt, warmBlocks, dma, lost, users>>

FixStops ==
  /\ fixBlock # 0
  /\ lost' = lost \cup {fixBlock} /\ fixBlock' = 0
  /\ UNCHANGED <<pinPool, tierAt, stageSize, stages, stageAt, warmBlocks, dma, users>>

-----------------------------------------------------------------------------
DmaRuns ==
  /\ dma # <<>> /\ dma' = Tail(dma)
  /\ UNCHANGED <<pinPool, pinUserVars, lost, users>>

PinInit ==
  /\ pinPool = <<>> /\ tierAt = "none" /\ stageSize = 0 /\ stages = <<>>
  /\ stageAt = 1 /\ warmBlocks = {} /\ fixBlock = 0 /\ dma = <<>> /\ lost = {} /\ users = 0

PinNext ==
  \/ \E n \in PinSizes : NewTier(n) \/ WarmExpert(n) \/ FixTakes(n)
  \/ TakeStage \/ TierRaises \/ TierBuilt \/ StagedCopy \/ FreeSlots \/ FreeStages
  \/ \E i \in DOMAIN pinPool : DirectCopy(i)
  \/ CloseWarm \/ FixWrites \/ FixGives \/ FixStops \/ DmaRuns

PinSpec == PinInit /\ [][PinNext]_pinVars

-----------------------------------------------------------------------------
PinBlock == DOMAIN pinPool

PinTypeOK ==
  /\ pinPool \in Seq([bytes : PinSizes, refcount : {0, 1}])
  /\ tierAt \in {"none", "building", "built", "freeing"} /\ stageAt \in 1..StageSlots
  /\ ToSet(stages) \cup warmBlocks \cup lost \subseteq PinBlock
  /\ fixBlock \in PinBlock \cup {0} /\ users \in 0..MaxUsers

(* A block in use has one owner, and a free one has none.                  *)
OneOwnerPerBlock ==
  /\ IsInjective(stages)
  /\ \A i \in PinBlock :
       Cardinality({o \in 1..4 : i \in <<ToSet(stages), warmBlocks, {fixBlock}, lost>>[o]})
         = pinPool[i].refcount

(* A copy reads what was in its block when it was issued, whoever gets the *)
(* block next (hot_tier.py:549-555, expert_bank.py:253-258).               *)
CopiesReadWhatWasStaged == \A c \in ToSet(dma) : ~c.spoilt

(* A sweep of tiers goes round on the same blocks: the pool never has more *)
(* of a size than were held at one time, but for those an error lost.      *)
PoolGoesRound ==
  \A n \in PinSizes :
    Cardinality({i \in PinBlock \ lost : pinPool[i].bytes = n})
      <= StageSlots + WarmExperts

(* Pinned memory that changes hands is not read for its last owner         *)
(* (sabah_rt.cu:3250-3279).                                                *)
PinnedIsOwned ==
  PinTypeOK /\ OneOwnerPerBlock /\ CopiesReadWhatWasStaged /\ PoolGoesRound
=============================================================================
