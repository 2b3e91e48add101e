# Sabah MoE Accelerator: the runtime and its tools in TLA+

Sabah runs mixture-of-experts models whose expert weights do not fit in VRAM. The
experts stay on disk, a budgeted pool of VRAM slots keeps the recently used
ones, and every expert matrix multiplication first makes the slots it needs
resident. What is hard in it is not arithmetic. It is that a slot is freed,
overwritten, read by a kernel and filled by a transfer with very few
synchronisations among the host thread, the copy stream, the compute stream,
the disk workers and the readahead thread, on purpose, for speed. The first
group of modules models that: who may touch a slot or a buffer, when, and what
proves that nobody else is still using it. The second group models the Python
runtime beside it, and the third the tools that inspect, plan, measure and
release, where the question is another one: is what they report of what was run?

`rt.cu` below is `src/sabah/runtime/cuda/sabah_rt.cu`, `hot_tier.py` is
`src/sabah/runtime/hot_tier.py`; other files are named without their directory
where that is unambiguous.

## 1. Inventory of the system

| Component (code) | State it keeps | Operations | What makes it correct | Here |
|---|---|---|---|---|
| VRAM residency tier (`rt.cu` 426-810, 2051-2116, 3495-3830) | table of entries (tensor, expert, slot, last use, epoch, filled), byte counter, ids of the last call | `sabah_rt_mul_mat_id_v2`: ids reuse or drain, prime, lookup, evict, reserve, fill, launch | a slot is never freed or refilled under a kernel; each kernel gets the experts the router chose | `Tier`, `TierProofs` |
| Call chain and merged layer fetch (`rt.cu` 1883-1945, 3690-3720) | successor and same-ids flag of every tensor | note a call, look up followers, reserve for them | what is reserved for a follower is found by its own call | `Tier`, `LayerGraph`, `LayerGraphProofs` |
| Device slab (`rt.cu` 332-424) | sorted free list over one allocation | init, best-fit alloc with split, free with coalescing, destroy | disjoint, nothing lost, neighbours merged | `Slab`, `RangeAlloc`, `SlabProofs` |
| Read lanes (`rt.cu` 1201-1400) | wave pointer, generation, counters, threads asleep on condition variables | start, publish a wave, read a share, barrier, stop | a wave outlives its readers; each request read once; nobody sleeps for good | `WavePool`, `WaveRead`, `WavePoolProofs` |
| Direct fetch and staging (`rt.cu` 1404-1514, 2051-2116) | two sets of pinned buffers, one event per set | waves of reads, copies out, event, fallback from the mapped file | every slot gets its own expert | `Staging`, `FetchProofs` |
| Readahead (`rt.cu` 1534-1875, 1998-2046) | pool of pinned buffers with states, a queue, a worker | offer, take, worker batch, quit | a copy-out reads the expert asked for; nobody waits for good | `Readahead`, `FetchProofs` |
| Python hot tier (`hot_tier.py`) | per block: free slots, LRU, slot table, staging ring, events | preload, ensure, submit, mark, prefetch, evict | a kernel finds its experts in its slots for as long as it runs | `HotTier`, `HotTierProofs` |
| llama.cpp hosts (patch 0001 and `integration/`) | none | call the tier in graph order, abort or fall back on an error | | constants `PassIdsKey`, `AbortOnError`; `LayerGraph` |
| Expert bank (`expert_bank.py`) | shared file handles, RAM copy, warm blocks | open, slice, load_warm, nbytes, close | a slice is its expert's, whoever else reads | `ExpertBank`, `HostProofs` |
| Pinned host pool (`rt.cu` 3202-3279) | blocks with a size and a count | alloc, free, for a tier's ring, warm experts, the fixed path | a block has one owner; no copy reads it for the owner before | `PinnedPool`, `HostProofs` |
| Fixed-path residency (`residency.py`) | device pointers, missing list, bytes | load under a budget, pointer lookup | resident or missing, within the budget | `FixedPath`, `HostProofs` |
| Executor and MTP prefetcher (`executor.py`, `mtp_prefetch.py`) | device buffers shared by all blocks, two streams | run a block, observe, warm ahead | a kernel reads its own block's buffers | `Executor`, `HostProofs` |
| N-gram prefetcher (`ngram_prefetch.py`) | row and page sets over a mapping | prefetch, release, step, close | advice stays in the map and covers the rows | `Ngram`, `HostProofs` |
| OpenAI proxy (`openai_proxy.py`) | backend process, counters, open answers | start, wait, health, forward, stream, stop | a complete answer is a whole one; readiness is the model's | `Proxy`, `HostProofs` |
| Planner (`planner.py`) | none over time | classes, placement, warm tier, projection | a plan promises no more than the machine has | `Planner`, `MCPlanner` |
| Model inspector (`model_inspector.py`) | tensor table | open shards, check, sum | what is called supported can be sliced | `Inspector`, `ToolsProofs` |
| Hardware profile (`profile.py`, part of `cli.py`) | the profile and the qualifier's report on disk | qualify, requalify, plan, status | what is shown was measured, or is said not to be | `Qualify`, `ToolsProofs` |
| Block formats (`quants.py`, `rt.cu` 2233-2680) | none | decode an element, in Python, C++ and CUDA | the three agree and read every bit once | `QuantLayout` |
| Benchmarks in the process (`bench_moe.py`, `bench_runner.py`) | tiers and buffers of a sweep | build, warm, time, give back | a row's time and counts are its own tokens' | `BenchRun`, `ToolsProofs` |
| Clock sampler (`clocks.py`) | samples, `nvidia-smi` process | start, sample, stop, judge | the record is of the run | `Clocks`, `ToolsProofs` |
| Measuring harness (`phase0_measure.py`, `stream.py`, acceptance scripts) | a label's directory | run, read, accept | what is taken is of one run | `Harness`, `ToolsProofs` |
| `sabah run`, `matrix`, `gate` (`stream.py`, `cli.py`) | environments, records, the document | launch, split the steps, report | the record is of the settings that ran | `Launch` |
| Release validation (`tools/v1`) | run directories, log, gates | run the plan, rerun with a reason, evaluate | a release rests on runs that belong together | `Validation`, `Evidence`, `ToolsProofs` |
| Policy replays (`slab_replay.py`, `trace_locality.py`, `calib_check.py`) | one cache per policy | replay a trace | the numbers the slab was sized by are the policies' | `Policies` |
| Disk probe (`disk_probe.py`) | requests, totals, workers | cases of unbuffered reads | a row is of the reads that were done | `DiskProbe` |
| Shard index and source resolution; bindings; kernels' arithmetic; byte verification | | | | section 8 |

How they interact. A host calls the tier from one thread. The tier takes slots
from the slab (and from `cudaMalloc` when it must go over its budget), and hands
the list of misses to the direct fetch, which offers the readahead what comes
next, takes from it what it has read already, and reads the rest in waves on
the read lanes. Copies go to the copy stream; the kernel goes to the compute
stream behind one event. The host waits for the compute stream only when it
downloads router ids, and a run of up to `SB_ID_GROUP_MAX` calls with the same
ids tensor skips even that. The Python harness has a second, separate tier with
its own protocol, built from events instead of epochs; it reads from the expert bank,
and the executor drives it block by block. The proxy puts a llama.cpp process
behind HTTP. The tools meet the runtime in files only: a status file written
after each call, the driver's outputs in a directory, a profile; so their
hazards are stale files, torn ones and those of another run.

The behaviours that are hard, and that tests hardly reach:

* eviction synchronises with nothing: only the distance of two epoch numbers
  says that no kernel still reads the slot;
* ids are reused without looking at them, by the address of their tensor;
* entries outlive the call that failed between reserving and filling them;
* the wave is on its caller's stack while other threads read it;
* pinned buffers are read into while copies out of them may be in flight;
* the readahead worker, the demand path and shutdown meet on one buffer;
* in the Python tier a prefetch may come between a kernel's submission and the
  event that guards its slots;
* one set of device buffers serves every block, and only the semantics of the legacy
  stream keeps the next block's upload off the running kernel;
* any process may answer on the backend's port, and the backend may die in
  the middle of a streamed body;
* a directory of outputs outlives the run that wrote it, and a validation item is
  done when its file exists;
* settings of a launch are laid over the shell's in layers;
* three decoders of the same bits are written by hand.

`PROJECT.json` lists every hazard at its line with the properties that cover it.

## 2. The modules and how they correspond to the code

### Under a call

**Tier** is one host thread in `sabah_rt_mul_mat_id_v2`. A step is an iteration
of one of the call's loops or a blocking point, and `Retire` (a kernel finishes)
happens between any two steps. `Call` is the entry and the decision to reuse the ids;
`Drain` the download behind `cudaStreamSynchronize`; `Prime` is `sb_chain_note`
followed by `sb_mmid_prime`; `Hit`, `Evict`, `Reserve` are `sb_mmid_slot`,
`sb_mmid_evict_until` and `sb_mmid_reserve_locked` for one id; `PrimeFollower`
turns to the next tensor of the merged layer fetch; `Fill` is `sb_mmid_fill`
with the transfers it issues; `Launch` builds the pointer table and launches.
Each has its failing variant (`DrainFails`, `BadExpert`, `ReserveFails`,
`FillFails`, `LaunchFails`, `Refuse`), after which the entries stay as they are,
because the code does not undo them. `Restart` is `sabah_rt_shutdown` and a new
init: the statics `last_ids_key`, `group_len`, `ids_raw` and the chain survive it,
as in the code. A slot is an address with an entry; `pos` is the entry's place in
the vector, which decides which of two equal entries is found. A transfer is
represented by the last one issued to an address and its number, since the copy
stream is in order; a kernel by the epoch of its call, the slots it reads and
the number of the last transfer its event stands behind.

The modelled host is a parameter. The patched llama.cpp passes the ids tensor
(`PassIdsKey`) and aborts on any error (`AbortOnError`); the bridge under
`integration/` passes no key and carries on. `HostAssumption` excludes only the
combination that no host in the repository has.

Abstractions: verification mode, self-check, timing and status counters are left
out, as are calls with zero tokens, which return before they touch the tier.
`SlabMayFail` is what the slab can do to the tier: fail
only when it is full or when there is more than one stride (which `Slab` shows
is possible then).

**LayerGraph** drives `Tier` as a static compute graph does: the calls of a pass in
one order, and each layer's router writing its ids tensor before the first call
of the layer. It is the module that knows what the ids *should* have been.

**Slab** is the allocator cell by cell, the free list as a set of ranges (the code
keeps it sorted, so the set determines it). The merge pass of `sb_slab_free` is stated
by its result: every run of free ranges that touch becomes one. The loop itself, in
offset order as in the code, is a fold in `MCIo`, and an assumption TLC evaluates there
says that both give the same list for every free list of a slab of six units. A failing `cudaMalloc` in
`sb_slab_init` leaves the slab off: a stutter. **RangeAlloc** is what a user may
assume: a request is answered by some range that overlaps no other. `Slab`
implements it (`GivesRanges`).

**WavePool** has the host in `sb_io_read_wave`, the workers in `sb_io_lane_main`, and
the pool's start and stop. Mutex sections are one step; waiting on a condition
variable is being `"asleep"`, woken by a notify or spuriously; publishing and
notifying are two steps as in the code. A wave is alive from `Publish` until the
host returns from it. **WaveRead** promises that a call answers all its requests,
each once, and the pool implements it (`ReadsEveryRequest`).

**MCIo** puts the four parts under a call into one configuration: `part` says which
of them an execution runs, and the other three stay in their initial states. They write nothing
they share, so this is the disjoint union of the four state graphs and not a
product. `MCHost` does the same for the Python runtime, `MCTools` for the tools, and **MCRuntime** joins
`MCIo` and `MCHost` into one run.

**Staging** has the waves of `sb_fetch_direct`, each with one of two buffer sets, the
reuse wait on the set's event, the reads, the copies out, the record, every
failure on the way, and the mapped fallback of `sb_mmid_fill` that starts the
whole list again. The copy stream runs concurrently and reads a buffer when the copy runs.

**Readahead** has the demand path in `sb_pf_take` (with its timed wait), the offers,
the worker's batches and `sb_pf_quit`. The state of a buffer is the code's
`SB_PF_*`, and a failing `cudaEventCreate` or record leaves it `"taken"`.
`SB_PF_MAX_QUEUE` (64) is never reached, because an offer queues at most one job per buffer and
there are 8. `cudaFreeHost` is taken to wait for the device. `sb_pf_start` is a
`call_once`: a pool that quit stays off.

**HotTier** is one block's `BlockPool` with both streams. `Ensure` does the
lookups, `Miss` admits one expert and starts its copy, `ShedOne` is a turn of the
soft-cap loop, `EnsureReturns` makes the compute stream wait, `Submit` and
`MarkSubmitted` are the executor's two calls after it, with `Prefetch` allowed
between them since the lock is free there. `Without` takes experts out of the recency list: it keeps the
places of the others in their order. An event is the number of the copy or
kernel it was recorded behind, which is what waiting for it means on an in-order
stream. `LoadWarm` moves the block to pinned RAM at any idle moment; copies no longer
use the ring then. An exception from the bank ends the host (`"raised"`): no
caller in the repository catches it. A kernel has a first and a last instruction,
because a copy may begin in between.

### The Python runtime

**ExpertBank** opens a bank in one of its modes (file, RAM copy) and has threads
in `slice`, with the bank's lock over seek and read, `load_warm`, which reads a
whole tensor through the same handle with no lock, and `close`. A seek and a read are two
steps; the handle's position is state. `LoadsLive` says whether a warm load may run
beside readers; no caller in the repository does that.

**FixedPath** is `FixedPathResident`: tensors largest first, those over the budget left
out, a failing allocation or copy at each, and what is freed then. Which tensors the plan keeps is
stated by its result; `MCHost` has the loop as it is written, and `PlanAssumption` says that both
choose the same, on every table of the instance.

**PinnedPool** is the pool of pinned blocks under its three users, driven in the orders the
tools drive them: tiers built, used and freed one after another, a bank that warms and closes, a fixed
path loaded through one block. A write into a block spoils the copies queued out of it, and the
pool itself never waits for them; what protects them is `cudaFree` in the line before, the
buffer's own event, and that a bank is closed last.

**Executor** runs a token block by block: ids, pointers and weights uploaded into buffers
that every block uses, two kernels, an observation, and the next token's
experts warmed behind it. Each kernel records what it found in the buffers, down to the input,
so an output names everything it was made of. Both streams are queues. `cudaMemcpy` is a step of the host that
needs both empty, which is what the legacy stream means for streams made with
`cudaStreamCreate`.

**Ngram** is the page arithmetic over every base offset of the instance: rows to page runs,
`prefetch`, `release` of what the last step used, `close`.

**Proxy** has `serve` with the backend's process, a squatter on its port, clients
in their handler threads, and answers as the sequence of what a client has received.

### The tools

**Inspector** opens the shards that exist and judges the table. A set is any sequence of shards,
each there or not, with any tensors; a sum is stated as the number of its units (`SumOf`), and
an assumption TLC evaluates in `MCTools` says that this is the sum.

**Qualify** has two
shells at `qualify`, `requalify`, `plan` and `status`, file operations as steps of
their own, and a kill at any of them; a row of `nvidia-smi` that cannot be read is skipped alone (which
devices that may happen to is the constant `MaySpoil`), and its device's free memory becomes its total; **Planner** turns a question (model, machine,
concurrency) into an answer in one step, in bounded integers: sizes in MB, rates in
tenths of a GB/s, hit rates in ten-thousandths, times in 10 us, all rounded down, so
that properties allow one unit where the code would be exact.

**QuantLayout** turns a decoder into bit positions: which bits of a block an element's
number, scales, minimum, table index and sign are made from, for every quantisation type,
once as `quants.py` reads them, once as `sb_host_dequant`, once as the kernels.
Products of floating-point numbers are left out; that equal fields give equal
products is what remains. Packing, the float conversions and the grid tables' sizes
are in it too.

**BenchRun** is a benchmark as allocations, kernels and copies on two streams and a
timer; **Clocks** the sampler thread and its process beside the waiting main
thread: samples with both clocks, or without the memory's, and a process that may not end when told to (the median is an order statistic, `Nth`, which `MCTools` compares with sorting: `NthIsSorted`); **DiskProbe** the workers of a case, their failures and
the list that keeps the first few of them.

**Harness** is a label's directory over several runs: each file is the number of the run
that wrote it, the driver writes them in order and may die after any or in the middle of one, the
measuring process may too, a file may resist its removal, and the acceptance tools read what they find.
**Launch** is one `sabah run`, `matrix` or `gate`: the layers of its environment (a
value is who gave it), the driver's life, the split of its step times, and what is
printed or written. **Validation** executes the plan's runs in order with `--only`, `--rerun`, kills and
a build beside it, and evaluates the gates. A kill may leave the build and the driver behind; a driver goes on
writing its items with the tokens it was started on, beside the sessions that follow. Gates once written
stay. **Evidence** has the counters and captures the gates
are computed from, for each kind of run its own (gate C of a forced run, G of one with several ubatches, F1 and F2 of
several sequences and of the API), while calls are lost, lines torn, those of a product and those it is compared with,
requests given up and the server dies.

**Policies** replays one trace under every policy at once and computes the tables of the
two trace tools; an optimum found by search (`FewestMisses`) is the reference.

## 3. What is checked

Every configuration is small on purpose, and the bounds are chosen so that the
interesting case is reached; the mutants in `PROJECT.json` show it: for
every property there is a plausible bug in a mapped definition (they stand
beside it, "Mutant of ...") with which TLC violates the property within the same
bounds.

| Run | Instance | Shows |
|---|---|---|
| `tier_llama` | 2 tensors of one layer in any order, merged fetch on, 2 experts and one bad index, budget of 2 slots, window of 2 calls, 5 calls between restarts | a budget smaller than the window's needs forces growth, eviction at the window's edge, failures at each point and restarts: slots under kernels and in the call are held, kernels get their bytes. Calls in any order reach link cycles no graph has, which the merged fetch must survive too |
| `tier_overflow` | merged fetch off, two strides, slab of one slot, three more from `cudaMalloc` | the byte counter follows entries of different sizes; the tier over budget is bounded by what one window references; hits and misses add up |
| `tier_retry` (violated) | the host that carries on after an error | finding 2 |
| `graph_merge` | two layers of three tensors, merged fetch on, the code's window of 4 | a pass, a second one and a few calls more (13 calls): ids are the routers', followers' reservations are found, so that no expert has two slots, and every call returns |
| `graph_one_layer` (violated) | one layer of three tensors | finding 1 |
| `runtime_parts` | slab of 8 units with strides 1, 2, 3; staging of two sets of one buffer, lists of 3, 2 and 1 misses, 2 fills; readahead with 2 buffers, 3 experts, 3 offers; 3 lanes, up to 4 requests, 3 waves; bank: 2 blocks, 2 experts, 2 readers; fixed path: 5 tables, 4 budgets; pinned pool: blocks of two sizes, rings of 2, 3 users; executor: 2 layers, 3 experts, 2 tokens; n-gram: 6 rows of 3 bytes, pages of 4, unaligned; proxy: 2 clients, bodies of 2 chunks | the parts under a call and of the Python runtime, each alone, with every failure, a quit or stop at any point; the slab refines `RangeAlloc` and the pool `WaveRead`; the host is never parked |
| `blocks_input` (violated) | the executor alone, as above | finding 6 |
| `wave_restart` (violated) | 2 lanes, 2 starts | finding 3 |
| `hot_steps` | 3 experts, 3 slots of which 1 in reserve, 2 staging buffers, steps of up to 2, 2 kernels, 5 copies | prefetch against ensure, two steps in flight, ring wrap-around, eviction, exceptions, direct and staged copies |
| `hot_reserve` (violated) | 2 slots of which 1 in reserve | finding 4 |
| `tools_parts` | see `MCTools.tla` and its cfg: two shells and two devices, one of them with a row that may be unreadable; 2 runs of a label; 2 sessions of a plan of three runs over 2 prompts, one driver left behind at a time; 3 blocks and prompts of 2 and 3 rows over ubatches of 2; 2 cases of 3 reads, 2 failures, room for 1 error | the tools, each part alone, over the inputs they must tell apart |
| `planner_placement` (violated) | machines down to less than the fixed path | finding 5 |

Several properties are conjunctions of named parts, each stated with its comment in
its module; TLC evaluates the parts and the mutant breaks one of them:

| Property | Parts |
|---|---|
| `SlabIsWhole` | `Disjoint`, `Conserved`, `Coalesced` |
| `BuffersAreOwned` (`Readahead`) | copies read their expert, ready is read, one job per filling, one buffer per expert |
| `HostIsNotParked`, `IoTypesOK` | the host thread leaves each place where it waits for another (`Parked`); the four type invariants |
| `BankServes` | a slice is its expert's; warm buffers hold theirs; pinned or copied; nothing pinned after close |
| `MemoryIsAccounted` | `FixedIsAccounted`: resident or missing, within the budget, device memory named; `PinnedIsOwned`: one owner per block, copies read what was staged, a sweep of tiers goes round on the same blocks |
| `BlocksAreExact` | buffers are their block's; an output is the last block's on its token's input, warmed or not |
| `AdviceIsSound` | rows that are wanted are warm; runs lie in the map |
| `ProxyIsTruthful` | a complete answer is whole; counters are ours; serves a loaded model; gone means stopped |
| `HostAnswers` | the bank's lock is released; `/health` tells; requests end |
| `ProfileIsTrue` | supported is sliceable; bytes are split; blocks are the bank |
| `HardwareIsTold` | prints a whole profile; says what was not measured; usable memory is there on each device whose row was read |
| `PlanIsHonest` | capacity per device; warm tier is the most that fits; hits grow with capacity; may say no; without a measured transfer rate it promises nothing |
| `DecodersAgree` | fields agree; each row read whole; codes are nearest; table indexes in range; packing is read back |
| `RowsAreMeasured` | a row is timed over its own tokens; counts its own; returns what it held |
| `ClockIsRecorded` | a valid record is at both clocks' floors; complete; only a stop that came early or failed orphans the process |
| `TakenIsOneRun` | artifacts, reference and record of one run, and of this one; what `p1_accept` and `seg_verify` take is whole; prefill chunks of a manifest run; a passed gate's log is whole |
| `ReportsAreTrue` | `EvidenceCounts`, `ProbeIsMeasured`, `LaunchIsRecorded` |
| `ReleaseIsEarned` | what the forced run left is in the free run's context; a release stays true of the runs; the benchmark is alone |
| `PoliciesAgree` | within the slab; Belady is optimal; nobody beats it; LRU in three forms is one; oracle is best; tables agree |
| `ToolsAnswer` | a command ends; a repeated item has its reason in the log, or was fed to a driver left behind |

Named bounds: `MaxCalls`, `MaxWaves`, `MaxStarts`, `MaxOffers`, `MaxFills`,
`MaxKernels`, `MaxCopies`, `MaxTokens`, `MaxSteps`, `MaxQueued`, `MaxUsers`, `WarmExperts`, `MaxChunks`, `MaxCommands`,
`MaxRuns`, `MaxSessions`, `MaxLeft` (drivers left behind at one time), `MaxAccesses`, `MaxUnits`, `MaxFaults`, `MaxBreaks`,
`MaxTime`. `KeptErrors`, how many errors a row of the disk probe has room for, is 4 in the code and 1 here, with two
workers that may fail. Each bound stands in the guard of the action that begins a call, a wave, a
step or a run, or of the fault it limits, never in the middle of an operation, so that no bound
stops a call half way and hides or forges a liveness violation. `runtime_parts` has
`MaxStarts = 1`, because a second start is finding 3.

Why the bounds are enough. The tier's protocol is about pairs: a kernel and an
eviction, a call and the one it follows; two tensors, two experts and one window
more than the longest run of reused ids produce every such pair, and the two
slot theorems hold for all values anyway (section 4 says which other properties do). The staging and readahead protocols
are about one buffer and its next user. The pool's barrier needs a first, a last
and one more lane. The slab's splits and merges need a range with a free
neighbour on each side. The bank's race needs two readers of one handle; the executor's
a kernel and the upload after it; the proxy's one client that is answered while
another's body is cut. Files of a directory need a run that died and the one after it; a validation a session that was
killed in the middle of a run's items and the one after it, hence two prompts. A
policy's traces of six accesses over four keys and slabs of one to four fill, evict,
and come back to a ghost. The block formats are decoded in full: every bit of a
block, every type.

**Deadlock.** The systems stop by design (the host aborted, raised or quit, a command
ended, or the bound of calls is used up), and the cfgs say `CHECK_DEADLOCK
FALSE`; that nobody is stuck inside a call is what `CallReturns`,
`HostIsNotParked`, `HostAnswers` and `ToolsAnswer` say.

**Fairness** is weak and given only to those who keep running: the host thread
inside a call, the workers, the device's streams, which finish the work they were
given, a reader that holds a lock, a handler thread, a command of a shell while
it is not killed, a squatting server that dies some day. Issuing a call, a
timeout, a spurious wake-up and an error that would end a wait (`DrainFails`,
`ReuseFails`, `ResolveFails`) get none, so no liveness property leans on them.

## 4. What is proved

Eight modules hold the theorems `PROJECT.json` lists, each for every value of the
constants the module's assumptions allow. Where a theorem has a hypothesis, it names
what the code's callers keep or what a finding breaks; a run satisfies each of them.

| Theorem | Property | Hypothesis, and why |
|---|---|---|
| `TypeCorrect`, `RunningSlotsAreHeld`, `CallSlotsAreHeld` (`TierProofs`) | `TypeOK`, `RunningSlotsHeld`, `CallSlotsHeld` | none |
| `BytesAreServed` | `ServedBytes` | `AbortOnError`: finding 2 is the other host |
| `HitsAndMissesAlwaysAddUp` | `HitsAndMissesAddUp` | `AbortOnError`, `~MergeOn`: a follower's miss is counted by no call that asked for it |
| `BudgetStaysKept` | `BudgetIsKept` | `AbortOnError`, `~MergeOn`: followers would share the epoch of the call that fetched them |
| `CallsUseTheirRoutersIds` (`LayerGraphProofs`) | `IdsAreTheRouters` | the last tensor of a pass is of another layer than the first: finding 1 is the other graph |
| `MergedIsAlwaysServed` | `MergedIsServed` | `AbortOnError`; `GraphIsPass`: each tensor once per pass, three or more. With two, the chain leads back to the call's own tensor, because `sb_chain_note` rules out only the next one, and the merged fetch looks it up again |
| `SlabStaysWhole`, `SlabGivesRanges` (`SlabProofs`) | `SlabIsWhole`, `GivesRanges` | none |
| `WaveOutlivesItsReaders`, `LanesAreNotShared`, `WavesReadEveryRequest` (`WavePoolProofs`) | `WaveIsAlive`, `LaneHasOneUser`, `ReadsEveryRequest` | `MaxStarts = 1`: finding 3 |
| `StagingTypeCorrect`, `FilledSlotsAreServed` (`FetchProofs`) | the type, `FilledWithItsExpert` | none |
| `ReadaheadTypeCorrect`, `ReadaheadOwnsItsBuffers` | the type, `BuffersAreOwned` | none |
| `IoTypeCorrect` | `IoTypesOK` | `MaxStarts = 1`: finding 3 |
| `SlotsAreNotShared`, `KernelsReadWhatTheRouterChose`, `ResidentsAreComing`, `HotTypesHold` (`HotTierProofs`) | `OneExpertPerSlot`, `KernelReadsItsExperts`, `ResidentIsComing`, `TypeOK` | none |
| `EvictionFindsAVictim` | `VictimFound`, stated there: `_evict` never raises that every slot is protected | none |
| `BlocksAreAlwaysExact` (`HostProofs`) | `BlocksAreExact` | none |
| `ProxyStaysTruthful` | `ProxyIsTruthful` | none |
| `AdviceStaysSound` | `AdviceIsSound` | none |
| `PinnedStaysOwned`, `FixedStaysAccounted` | `PinnedIsOwned` and `FixedIsAccounted`, the halves of `MemoryIsAccounted` | none |
| `MemoryStaysAccounted` | `MemoryIsAccounted`, of the composition | none |
| `BankIsRight` | `BankServes` | `~LoadsLive`: no caller warms a bank beside its readers |
| `LabelsAreOfOneRun` (`ToolsProofs`) | `TakenIsOneRun` | none |
| `HardwareIsAlwaysTold` | `HardwareIsTold` | `SmiIsCudas`: CUDA and `nvidia-smi` list the devices alike; `profile.py` pairs the two lists by index |
| `RowsAreAlwaysMeasured` | `RowsAreMeasured` | none |
| `ClocksAreRecorded` | `ClockIsRecorded` | none |
| `ProfileStaysTrue` | `ProfileIsTrue` | `OneOfAName` of every set that may be found: with two tensors of one name the reader keeps the last, and the profile describes only that one |
| `LaunchReportsWhatItRan` | `LaunchIsRecorded`, the launches' part of `ReportsAreTrue` | none: `LaunchAssumption` says what the rows of `MATRIX` may set |
| `ReleasesAreEarned` | `ReleaseIsEarned` | none |
| `RerunsAreLogged` | `RepeatsAreLogged`, part of `ToolsAnswer` | none |

The step of each induction has one named step or lemma per action, and under it one
per conjunct that the action can disturb. The arguments, and why the invariants are needed:

**The tier's slots.** The code protects a slot by comparing two numbers, `entry.epoch +
4 > epoch`, and drains the stream by counting a third, `group_len`. Neither says
anything about kernels. The inductive invariant `SlotInv` ties them together:
`KernelInv` (a kernel's slots are stamped by its call or a later one) and
`WindowInv` (every kernel not known finished belongs to the last `groupLen`
epochs, and `groupLen` never exceeds the window) give that an evictable entry,
older than the window, is older than every running kernel; `CallInv` (what the
call points at carries this very epoch) protects the call from itself, and
`EpochInv` says that stamping only raises epochs. `WindowInv` is the delicate
one: `Refuse` and the failing steps advance `epoch` without launching or draining,
which only widens the distance. For a host that passes no key every call drains, so
the window is needed only from the drain on. For the bytes, `BytesInv` adds
that every entry's expert was brought by a transfer already issued, unless the call
in progress is about to bring it (`BroughtInv`), that
misses are entries of this call (`MissInv`), and that what the call will write no
kernel reads (`ApartInv`).

**The tier's counters and the merged fetch.** Both need that an expert has one entry
(`UniqueInv`), which the code never checks: it looks up and appends. It holds because only the
call in progress has unfilled entries (`FilledInv`), because the tensors the fetch
will turn to next have no miss yet (`RestInv`), and because the snapshot lists every slot of the
tensor, filled or not (`MemoInv`). `CountInv` then counts what the call still has to look up.

**The tier's budget.** The byte counter is stated as the cardinality of `HeldBytes`, the
bytes of the slots in use, so that taking and freeing a slot are a disjoint union and a difference. The
bound needs a count over epochs: every entry was stamped by one call (`StampedInv`), with that call's tensor and
one of its experts, and since experts are single (`Unique`) a call leaves no more entries than experts it asked
for (`OneCallsEntries`). When nothing can be evicted all entries are of the last `GroupMax` epochs, so the tier
is that many pieces, none larger than the largest (`Pieces`). `StampsInv` keeps the count for the call in progress.

**The graph.** The tier compares an address; whether the ids behind it are this layer's is a
fact about the order of calls. `RoutedInv` says that the ids at hand are of the last call's
layer while the key stands, so a reuse is within the layer, as long as a pass does not
end where it began. `LinkInv` says that every link the chain has recorded is one the
graph makes, so that the followers found through it are other tensors
of the pass, which is what `UniqueInv` asks of them.

**The slab.** `SlabInv` is `Sound`: free ranges and allocations lie in the slab, are
apart, cover every cell, and no two free ones touch. Two lemmas carry the steps: splitting a range
keeps it, and so does joining a run of touching ones. Each step is then a step of
`RangeAlloc` or a stutter.

**The lanes.** `PoolInv` counts: while a wave is published, `done` is the
cardinality of `Through`, the workers that have seen this generation and are neither
reading nor on the way to the lock (`CountInv`); so when `done` reaches the pool's
width all of them are. Between waves every worker has seen the last generation
(`RestInv`), so none can enter a wave that is over; a second start breaks exactly this.
For the refinement, the requests of a wave are split by remainder: a request has
one worker, and `ReadInv` says that what a worker has passed is read, so at the barrier all is.

**Staging.** A fill is right in the future: when it returns, its copies are
queued. `WillHold(d, e)` says that the last pending copy into slot `d` will find `e`'s
bytes in its buffer, and that nobody reads into that buffer before the event of
its set (`Kept`); `DueInv` has it for every slot that was promised. `WavesInv` and
`WaveInv` say it of the waves recorded and of the one in progress. A wave given up half way has copies behind no
event: `FillInv` promises nothing of the list's slots then, and the fallback
issues every copy of the list again, later in the same stream.

**Readahead.** `JobsInv`: each filling buffer has one job, in the worker's batch or in the
queue behind it. `OutInv`: a queued copy out keeps its buffer from the worker, either because the
buffer is taken or because its event will be waited for (`Guarded`). `StopInv` says that a worker that
left had nothing to do. That the queue is short enough (a conjunct of the type) follows from the jobs being distinct.

**The Python tier.** Events order two streams, so the argument is about places in
their queues: of the copies that come before a kernel into a slot it reads, the last brings
the kernel's expert, and the kernel waits for all of them (`KernelInv`); the copies
that come after wait for it (`OrderInv`). A prefetch between submission and mark is harmless because it goes into free slots and
no pending kernel reads one (`FreeUnread`); a ring buffer is refilled only behind
the copy that reads it (`StageInv`). `BroughtInv` and `AwaitInv` are the same for residents.

Its list of recency and its table are changed apart, in several places; that the list is the table's
residents, each once (`TableInv`), is what lets a count of the list be a count of slots. The lemmas on
`Without` and `Place` come first: a choice of places leaves the order of the others alone. `CountInv` says that
every event kept anywhere is of a copy that was issued. `RoomInv` is the argument that eviction always finds a victim: free slots and residents together
are never fewer than the slots a step may ask for, although the soft cap loses slots for good (finding 4),
because shedding stops at the reserve and the reserve is clamped to leave a step room.

**The Python runtime.** `Executor`: the kernels still to run are those of one block whose pointers the buffers
hold (`DeviceRuns`), because the next upload waits for both streams (`AheadInv`). `Proxy`: `AnswersInv` follows an answer
with the backend process it came from, `ServerInv` ties the counters to the one that runs. `Ngram`: the arithmetic of rows and pages is
proved once (`Products`, `Division`, `Greatest`), then that pages kept by `release` are those the next step still needs (`PrevInv`). `PinnedPool`:
`OwnersInv` counts owners, `DmaInv` says that queued copies leave only blocks of a tier still built,
and the pool's growth is bounded by what was held at once, size by size. `ExpertBank`: between its seek and
its read the handle stands where the reader left it, because only the lock's holder moves it (`LockInv`). `FixedPath`:
what is resident, missing and still to come are apart and make up the table until something raises (`ReachedInv`), the bytes are
those of the resident (`CountInv`), and what the plan kept is within the budget while no tensor it left out would
have fitted (`PlanInv`). That there is such a plan at all, for every table and budget, is an induction on how many
tensors have been considered.
The theorem of the composition adds that a step of another part is a stutter of this one.

**The tools.** `Harness`: a driver writes in order and a file is there from the run that wrote it last, so of the outputs that
could be removed those that exist are of one run (`OneRunInv`, `DriverInv`) even when removing or writing stops half way. `fed.i32`
is written after the other two artifacts and removed before any other is begun, so one found at its full length vouches
for them (`ReferenceInv`). `Qualify`: a command holds no profile that is not current, and one
it measured is of the machine as it is, row by row (`HoldsInv`); what other shells save meanwhile is such a profile too. `BenchRun`: under the timer,
tokens launched are executed or queued and none is of the warm-up (`TimerInv`). `Validation`: nothing in the code compares what the
forced run was fed with what the free run left until the gates are computed, if then. `ContextInv` says that they agree all along, item by item: in
the forced run's directory, in what its driver was started on, in what a driver left behind was started on, because all three were read
from a free run that was done, and what is done is skipped. The `mishaps` are the ways a free run can change after that. `RunningInv`
keeps the build, the log and the process apart from each other. `Clocks`: a sampler that has not started has no
process, and a join that returned for its end returned for good (`ThreadInv`). The median is at a floor exactly when half of the
samples are: `Nth` has as many samples below it as its place says, so comparing it with the goal is counting, for either clock. `Launch`: the driver's
environment is its own row's (`ChildSettings`: who gave each setting, layer by layer), the steps on file are the passes done
(`PassInv`), and each record is made of the two (`RecordHolds`); the regimes are a cut of the steps that loses none (`SplitHolds`).

**The inspector's sums.** A fold cannot be reasoned about here, so a sum is a cardinality, the number of pairs of
an element and one of its units. Disjoint sets add up (`SumSplits`), and what holds of the empty set and
survives one more element holds of every finite set (`PartByPart`). That lemma is an induction, stated with a *set* of the
parts it holds of in place of a predicate, which needs no operator parameter; it gives that a sum of multiples is a
multiple (`SumScales`) and that the sums of groups are the sum of the whole (`SumOfGroups`), which is what ties the cost of the blocks to
the bytes of the bank. The invariant `FoundInv` says that every tensor of a shard that was read is still in the table, up to
the shard's number: a shard that is read may put a tensor in the place of another, and only where they are the same.
`ToldOnceInv` ties the profile to the table it was made of.

**Only model-checked.**

* Liveness (`CallReturns`, `HostIsNotParked`, `HostAnswers`, `ToolsAnswer` but for its logged reruns): it rests on fairness and `ENABLED`.
* What a fold, a sort or a filter of a sequence computes, where it cannot be stated by its result:
  `PlanIsHonest`, `PoliciesAgree`, the counts of `EvidenceCounts` and `ProbeIsMeasured`.
* `DecodersAgree`: finite tables, checked in full.
* That the results stated above are what the loops compute: `MergeAssumption` (`MCIo`), `PlanAssumption` (`MCHost`),
  `NthIsSorted` and `SumIsCounted` (`MCTools`), which TLC evaluates on small inputs. `NamesAgree` says
  that the GGUF sets of the instance keep the hypothesis of `ProfileStaysTrue`.

## 5. Findings

1. **Ids of the pass before** (`graph_one_layer`). Ids are reused when the
   tensor's address and length repeat. With only one layer served by the tier,
   the first call of the next pass follows the last call of this one with the
   same tensor, and the run of calls is still short: it runs on the experts of the
   pass before. The comment says reuse is allowed only while the tensor is
   unchanged. With two layers or more, `graph_merge` shows it cannot happen.
2. **The wrong entry is marked filled** (`tier_retry`). A call that fails after
   reserving leaves an unfilled entry; the retry reserves another, fills it, and marks
   the first match, whose bytes never came. The next call takes it for a hit. Needs
   a host that goes on after an error, as the bridge under `integration/` does; the
   patched llama.cpp aborts.
3. **A restarted pool wakes with no wave** (`wave_restart`). A new worker starts at
   generation 0 while the pool's generation kept its value.
4. **Shed slots are lost** (`hot_reserve`). The soft-cap loop drops the slot that
   `_evict` returns; it is on no list again and the prefetch reserve it was meant to
   refill stays empty.
5. **A device that holds nothing gets everything** (`planner_placement`). A device
   whose usable memory is below the fixed path and the KV workspace gets expert
   capacity `max(0, free) = 0` and stays in the plan with both placed on it, against the first
   invariant of `test_planner.py:101-105`, whose cases hold no device that small.
6. **The input is not updated** (`blocks_input`). `run_model`'s docstring says that `x` "is updated in
   place on the device between blocks" (`executor.py:104-107`). Every block reads `d_x` and writes `d_out`, nothing
   copies one into the other, so each block of a token runs on the token's own input, and what is downloaded is the
   last block's output on it. For a benchmark of transfers that is harmless, for a model it would not be.

### Formulas kept beside the code that no run checks

TLC finds each of these but the first violated; they are what a reader would expect, or a comment says, and
the modules keep them as documentation.

* `WarmEndsBeforeTheNext` (`Executor`) is the exception: it holds, and `mtp_prefetch.py:163-165` says otherwise. The copies
  of a warm-up are to "ride the copy stream while the remaining blocks compute", but the next block's
  upload waits for them, so they overlap their own block only.
* `NothingIsNominal` (`Qualify`): "Never assume nominal capacity" (`profile.py:8-10`); a device whose `nvidia-smi` row was
  skipped has its total for free memory (132-141, 290).
* `NothingIsReadBack` (`Harness`): "must never be read back as this run's numbers" (`stream.py:84-88`); the prefill chunks of
  a run with a literal prompt are in no list of outputs, though `phase0_measure.py:307` reads them, and a file that cannot be removed
  stays (`stream.py:96-99`, `phase0_measure.py:174`).
* `RejectedIsNotTaken` (`Harness`): what `seg_verify.py` rejected for its exit code it takes as cached the next time (51).
* `BenchIsOnIdleMachine` (`Validation`): "the benchmark runs on an otherwise idle machine" (`validate.py:147`); it waits only for
  the build its own process started, and `sys.exit` (157) or a kill leaves that build, and a kill the driver, beside the next session.
* `ReleaseIsOfTheRuns` (`Validation`): a rerun leaves `release_gates.json` as it was (`validate.py:155-166`).
* `ComparesAll` (`Evidence`): a torn index line of the router's choice or of the weighted rows makes `opcheck_v1.py` pass over the
  comparison in silence (145, 153), and gates C and G ask for one row of it at most.
* `WarmTierIsPinned` (`Planner`): a storage-backed plan may be recommended with nothing
  pinned (`planner.py:417`).
* `TwoQWithinSlab` (`Policies`): a ghost promoted by 2Q evicts nobody, so its main list grows over
  the slab it is compared at (`slab_replay.py:92-98`); that takes five keys and nine accesses at a slab of four, more than
  the run has.
* `DocumentNamesItsFiles` (`Launch`): the fingerprint in `matrix.json` is of the options
  and not of `SABAH_DIAG_EXE` and `SABAH_RT_LIB` (`stream.py:493`).

### Observed on the way

In the CUDA runtime: with two strides or more the slab fragments, which the comment at
339-341 rules out for equal strides; with the merged fetch an expert reserved for
a follower counts as a miss of one call and a hit of the next, so the totals
differ from the comment at 660-663; with `IdCheck` a mismatch is counted but the
old ids stay in use; a tensor cycle of length two with equal ids makes the merged
fetch look a tensor up twice; a failing `cudaHostAlloc` leaves a stale capacity (1062); the
lanes count their reads without a lock (1267); staging that failed half way has no event
(1448); a readahead buffer between taking and releasing is lost on an event error
(1712, 1817); `sb_pf_start` is a `call_once`, so after a shutdown and a new
init the readahead stays off (2019).

In the Python runtime: `load_warm` reads through the shared handle without the lock
(`expert_bank.py:231-249`); a constructor that raises leaks its pinned buffers (118), in `hot_tier.py` (201) and `residency.py` (152) too, and a sweep that skips the point goes on without them; the n-gram table reads
its map without the lock that closes it; the proxy pins its residency plan in its
own process (`openai_proxy.py:297`), where the backend does not see it.

In the tools: 2Q raises below four slots; `byte_hit_lru` puts the hottest seed in as the
oldest entry; `trace_locality.py` divides by zero for fewer than 8 steps (351); a
timeout of `stream.run` leaves the sampler running and ends in an uncaught exception; two
launches share `results/_run`; with `--set SABAH_LLAMA_HOT_BYTES` the record names the
budget that did not run (`stream.py:364`), which `BudgetIsTheRuns` excludes;
`--concurrency 0` divides; more RAM can lower a projection; `status` does not catch a torn
profile; a missing op of one ubatch is hidden by another ubatch's in
`opcheck_v1.py`; the "SORTED" case of `disk_probe.py` is popped from the end, so it
reads descending offsets, and its "sequential 64MB x4" reads at multiples of 1 GiB; the
comment at `rt.cu` 3385 differs from the code at 3415.

## 6. What bounds these results

* One block in `HotTier`: the staging ring is shared by all blocks in the code
  while the read event is per block, which one block cannot show.
* Copies that failed half way through a wave have no event (`Staging`). It is
  benign because the fallback issues all of the list again, in stream order.
* A worker of the readahead that loses a buffer to an event failure goes on with one fewer.
* Sizes of staging buffers are abstracted, and so is the stale capacity after a failed
  `cudaHostAlloc`.
* `runtime_parts` and `tools_parts` run their parts one at a time. Where two parts do
  interact (the miss list with the readahead, the hot tier with the bank), the
  interface is a choice: `Resolve` may fail, a bank may raise.
* `Planner`'s integers round where the code has floats, so it cannot show
  a disagreement of less than a unit.
* In `Validation` the tokens of an item come out one way or another, one way for a whole run, and one driver is left behind at a
  time; a `--rerun` given with `--only` names the same run. The theorems have any number of drivers; the other two they share.
  `Evidence` sees one plan shape of three blocks and two sequences, and a request given up makes its own group's verdict
  negative before it can disturb the next one's counts, so nothing here tells the two apart.
* `Qualify` takes an unreadable row as its device's total, as the code does, and says nothing of that device's memory.
* `Inspector` speaks of the shards that are there: a set with one missing is profiled without it.
* `QuantLayout` says nothing about rounding in the products.

## 7. Plan

Done: every module of section 2, and the proofs of section 4.

Next, in this order:

1. `HotTier` with two blocks sharing the staging ring.
2. A composition of `Staging` with `Readahead`: a miss list partly taken from the
   readahead, partly read; and of `HotTier` with `ExpertBank`.

## 8. Not modelled

* The arithmetic of the kernels (products, reduction order, rounding): numerics, which
  neither tool reasons about. What bits they read is in `QuantLayout`.
* Byte verification and self-checks recompute and compare; they change no decision of the tier.
  Their counters, as the gates read them, are in `Evidence`.
* The shard index and `source.py`, `identity.py`: lookup of a path or a hash; opening
  a shard has only the outcomes `Resolve` and `ResolveFails` name.
* Bindings: `ctypes` declarations, one call each; `row_bytes` and the type table are in
  `QuantLayout`.
* Of the tools: reports, plots, tables that only format, and scripts that ran once.
* The vendored `gguf-py` other than `quants.py`, and llama.cpp itself, whose part is what
  it does to the runtime (`LayerGraph`, `Evidence`, `Launch`).

## 9. Running

    tlc -workers 2 -config MCTier_llama.cfg MCTier
    tlapm TierProofs.tla    # likewise LayerGraphProofs, SlabProofs, WavePoolProofs,
                            # FetchProofs, HotTierProofs, HostProofs, ToolsProofs

The run list in `PROJECT.json` gives each cfg its module; the slowest, `tools_parts`, and `runtime_parts`, take
about three minutes each (626,001 and 368,163 distinct states). Modules named `MC*` hold values of constants and the
union of parts.
