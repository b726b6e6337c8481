# A verification of riscv_gpgpu

TLA+ models of the RISC-V GPGPU in this repository: the HLS device
(`src/hls/src`), the SystemC golden model it is meant to reproduce
(`src/models/systemc`), the host stack (`src/runtime`, `src/driver`,
`src/software`) and the PTX transpiler (`src/driver/src/ptx_transpiler`). The
models are checked with TLC on small instances; the most important properties of
the device, the golden model and the host stack are proved with TLAPS for instances of
every size. Paths below are
relative to the repository.

## 1. The system

A host writes a kernel (a program, initial registers, a warp count) to the
device and raises `start`. The warps of the kernel are spread over the compute
units (CUs); a warp runs until it finishes or stops at a BARRIER; when all warps
of the kernel have stopped they are released together; when all have finished the
device raises `done`. All blocks of the device are free-running processes joined
by bounded FIFO streams; nothing but these streams, the registers of the host
interface and the program store is shared.

| component | state | operations | talks to |
|---|---|---|---|
| `scheduler/barrier_arbiter.h` barrierCore | `busy done fault`, `total_warps_`, `stalled_count_`, `done_count_` | launch, poll events, release, kernel_done | host registers, event and signal streams of every CU |
| `scheduler/gpgpu_top.h` programLoader | load position, seed position | load program words, seed registers, loaded tokens | `start`, program store, seed and token streams |
| `scheduler/gpgpu_top.h` schedulerCore (per CU) | slots, `busy_cu`, IDLE/RUNNING | launch, dispatch, status, release/done | `start`, all streams of its CU |
| `scheduler/cu_dispatch_unit.h` | `WarpSlot[MAX_WARPS_PER_CU]` | assign, launch, next ready, build dispatch, record, release | owned by schedulerCore |
| `compute_unit/compute_pipeline.cpp` (per CU) | register files, the warp in hand | drain seeds, take a dispatch, execute to BARRIER or HALT | dispatch, status, seed, memory streams |
| `simt_controller/divergence_stack.h` | active mask, bounded stack, overflow flag | initializeWarp, handleBranch, handleJoin | called by executeOneWarp |
| `scheduler/mem_arbiter.h` | round-robin pointer | arbitrateOnce, routeResponse | memory streams of all CUs, the two AXI streams |
| `memory/memory_pipeline.*`, `cache_bank.h` | L1 per CU, shared L2, shared memory | load, store | the AXI streams, external memory |
| `scheduler/cu_cluster.h` (13 CUs and more) | relays, per-cluster loader and arbiter | event relay, signal fan-out, two-level memory routing | as above, in two clusters |
| `system_top/system_top.h` | per-device launch and completion | split a kernel over devices | several devices |
| golden model (`models/systemc/src`) | ready queues, warp contexts, barrier tables, SIMTController masks and stacks, MemoryHierarchy maps | split a grid over GPUs, generate and balance warps, run a warp to its next barrier, release | SystemC events, memory |
| `models/systemc/integration/kernel_bridge.cpp` | one ComputeUnit per thread, the cursor, the shared thread context | map buffers, step threads or warps, release a block's barrier, write back | driver loader, ComputeUnit |
| `driver/src/loader.cpp` | buffers, kernel path, launch configuration, execution state | allocate, copy, configure, begin, finish | host API, bridge |
| `driver/src/fpga_*.cpp` | aperture, bump allocator, registers | open, allocate, load an ELF, start, wait, reset | the device |
| `software/host_api` | staged arguments, PTX registry, backend | malloc, copy, set argument, register, launch, synchronize | loader, FPGA driver, transpiler, bridge |
| `runtime/src/host_runtime.cpp`, `software/kernel_loader` | the current bundle | pack, inspect, upload, launch, unload | host API |
| `driver/src/ptx_transpiler` | register maps, the statements of a kernel | parse, validate, lower to RV32IMF | host API, assembler |

What is hard about it:

- *Interleaving.* Every poll of a stream by one process races every write of
  another; the barrier is a distributed count over per-CU streams.
- *Levels, not events.* `start` is a level sampled separately by barrierCore,
  programLoader and each schedulerCore; `done` and `fault` are never cleared.
- *Blocking.* A write to a full stream stops a process in the middle of its loop
  body; one process serves both directions of the memory path.
- *State that survives.* Slots, caches, divergence stacks and unread tokens
  outlive the kernel that produced them.
- *Limits.* The capacity of the slots, the width of `cu_id_t`, the depth of the
  divergence stack, the length of the program store, the device's memory.
- *Late and half-done work.* The host waits with deadlines the device does not
  know of; an upload, a launch or a write-back can fail after its first steps.
- *Two of everything.* Thread numbers, the split of a grid, divergence and memory
  are computed once by the device or the bridge and once by the golden model or
  the runtime, and must agree.

The full list, with the line where each hazard bites and the properties that
watch it, is under `hazards` in `PROJECT.json`.

What makes each component correct:

- barrier: arrivals counted exactly once, no warp ahead of a barrier, `done`
  exact, every launch ends;
- loader and schedulers: nothing runs before its program and registers are
  there, one warp in flight per CU, each warp resident exactly once;
- divergence: no lane lost or doubled, the same lanes as the golden model;
- memory path: each response to the lane that waits for it, no mutual blocking,
  no starvation;
- caches: no CU sees a word go back in time; data as in the golden model;
- golden model: every warp scheduled once, barriers of all warps, documented
  results, every launch ends;
- bridge: a block's threads meet at its barriers, each with its own context,
  results written back all or not at all;
- host stack: live buffers disjoint and off the running code, a synchronize that
  returned means the kernel has run, arguments and PTX sources used by whom they
  are for;
- transpiler: the emitted code computes what the PTX says.

## 2. Modules

| module | models | built on |
|---|---|---|
| `WarpSlots` | the operations of `CuDispatchUnit` as operators on a CU's slots | |
| `GpgpuTop` | the flat `gpgpu_scheduler`: host, barrierCore, programLoader, schedulerCore and compute_pipeline per CU, the streams | `WarpSlots` |
| `KernelBarrier` | abstract: what the device promises about one kernel | |
| `GpgpuTopProps` | properties of `GpgpuTop`, and its mapping to `KernelBarrier` | `GpgpuTop`, `KernelBarrier` |
| `GpgpuTopInv` | the inductive invariants of the barrier and of the seeds | `GpgpuTopProps` |
| `MCGpgpuTop` | programs and warp counts for TLC | `GpgpuTopInv` |
| `GpgpuTopProofs` | proofs of its types, invariants, seeds and refinement | `GpgpuTopInv` |
| `Divergence` | `DivergenceStack` next to the golden `SIMTController`, one warp | |
| `DivergenceProofs` | proofs about it | `Divergence` |
| `MemPath` | executeMemOp, mem_arbiter and memory_pipeline and their streams | |
| `MemPathProofs` | proofs about it | `MemPath` |
| `CacheBank` | `SetAssocCache` as operators on a value, for any number of ways and sets | |
| `MemorySubsystem` | L1, L2, global memory and the host's DMA, next to the golden `MemoryHierarchy` | `CacheBank` |
| `MemorySubsystemProofs` | proofs about it, and the lemmas about a cache tier | `MemorySubsystem` |
| `CuCluster`, `MCCuCluster` | the hierarchical `gpgpu_scheduler` of 13 and more CUs: two clusters with relays and loaders | `WarpSlots` |
| `CuClusterProofs` | proofs about its relays | `CuCluster` |
| `GoldenIsa` | golden instructions, the kernel library, `ComputeUnit::executeWarp` | |
| `GoldenTop`, `MCGoldenTop` | golden `SystemTop`, `GPGPUTop`, `WarpScheduler`, next to the HLS `SystemTopHLS` | `GoldenIsa` |
| `GoldenTopProofs` | proofs about its scheduler, barrier and split | `GoldenTop` |
| `KernelBridge`, `MCKernelBridge` | a call of `runOnHardware()` and `computeThreadContexts()` of the runtime | |
| `KernelBridgeProofs` | proofs about it | `KernelBridge` |
| `DriverLoader` | the driver's buffers, launch and execution state | |
| `FpgaDriver` | registers, aperture, ELF loader, the device behind them (external) | `DriverLoader` |
| `HostApi` | the host API in its simulator and FPGA builds | `FpgaDriver` |
| `HostRuntime`, `MCHost` | kernel loader, runtime and an application | `HostApi` |
| `HostProofs` | proofs about the host stack | `HostRuntime` |
| `Rv32` | `decodeRV32` and `executeRV32` | |
| `PtxParser` | statements, operands and their parsing | |
| `PtxTranspiler`, `MCPtx` | `RvEmitter` next to a PTX machine | `Rv32`, `PtxParser` |

### GpgpuTop

One action is one uninterrupted stretch of one process, from one poll or write of
a shared stream to the next, so every interleaving of polls is a behaviour.
`b_pc`, `s_pc` and `c_pc` say where in its loop body a process is. A write to a
full stream is an action that is not enabled. `BarrierCore` is `barrierCoreN`,
`ProgramLoader`, `SchedulerCore(c)` and `ComputePipeline(c)` the functions of the
same names. `loader.blocked` is the point inside `seed_out.write()` where `start`
is not looked at.

Data: an instruction is BARRIER, HALT or OP. The kernels are straight-line, as
executeOneWarp runs them: VBRANCH only masks lanes, and no instruction changes
the pc. A register word holds the number of the launch it was seeded for. An
event carries its slot as history (only its code travels), so that a double count
can be seen.

The host writes program and total_warps, raises `start`, and waits for `done` or
`fault`. When it lowers `start` is the constant `HOST_CLEARS`: `on_done`,
`on_busy` (what the header describes) or `any_time`. It keeps `start` low until
programLoader has seen it, which favours the device.

### Divergence

A mask is the set of active lanes; a branch is the set of lanes whose condition
holds. The device's stack is an array of `MAX_DIVERGENCE_DEPTH` entries, the
golden one an unbounded sequence. Both run the same VBRANCH, VJOIN and
dispatches; a dispatch, also the one that resumes after a barrier, calls
`initializeWarp()` on both. `open` records, as history, what each branch not yet
joined has masked.

### MemPath

`executeMemOp` sends a request per active lane and blocks for its response;
`mem_arbiter` in turn moves at most one request and at most one response;
`memory_pipeline` reads, serves and answers one request. Each blocking write is
an action of its own, with the entry in the process's hand. The depths of the
two AXI streams between the kernels are parameters, because they depend on the
FPGA design and not on the source. A request carries its unit in a `cu_id_t`, which
has 3 bits: `CuId` wraps at `CU_ID_VALUES` (8 in the source), and the arbiter routes a
response by what is left.

### MemorySubsystem

`handleRequest()` is one step, as `memory_pipeline` serves one request at a time.
The n-th write writes the value n, so that "older" can be stated. The operators of
`CacheBank` take the tier, L1 or L2, with its ways and sets. The golden caches
are partial functions from words to values.

### CuCluster

The same processes as `GpgpuTop` around `barrierCoreN<2>`, with a
`clusterBarrierRelay` and a `clusterRegLoader` per cluster, and `programLoaderHier`,
which tells nobody when it is done. It is modelled as it is compiled:
`CLUSTER_SIZE` is a `constexpr`, so `#if CLUSTER_SIZE >= 2` is false and a
cluster has the compute_pipeline of its first unit only (`PIPELINES`); a `cu_id_t`
wraps (`CU_ID_VALUES`). Histories: `reported` and `counted` count events at both
ends of a relay, `sent` and `heard` signals.

### GoldenTop

A SystemC thread runs to its next `wait()` without interruption, so one pass of
the loop of `simulationProcess` is one step: it takes a warp from every unit's
queue, runs each to its next barrier or end (`executeWarp`) and releases a full
barrier. The queues are balanced when a launch deals its warps to them, and not after.
`Wake` is an activation by `kernel_launch_event_`; a
notification that finds the process in its loop is lost. A loop of the code that
carries its state from turn to turn (dealing warps, balancing, one pass over the
units, the resumed queue, the split) is a recursive function of the number of turns. `host` is the testbench:
`idle` launches when all GPUs are done, `any` at any time, `direct` runs a kernel
on a ComputeUnit of its own. `device` is what `SystemTopHLS` writes to its devices
for the same grid. A float is an integer it represents exactly. `started` and `ended`
are histories: the warps dispatched, and each ended warp with its registers. `KernelResults`
states what each library kernel computes. For `fpDivergentSaxpy` that is what its bit
trick selects, the threads whose number is 2^k - 1, and not the even ones its comment
names (`fp_divergent`). It also includes that the registers of waiting warps are words (`RegistersFit`), which depends on
the kernels and not on the scheduler.

### KernelBridge

One call from its checks to its return. An instruction is what it does to the
loop (compute, store, stop at a barrier, end), chosen freely within the watchdog's
budget, so every program and every data-dependent path is a behaviour. `cursor`
and `pass` are the locals of the two loops, the scalar one and the one by warps.
`cuda_ctx` is whose context lies at the one address all threads read it from.

### The host stack

`HostRuntime` extends `HostApi`, which extends `FpgaDriver` and `DriverLoader`; an
application calls any exported function of any layer in any order. A call is one
step, the whole of it, unless it polls the device: then `call` keeps its place and
the device (`DeviceTakesStart`, `DeviceEnds`, modelled from
`docs/architecture/axi_interface.md` and marked external) moves between polls. Deadlines
may pass at any poll. The aperture is a row of cells that remember which image
wrote them. A `size_t` has `SIZE_VALUES` values: rounding a size up (`Aligned`), the bump
pointers (`Bumped`) and the check for room wrap there. A simulated buffer is a vector the
host allocates (`Assigned`), which throws above `HOST_MEMORY` bytes, after the bump
pointer has moved.

Histories of the shared PTX registry: `app_ptx` is every source the application has
registered and not unregistered, `exposed` the names of those registered while the
runtime claimed the name, `touched` that the application has registered, unregistered or
shut down over the runtime's own. Claiming is the runtime's view (`RuntimeHolds`): its
bundle is still loaded as the owner of the name, even after a shutdown has
emptied the registry.

### PtxTranspiler

A behaviour is a kernel, statement by statement: it is written as tokens, parsed,
checked, lowered, its code encoded and decoded and executed by `Rv32`, while a PTX
machine executes the statement itself. The properties compare the two machines.
Words have `XLEN` bits and immediates `ILEN` of them, so that every limit of the
ranges 12 and 32 of the code has its counterpart. `setp` keeps its comparison, a
conversion both types; names of registers are model values.

## 3. What the runs show

Passing runs:

| run | instance | states | shows |
|---|---|---|---|
| `barrier` | 2 CUs of 2 slots, 1 and 3 warps, two barriers, fairness | 168,128 | `ArrivalsAccountedFor`, `NoWarpOvertakesBarrier`, `OneWarpInFlight`, `DoneMeansFinished`, `EventWriteNeverBlocks`; the device implements `KernelBarrier`; `LaunchCompletes`, `SchedulersReturnToIdle` |
| `any_host` | 2 CUs of 1 slot, 0 to 3 warps (one too many), a program longer than the store, seed stream shorter than a slot, `start` cleared at any time | 387,854 | the inductive invariant `IInv`, `SeedsPrecedeDispatch`, `FaultedLaunchRunsNothing` |
| `divergence` | 3 lanes, stack of 2, nesting 3 | 111,746 | `LaneInOnePlace`, `MaskParity`, `FullyReconverged` |
| `memory_order` | 2 CUs, 3 lines on 2 ways in both tiers, a host write | 439,213 | `CachesInv` (no line twice), `NeverOlder`, `ReadbackParity` |
| `mem_path` | 4 CUs, 2 lanes, links of one entry | 78,792 | `AnswersItsRequest`, `NeverWedged`, `EveryRequestAnswered` |
| `cluster` | two clusters of 2 units with 3 ids, 1 and 3 warps, one barrier, fairness | 166,609 | `RelayInv` (events conserved, signals in step), `LaunchCompletes` of kernels whose warps all have a pipeline, `SchedulersReturn` |
| `golden` | 1 and 2 GPUs of 2 units, 3 threads per warp, grids of 1 to 4, the library kernels, two launches, fairness | 88,826 | `SchedulerInv` (each warp once, queues balanced), `BarrierInv`, `SplitInv` (the grid is tiled, and split as `SystemTopHLS` splits it), `KernelResults`, `EveryLaunchEnds` |
| `bridge` | up to 4 running threads in 1 or 2 blocks, warps of 1 and 2, two barrier ids, watchdog of 2 | 219,292 | `WorkersInv` (barriers per block, a reported deadlock is one), `ThreadIdentity`, `ResultsAllOrNothing`, `CallReturns` |
| `host` | both builds, an aperture of 8 cells with 3 of heap, 2 kernels, ELF and PTX bundles, refused files | 1,544,548 | `DeviceMemoryInv`, `LaunchInv`, `PtxRegistryInv` (PTX bundles run as PTX; under names they do not share, runtime and application keep their sources), `SynchronizeWaits` |
| `ptx` | kernels of 4 statements from every form the emitter lowers, words of 6 bits, immediates of 5 | 31,494 | `FrontEndInv` (parses what is written, one register each), `ComputesThePtx`, `SameEffects` (stores, branches, barriers) |

Runs that refute what the code says of itself (`findings` quotes the lines):

| run | refuted | how |
|---|---|---|
| `fault_then_launch` | all seeds are in the stream before the first dispatch | the tokens of a rejected launch let the next one start early |
| `ptx_accumulate` | mad.lo goes through a temporary | the destination is the temporary; an addend in it is lost |

More configurations reproduce, one property each, where the code and its comments
or documents disagree. TLC finds each of them violated; `tlc -config <cfg> <module>`
prints the behaviour.

| configuration, module | property | what the repository says | what happens |
|---|---|---|---|
| `clear_on_busy`, `MCGpgpuTop` | `LaunchCompletes` | the host clears `start` once `busy` is set (`gpgpu_top.h:74-76`) | programLoader starts over, a CU never gets its token, the launch hangs |
| `second_launch`, `MCGpgpuTop` | `CountersFreshOnStart` | the counters are fresh on each start (`interfaces.md:1256`) | barrierCore has launched the finished kernel again on the level still high |
| `nested_branch`, `Divergence` | `MaskedUntilJoin` | a lane is masked until its VJOIN (`kernel_programs.h:15`) | the join of a branch that masked nothing pops the outer entry |
| `stale_l1`, `MemorySubsystem` | `DataParity` | data parity with the golden model (`memory_pipeline.h:20-23`) | another CU's store does not reach a CU's L1 |
| `cluster_warps`, `MCCuCluster` | `OneSlotPerWarp` | the base id gives "correct global warp assignments" (`cu_cluster.h:127-129`) | with 16 units the second base wraps to 0; a warp runs twice |
| `reduction`, `MCGoldenTop` | `ReductionSymmetric` | warp 1's results are those of warp 0, "same formula" (`kernel_programs.h:140`) | warp 0 stores its results at r2+8, over the words warp 1 has yet to load |
| `watchdog`, `MCKernelBridge` | `TrueMeansFinished` | "Returns true on success" (`kernel_bridge.h:48`) | a thread stopped by the watchdog counts as halted |
| `back_to_back`, `MCHost` | `SynchronizeWaits` | "espera a que el hardware termine" (`stack_overview.md:83`) | of two launches without a synchronize the first satisfies both waits |
| `fp_divergent`, `MCGoldenTop` | `DivergentSaxpyEvenOdd` | "Even threads compute FP SAXPY; odd threads are masked" (`kernel_programs.h:237`) | the threads 2^k - 1 compute: 0 and 1, not 2 (`docs/hls/interfaces.md:694` has noticed it) |
| `mem_ids`, `MemPath` | `EveryRequestAnswered` | "Every request (load or store) gets exactly one response back" (`compute_pipeline.cpp:152`) | with more units than ids (3 on 2 here; 9 to 12 on 8 in the source) a response goes to the unit of the wrapped id, and the one that asked waits for ever |
| `malloc_wrap`, `MCHost` | `RunningCodeIntact` | buffers lie above the heap's start "so kernel code is never overwritten by gpgpuMalloc()" (`fpga_driver.cpp:22-24`) | a size near the greatest `size_t` moves the bump pointer back below the heap; the next buffer lies on the code that runs, and a copy into it overwrites that |
| `shared_name`, `MCHost` | `AppPtxKept` | a name with "another owner" is refused (`host_runtime.cpp:85`) | a source the application registers under a name the runtime still claims, also after unregistering it or shutting down, is erased by the next unload or upload |

Two more need only a value changed. `stale_l1` with `NUM_CUS = 1` and
`MAX_HOST_WRITES = 1` refutes `DataParity` by a host write: the golden writeBytes, which drops
the cached words, has "the same contract as AXI4 DMA bursts on the FPGA"
(`memory_hierarchy.cpp:173`), and the device's caches are never invalidated.
`ptx_accumulate` with `Statements <- MCFloatMove` refutes `EmittedIsDecoded`: the decoder
supports the F extension (`riscv_isa.h:6`), and mov.f32 is an fsgnj.s, which it does not
decode.

Each property of a passing run has a mutant: a definition of the model changed as
a plausible mistake in the code would change it, under which the same run fails.
The mutated forms stand beside the definitions they change, with a comment.

### Why the bounds are enough

- Two CUs make every race between CUs possible (a fast CU at the next barrier
  while a slow one has not consumed the release); two slots per CU make a CU with
  several events in flight; two barriers make a wave that follows a wave. `barrier`
  has both; the run with one slot per CU explores the wider host.
- `SEED_WORDS > SEED_DEPTH` makes the loader block inside a slot; Capacity + 1
  makes a launch that is rejected; the long program is cut at the store's end.
- A stack of 2 is full and overflows at nesting 3, and the 3 lanes can then be in
  three different places; the properties are about a stack that has not
  overflowed, since an overflow drops the masked lanes (`divergence_stack.h:159`)
  and nothing reads `overflowed()`. `MAX_NESTING` also bounds the golden stack, which no
  dispatch clears.
- 3 lines on 2 ways force evictions in both tiers; with two CUs an L1 line
  outlives its L2 copy.
- 4 CUs on links of one entry are as many requests as the loop between arbiter and
  memory_pipeline has places (1 + 1 + 2 in hand), so it can be filled. Their ids are
  those of 8 units and do not wrap; in `mem_ids` one of 3 does.
- Two clusters are what the code has; two units in each make a unit with and one
  without a pipeline. Three ids for four units are the 8 ids of 13 units: the
  last units wrap into the first cluster. (Two ids are the 8 of 16.) There is one
  launch, because a second one meets kernel_done signals and dispatches that units
  without a pipeline never took; deadlock is not checked because of the loaders that
  block there for ever.
- Two GPUs with grids of 1 to 4 are an empty, an uneven and an even share; two
  launches make one that overtakes a running kernel. 3 threads per warp make odd
  and even ones and one on its own. `golden` does not check deadlock: all processes
  wait once the testbench has no launches left.
- Three threads in warps of two make a full and a partial warp; two blocks make
  barriers that must not mix; the watchdog at 2 lets a thread stop at a barrier and go on.
- An aperture of 8 cells holds an image and at most one and a half aligned buffers,
  so that allocation fails, rewinds and meets the end. Of 64 sizes the ordinary ones
  of `host` do not wrap, and one exceeds `HOST_MEMORY`; in `malloc_wrap` 60
  moves the bump pointer back by 4. `WAITS = TRUE` is a host that
  synchronizes (or resets) before it launches again; `back_to_back` drops it.
- Pools of 4 integer and 2 float registers overflow within four statements;
  immediates at both limits and one beyond; two argument lists and two header
  widths. Every statement reads registers that earlier ones wrote.
- The proofs below do not depend on any of these bounds.

### Fairness

`barrier` and `cluster` assume weak fairness of barrierCore, the loaders, relays,
every schedulerCore and every compute_pipeline, `mem_path` of every executeMemOp,
the arbiter and memory_pipeline: each is a hardware process that is never switched
off and whose loop body is finite between two stream accesses, so a step that
stays possible is taken. The host's clearing of `start` is fair in both
(its driver does it once it has seen `done`). `golden` assumes that the SystemC
kernel resumes a process whose event was notified, and that a started device ends;
the first is weak fairness written out, with enabledness replaced by the condition
under which a process is runnable. `bridge` is a single-threaded call: weak fairness of its next
step. No fairness is assumed of a host's decision to launch or of a program's
decision to use memory, and no strong fairness is needed: a process that waits for
a stream is not disabled again by another, because each stream has one reader and
one writer.

## 4. What is proved

All proofs hold for every value of the constants that satisfies the named
assumptions of the modules (positive sizes and depths).

**GpgpuTop.** `TypeCorrect` (`Spec => []TypeOK`) holds for any host and any number
of launches. The other theorems assume one launch out of reset
(`MAX_LAUNCHES = 1`; `second_launch` and `fault_then_launch` show why: a
second launch meets a barrierCore that has launched again by itself, unread tokens
and a `done` that is never cleared) and `NUM_CUS <= CU_ID_VALUES`: a `cu_id_t` has
3 bits (`hls_types.h:42`), so on the flat path's 9 to 12 CUs two of them would
take the same warps. `Invariant` proves `IInv`; from it follow `ArrivalsProof`, `BarrierProof`,
`InFlightProof`, `DoneProof`, `FaultProof`, and, for
`EVENTS_DEPTH >= MAX_WARPS_PER_CU` as in the source, `EventWriteProof`.

None of these is inductive by itself. That no warp overtakes a barrier needs that
all warps released last resume at one pc and all waiting ones stopped at the first
BARRIER after it (`WavesAgree`); that needs that a status in flight belongs to a
READY slot and agrees with the program (`PipelinesAgree`), which needs that the
program is in the store before a CU launches (`LoaderProgress`, `ShareOfKernel`)
and that a slot in flight is not released (`SignalsAgree`: a release finds all
warps of its CU stalled, and is the only one on its way); and that follows from
the exact count (`CountersAgree`, `EventsAgree`) with barrierCore's phase
(`BarrierPhase`). "Waiting" is defined so that a release takes effect when
barrierCore decides it, not when the CUs learn of it: that is what makes the
broadcast one step, for the invariant and for the mapping to `KernelBarrier`.
`GpgpuTopProofs` starts with the facts about types, slots, streams and cardinalities;
then there is one lemma per action.

`SeedsProof` needs `SeedInv`: the words the loader has passed are seeded or in their
stream, every seed in a stream is of this launch, and the loader is past a CU only
when it has sent its token; a CU has a warp to run only after its token. `RefinementProof`
(`Spec => ImplementsKernelBarrier`) shows that `KernelBarrier` sees five kinds of
steps, the host's start, the two outcomes of a status a scheduler records (barrier,
finished) and barrierCore's decisions to release and to complete, and that all
other steps leave its variables alone.

**Divergence.** `DivergenceInvariant` proves `DivergenceInv`, and from it
`LaneInOnePlaceProof`, `MaskParityProof` and `FullyReconvergedProof`, for every
set of lanes and depth. The key to mask parity is `StackParity`: the device's
entries are the top of the golden stack, and what lies below was left by earlier
dispatches and is harmless, because a join that reaches it finds all lanes
active. `NoMorePushedThanOpen` gives reconvergence.

**MemPath.** `PathInvariant` and `NeverWedgedProof`: the arbiter, blocked on a full
request link, and memory_pipeline, blocked on a full response link, never meet,
for every number of CUs, with wrapped ids too, and all link depths. The argument counts the entries
between the arbiter's request write and its response read: except just after a
request was written there is a free place (`RoomInLoop`), because the arbiter
takes a response, or finds none, after every request.

`AnswersProof` proves the routing, for `NUM_CUS <= CU_ID_VALUES` (`mem_ids` shows that it
fails beyond). Its invariant `RouteInv` follows the one entry
of a waiting CU through the streams and the hands of arbiter and memory_pipeline:
for every CU there is at most one place that holds an entry of it, exactly one
while it waits, and that entry is of its current lane. Cardinalities are avoided
until the end, where the set of places turns out to be empty or a singleton.

**MemorySubsystem.** `CachesProof`, `NeverOlderProof` and `ReadbackParityProof`, for
any number of CUs, ways, sets and lines. `NoLineTwice` is inductive together with
the types, from the lemmas about a tier (what a hit, a fill and an eviction
leave) at the head of the module, proved once for L1 and L2. `NeverOlder` is not: it needs `OrderInv`, that what a CU has seen is at most
its L1 copy, that an L1 copy is at most the L2 copy where there is one, and an L2
copy at most the word of global memory, none of them newer than the last write.
A line that only L1 still holds is the reason why L1 is compared with global
memory too. `ReadbackParity` needs `ParityInv`, that a golden cache holds what the
golden memory holds.

**CuCluster.** `RelayProof` for any cluster size, any set of members with a
pipeline, any programs and stream depths and any number of launches. The events of
a cluster are counted as the cardinality of the set of their places (scheduler,
position); moving an event from one stream to another is a bijection of such sets
but one. `SignalsInStep` becomes inductive with `heard <= Len(sent)` (`Underway`):
without it a scheduler could have heard more than was sent, and its subsequence
would be empty for the wrong reason.

**Host stack.** `LaunchProof` and `PtxRegistryProof` hold for every
application; `SynchronizeProof` and `DeviceMemoryProof` assume `WAITS`, because
without it the properties are false (`back_to_back`). `BuffersProof` and
`DeviceMemoryProof` assume `NoWrap`, that no size asked for is so near the greatest `size_t`
that it wraps when rounded up or added to an address (`malloc_wrap`). `PtxRegistryProof`
speaks of the sources under names that only application or runtime uses at a time (`shared_name`). The strengthenings also speak
of calls in progress: `LaunchIInv` that the
driver's state is never left CONFIGURED between two polls either, `RegistryIInv`
that the name of a loaded PTX bundle stays required, so that no launch of it takes
the path of a kernel without PTX, and that the runtime owns no name the application
had registered before, `SyncIInv` what has become of a run asked for (a START the device has
not taken is of a call in progress; a run that waits without one was ignored by a
device in ERROR; nothing is pending when the host has nothing outstanding),
`BufferIInv` that the bump pointers are above every live buffer (`Table`), which
needs that an aligned size covers the size (`AlignedCovers`) and that an address moved by
it does not wrap (`BumpedCovers`).

`DeviceMemoryProof` is an induction over the segments of an ELF file besides the one
over steps. `LoadElf` is a recursive function of the number of segments visited:
`LoadElfLoop` shows that this function exists (by the least number of segments for
which it would not) and `LoadElfFacts` that after `k` segments the file part of
each of the first `k` is in place (`InPlace`), because a segment's file and zero
parts miss those of every other (`CellsApart`, from `WellFormed`). `CodeIInv` carries
that through the calls: between a load and the end of its run only buffers are
written, which lie in the heap, while the file parts of an image that loads lie below
it (`BelowHeap`). `MemoryIInv` adds the types of the aperture and of what is staged.

**KernelBridge.** `WorkersProof`, `ThreadIdentityProof` and `ResultsProof`, for every
grid, block, warp size, number of units, watchdog and program. The invariant
`CallInv` adds to the properties that a thread that has ended is retired at once and
never waits (`Crew`), that a barrier that is full has been released (`Unfilled`), and
what a pass without progress has seen so far (`PassInv`). The count of arrivals that
the loops compare with the size of a block is full exactly when the whole block is
there (`FullBarrier`): the threads of a block are an interval of that many ids
(`ThreadsOfBlock`). A pass without progress ends only after every thread: the scalar
loop because positions modulo the number of workers come round (`RoundTrip`), the
warp loop because warps cover the threads (`WarpsCover`), each in one block
(`WarpsInBlocks`), so that one release per turn is enough. The runtime's contexts
are compared by arithmetic, for launches without a zero dimension.

**GoldenTop.** `SchedulerProof`, `BarrierProof` and `SplitProof`, for any number of compute
units and GPUs, any grids, any number of launches, every kernel of `Program`, and every
host: one that waits for its GPUs, one that launches at any time, and the direct one. A
step of the model is a whole pass of `simulationProcess()`, so most of the proof is about
what its loops do. `LoopExists` shows that the recursive function of a loop exists, from the
type of its state, and each loop then has an invariant of its own: of dealing warps, of a round of
balancing, of the units dispatched so far (`PassAt`), of the queue resumed so far.

`SchedulerInv` needs `Placed`: every warp handed out is in one ready queue, in
`barrier_queue` or has ended, in one of them only (`Apart`), and what was started is what
is no longer queued. It holds under overlapping launches too, where warps of two launches
are mixed. `Level` is the delicate part: dealing starts at unit 0 whatever the queues hold,
so after it they may differ by two, and they are level again only because
`balanceLoadAcrossUnits()` runs until nothing moves. That the model's bound on its rounds
suffices follows from the set of units above the lower of two levels (`High`), which each
round that moves a warp makes smaller by one.

`BarrierInv` needs, for a host that waits, `OneLaunch`: all warps in the queues, at the
barrier or ended since the launch are of it (`Current`), the tables name those that wait
(`TablesMatch`), and the launch moves as a wave (`Wave`): on its way to the first barrier,
all its warps at one barrier with nothing queued, or over. Without the last a released warp
might end while another still waits; with it a release finds all of them at one pc of one
straight-line program (`Stop`), so that all stop again or all end.

`SplitInv` needs `Tiled`: for a launch before which all were even, the warps of it that have
ended on GPU `i` are those ended warps whose ids are in an interval, its share after the warps of
the earlier launches, and their global ids lie its offset higher; once the GPU is idle, `Placed`
says that the whole interval has ended. That the shares add up to the grid and that both
SystemTops compute the same offsets is arithmetic on the two loops (`WarpOffset`,
`HlsLaunch`); the global ids of the GPUs' shares, disjoint intervals, are put in bijection
with one interval (`FillsGrid`).

Only model-checked: every liveness property (fairness is beyond the prover); `KernelResults`
of `GoldenTop`, which is the execution of each library kernel on data, true only of thread
numbers whose results fit a word; and the three properties of
`PtxTranspiler`, which computes with bit operations (`Bitwise`) that are recursive
and beyond the prover.

Assumptions on constants are positive sizes and depths, that a program is a
sequence of instructions that fits the store, that the golden testbench launches kernels of
the library on at least one GPU of at least one unit (`GoldenAssumption`), that requested sizes are below `SIZE_VALUES` and the dimensions of a launch natural numbers
(`size_t` and `uint32_t` in the code), that addresses of the aperture and of the host's
memory are below `SIZE_VALUES` and the range of simulated addresses is not empty,
that there is a barrier id, and, for `DeviceMemoryProof`, that a kernel file is what a
linker writes (`ImagesAssumption`: the loadable segments do not overlap, none is larger in
the file than in memory, and those of a file that fits the aperture end below the heap,
as the comment at `fpga_driver.cpp:24` has it) and that a manifest names one of the
kernels or none (`HostRuntimeAssumption`).

## 5. What is not modelled

- The memory requests of the hierarchical path (`superMemArbiter`, `mem_arbiter_n`)
  and the contents of its seeds; the flat memory path is `MemPath`.
- The per-CU and per-block shared memory of the device and of the golden model
  (private arrays behind no cache), statistics, timing and hit counters.
- `rv32i_codec.h` of the device and `expandRVC`: bit fields without state. `Rv32`
  decodes by opcode, funct3 and funct7 for the instructions the transpiler emits.
- The tokenizer, headers, declarations and labels of the PTX parser, the call of
  clang, the ELF and manifest file formats (an image is its list of segments; a
  malformed file is one outcome), the LLVM backend, benchmarks and scripts.
- Synthesis pragmas; the pipelining of a loop is taken to preserve its sequential
  meaning.

The statements of the `ptx` run are those the emitter has a case for. It accepts
others and emits code that does not do what PTX says; they are left out, as every
property would fail on them:

- `setp.gt` and `setp.le` without sign against the greatest word (-1): the code
  compares with the immediate plus one, which wraps to 0 (`rv_emitter.cpp:580`);
- `neg`, `abs` and `sqrt` of floats with their two operands, unknown special
  registers (`laneid`, `warpid`), and a float `setp` with an unknown comparison:
  nothing, or the wrong instruction, is emitted;
- an immediate as the first source, in `mad`, `div` or `rem`, or a float immediate:
  read as `x0`;
- `cvt` between f32 and u32 (the bits are moved) and narrow conversions;
- shifts by a register of 32 and more, multiplication by an immediate 2^31
  (a C++ shift beyond its width);
- two `.shared` arrays, which get the same address; `mov.f32` (`EmittedIsDecoded`).

## 6. Plan

1. Done: scheduler core (`GpgpuTop` and its proofs), `Divergence`, `MemPath`,
   `MemorySubsystem`, `CuCluster`, the golden model, bridge, host stack and
   transpiler.
2. Proofs: done for the barrier with its refinement, seeds, divergence, memory path,
   caches, relays, golden model, bridge and host stack. Open: the results of the library
   kernels and the transpiler, whose properties are about data.
3. Models: the two-level memory routing of the clusters with wrapped ids; the
   declarations of a PTX kernel.
