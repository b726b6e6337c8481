---------------------------- MODULE KernelBridge ----------------------------
(***************************************************************************)
(* One call of KernelBridge::runOnHardware(): a kernel of the driver is    *)
(* executed, one ComputeUnit in binary mode per thread, by a loop that     *)
(* interleaves the threads and keeps the barriers of each block.           *)
(*                                                                         *)
(* The loop is single-threaded; what it cannot choose is the program.  An  *)
(* instruction is what it does to the loop: it computes, stores to a       *)
(* device buffer, stops at a barrier or ends the thread; which one comes   *)
(* next is up to the thread's data.  MAX_SIM_CYCLES, the watchdog of the   *)
(* code, bounds every thread.                                              *)
(***************************************************************************)
EXTENDS Integers, FiniteSets, FiniteSetsExt

CONSTANTS
    NUM_COMPUTE_UNITS,  \* Config::num_compute_units
    MAX_SIM_CYCLES,     \* Config::max_sim_cycles
    SHARED_MEM_SIZE,    \* Config::shared_mem_size
    WarpSizes,          \* the values of Config::threads_per_warp
    Launches,           \* the calls, see Launch
    BarrierIds,         \* the ids a bar.sync may carry
    Ptrs,               \* device addresses a caller may pass
    KnownPtrs           \* those the driver has a buffer for

ASSUME KernelBridgeAssumption ==
    /\ NUM_COMPUTE_UNITS \in Nat
    /\ MAX_SIM_CYCLES \in Nat \ {0}   \* 0 switches the watchdog off
    /\ SHARED_MEM_SIZE \in Nat /\ WarpSizes \subseteq Nat
    /\ KnownPtrs \subseteq Ptrs /\ BarrierIds # {}
    /\ \A l \in Launches : \A d \in 1 .. 3 : l.grid[d] \in Nat /\ l.block[d] \in Nat

VARIABLES
    launch,     \* the arguments of the call and the launch the driver holds
    tpw,        \* cfg_.threads_per_warp
    phase,      \* "call", "run" or "returned"
    result,     \* "none", "ok" or the error returned
    geo,        \* the locals that hold the launch geometry, see Geometry
    workers,    \* global thread id -> Worker
    cursor,     \* worker_cursor (scalar loop) or index of the warp (warp loop)
    pass,       \* the locals of a pass over the workers
    mem,        \* MemoryHierarchy: contents of the mapped buffers
    buffers,    \* the driver's device buffers
    cuda_ctx    \* thread whose context is at __gpgpu_thread_context

vars == <<launch, tpw, phase, result, geo, workers, cursor, pass, mem, buffers, cuda_ctx>>

NoThread == -1
Clean == "before"
Dirty == "written"
NoPass == [scanned |-> 0, selected |-> 0, any_active |-> FALSE, made_progress |-> FALSE]
-----------------------------------------------------------------------------
(***************************************************************************)
(* Launch geometry.  A launch of another kernel's name is ignored.         *)
(***************************************************************************)
AtLeast1(n) == IF n < 1 THEN 1 ELSE n

Grid == IF launch.matches THEN launch.grid ELSE <<1, 1, 1>>
Block == IF launch.matches THEN launch.block ELSE <<1, 1, 1>>
SharedBytes == IF launch.matches THEN launch.shared_mem_bytes ELSE SHARED_MEM_SIZE

TotalBlocks == AtLeast1(Grid[1] * AtLeast1(Grid[2]) * AtLeast1(Grid[3]))
ThreadsPerBlock == AtLeast1(Block[1] * AtLeast1(Block[2]) * AtLeast1(Block[3]))
Threads == 0 .. TotalBlocks * ThreadsPerBlock - 1

\* Index i of a box of size d, x fastest.
Unlinear(i, d) == LET x == AtLeast1(d[1]) y == AtLeast1(d[2])
                  IN  <<i % x, (i \div x) % y, i \div (x * y)>>

BlockOf(g) == g \div ThreadsPerBlock

\* The context makeWorker() writes for thread g.
ThreadCtx(g) ==
    [tid |-> Unlinear(g % ThreadsPerBlock, Block), ctaid |-> Unlinear(BlockOf(g), Grid),
     ntid |-> [d \in 1 .. 3 |-> AtLeast1(Block[d])]]

\* computeThreadContexts() of the runtime, for the same launch.
ComputeThreadContexts(grid, block) ==
    LET g == [d \in 1 .. 3 |-> AtLeast1(grid[d])]
        b == [d \in 1 .. 3 |-> AtLeast1(block[d])]
        block_size == b[1] * b[2] * b[3]
        total_threads == g[1] * g[2] * g[3] * block_size
    IN  [t \in 0 .. total_threads - 1 |->
            LET blk_id == t \div block_size
                thd_id == t % block_size
            IN  [tid |-> <<thd_id % b[1], (thd_id \div b[1]) % b[2], thd_id \div (b[1] * b[2])>>,
                 ctaid |-> <<blk_id % g[1], (blk_id \div g[1]) % g[2],
                             blk_id \div (g[1] * g[2])>>,
                 ntid |-> b]]

\* 1 selects the scalar loop.
WarpSize == IF tpw > 1 /\ ThreadsPerBlock > 1 THEN Min({tpw, ThreadsPerBlock}) ELSE 1
WarpsPerBlock == (ThreadsPerBlock + WarpSize - 1) \div WarpSize
TotalWarps == TotalBlocks * WarpsPerBlock

\* makeWarpGroup(): the threads of warp i, the last one of a block cut short.
WarpThreads(i) ==
    LET base == (i % WarpsPerBlock) * WarpSize
    IN  {(i \div WarpsPerBlock) * ThreadsPerBlock + t :
            t \in base .. Min({base + WarpSize, ThreadsPerBlock}) - 1}

ActiveUnits == AtLeast1(Min({NUM_COMPUTE_UNITS, Cardinality(Threads)}))

Geometry == [threads_per_block |-> ThreadsPerBlock, warp_size |-> WarpSize,
             active_units |-> ActiveUnits,
             warp_groups |-> [i \in 0 .. TotalWarps - 1 |-> WarpThreads(i)]]
-----------------------------------------------------------------------------
(***************************************************************************)
(* ComputeUnit in binary mode.                                             *)
(***************************************************************************)
Worker == [block: Nat, active: BOOLEAN, halted: BOOLEAN, blocked: BOOLEAN,
           barrier: BarrierIds, cycles: 0 .. MAX_SIM_CYCLES,
           passed: Nat,              \* history: barriers left behind
           timed_out: BOOLEAN,       \* history: stopped by the watchdog
           saw: Int]                 \* history: whose context it last ran with

\* setEntryPoint(), setInitialRegisters(), setBlockID(), launchKernel().
MakeWorker(g) ==
    [block |-> BlockOf(g), active |-> TRUE, halted |-> FALSE, blocked |-> FALSE,
     barrier |-> CHOOSE b \in BarrierIds : TRUE, cycles |-> 0,
     passed |-> 0, timed_out |-> FALSE, saw |-> g]

\* executeRV32() and BAR_SYNC by their effect on the loop: op is "compute"
\* (arithmetic, loads, jumps and stores elsewhere), "store" to buffer x,
\* "bar" with id x, or "halt" (ecall, ebreak, return to the sentinel).
Instruction ==
    {[op |-> "compute", x |-> "none"], [op |-> "halt", x |-> "none"]}
        \cup {[op |-> "bar", x |-> b] : b \in BarrierIds}
        \cup {[op |-> "store", x |-> p] : p \in launch.device_ptrs}

Watchdog(w) == MAX_SIM_CYCLES > 0 /\ w.cycles >= MAX_SIM_CYCLES

\* Fault: only barriers and exits are charged to the watchdog.
StepUncounted(w, instr) ==
    IF w.halted \/ w.blocked THEN w
    ELSE IF Watchdog(w) THEN [w EXCEPT !.halted = TRUE, !.timed_out = TRUE]
    ELSE CASE instr.op = "bar" -> [w EXCEPT !.blocked = TRUE, !.barrier = instr.x, !.cycles = @ + 1]
           [] instr.op = "halt" -> [w EXCEPT !.halted = TRUE, !.cycles = @ + 1]
           [] OTHER -> w

Step(w, instr) ==
    IF w.halted \/ w.blocked THEN w
    ELSE IF Watchdog(w) THEN [w EXCEPT !.halted = TRUE, !.timed_out = TRUE]
    ELSE CASE instr.op = "bar" -> [w EXCEPT !.blocked = TRUE, !.barrier = instr.x, !.cycles = @ + 1]
           [] instr.op = "halt" -> [w EXCEPT !.halted = TRUE, !.cycles = @ + 1]
           [] OTHER -> [w EXCEPT !.cycles = @ + 1]

\* The buffers after thread w executed instr.
Stored(m, w, instr) ==
    IF instr.op = "store" /\ ~w.halted /\ ~w.blocked /\ ~Watchdog(w)
      THEN [m EXCEPT ![instr.x] = Dirty] ELSE m
-----------------------------------------------------------------------------
(***************************************************************************)
(* Barriers: thread g has stopped; once all threads of its block wait at   *)
(* the same barrier they are released.                                     *)
(***************************************************************************)
AtBarrier(ws, g) ==
    {o \in DOMAIN ws : /\ ws[o].active /\ ws[o].block = ws[g].block
                       /\ ws[o].blocked /\ ws[o].barrier = ws[g].barrier}

\* Fault: threads that have ended are not waited for.
BarrierFullOfActive(ws, g) ==
    Cardinality(AtBarrier(ws, g)) =
        Cardinality({o \in DOMAIN ws : ws[o].active /\ ws[o].block = ws[g].block /\ ~ws[o].halted})

BarrierFull(ws, g) == Cardinality(AtBarrier(ws, g)) = geo.threads_per_block

\* releaseBarrier() on the block of thread g, if its barrier is full.
ReleaseBarrier(ws, g) ==
    IF ws[g].blocked /\ BarrierFull(ws, g)
      THEN LET freed == AtBarrier(ws, g)
           IN  [o \in DOMAIN ws |-> IF o \in freed
                   THEN [ws[o] EXCEPT !.blocked = FALSE, !.passed = @ + 1] ELSE ws[o]]
      ELSE ws

\* A thread that is complete leaves the loop.
Retire(ws, G) ==
    [o \in DOMAIN ws |-> IF o \in G /\ ws[o].halted
                           THEN [ws[o] EXCEPT !.active = FALSE] ELSE ws[o]]
-----------------------------------------------------------------------------
(***************************************************************************)
(* runOnHardware()                                                         *)
(***************************************************************************)
Init ==
    /\ launch \in Launches /\ tpw \in WarpSizes
    /\ phase = "call" /\ result = "none"
    /\ geo = << >> /\ workers = << >> /\ cursor = 0 /\ pass = NoPass
    /\ mem = << >> /\ buffers = [p \in KnownPtrs |-> Clean]
    /\ cuda_ctx = NoThread

Return(r) == phase' = "returned" /\ result' = r

\* The checks before the first instruction, in their order.
Refusal ==
    IF ~launch.elf_loads THEN "elf"
    ELSE IF ~(launch.device_ptrs \subseteq KnownPtrs) THEN "buffer"
    ELSE IF launch.num_args > 8 THEN "args"
    ELSE IF launch.wide_arg THEN "wide_arg"
    ELSE IF SharedBytes > SHARED_MEM_SIZE THEN "shared"
    ELSE "none"

Refuse ==
    /\ phase = "call" /\ Refusal # "none"
    /\ Return(Refusal)
    /\ UNCHANGED <<launch, tpw, geo, workers, cursor, pass, mem, buffers, cuda_ctx>>

\* Buffers are mapped into the simulated memory, the workers made.
Prepare ==
    /\ phase = "call" /\ Refusal = "none"
    /\ mem' = [p \in launch.device_ptrs |-> buffers[p]]
    /\ geo' = Geometry
    /\ workers' = [g \in Threads |-> MakeWorker(g)]
    /\ phase' = "run"
    /\ UNCHANGED <<launch, tpw, result, cursor, pass, buffers, cuda_ctx>>

\* Fault: the threads share the context written last.
InstallCtxOnce(g) == IF cuda_ctx = NoThread THEN g ELSE cuda_ctx

\* The context of thread g is copied to the symbol all threads read.
InstallCtx(g) == g

\* Execution is over: results go back to the driver.
Finish ==
    /\ Return("ok")
    /\ buffers' = [p \in KnownPtrs |-> IF p \in launch.device_ptrs THEN mem[p] ELSE buffers[p]]
    /\ UNCHANGED <<launch, tpw, geo, workers, cursor, pass, mem, cuda_ctx>>

\* Fault: results go back although the kernel is stuck.
FailDeadlockWritesBack ==
    /\ Return("deadlock")
    /\ buffers' = [p \in KnownPtrs |-> IF p \in launch.device_ptrs THEN mem[p] ELSE buffers[p]]
    /\ UNCHANGED <<launch, tpw, geo, workers, cursor, pass, mem, cuda_ctx>>

FailDeadlock ==
    /\ Return("deadlock")
    /\ UNCHANGED <<launch, tpw, geo, workers, cursor, pass, mem, buffers, cuda_ctx>>

\* The tests at the end of a pass; the loop goes on at position next.
EndOfPass(next) ==
    \/ /\ ~pass.any_active
       /\ Finish
    \/ /\ pass.any_active /\ ~pass.made_progress
       /\ FailDeadlock
    \/ /\ pass.any_active /\ pass.made_progress
       /\ cursor' = next /\ pass' = NoPass
       /\ UNCHANGED <<launch, tpw, geo, phase, result, workers, mem, buffers, cuda_ctx>>
-----------------------------------------------------------------------------
(***************************************************************************)
(* The scalar loop: each pass steps at most ActiveUnits threads, starting  *)
(* at worker_cursor.                                                       *)
(***************************************************************************)
InScalarLoop == phase = "run" /\ geo.warp_size = 1
TotalWorkers == Cardinality(DOMAIN workers)
Scanned == (cursor + pass.scanned) % TotalWorkers
PassOpen == pass.scanned < TotalWorkers /\ pass.selected < geo.active_units

Skip == [pass EXCEPT !.scanned = @ + 1, !.any_active = @ \/ workers[Scanned].active]

ScalarSkip ==
    /\ InScalarLoop /\ PassOpen
    /\ ~workers[Scanned].active \/ workers[Scanned].blocked
    /\ pass' = Skip
    /\ UNCHANGED <<launch, tpw, geo, phase, result, workers, cursor, mem, buffers, cuda_ctx>>

ScalarStep ==
    /\ InScalarLoop /\ PassOpen
    /\ workers[Scanned].active /\ ~workers[Scanned].blocked
    /\ pass' = [scanned |-> pass.scanned + 1, selected |-> pass.selected + 1,
                any_active |-> TRUE, made_progress |-> TRUE]
    /\ cuda_ctx' = InstallCtx(Scanned)
    /\ \E instr \in Instruction :
         \E w \in {[Step(workers[Scanned], instr) EXCEPT !.saw = cuda_ctx']} :
         \E stepped \in {[workers EXCEPT ![Scanned] = w]} :
           /\ workers' = Retire(ReleaseBarrier(stepped, Scanned), {Scanned})
           /\ mem' = Stored(mem, workers[Scanned], instr)
    /\ UNCHANGED <<launch, tpw, geo, phase, result, cursor, buffers>>

ScalarPassEnd ==
    /\ InScalarLoop /\ ~PassOpen
    /\ EndOfPass((cursor + geo.active_units) % TotalWorkers)
-----------------------------------------------------------------------------
(***************************************************************************)
(* The warp loop: each pass steps every warp, all its threads at once.     *)
(***************************************************************************)
InWarpLoop == phase = "run" /\ geo.warp_size > 1
Runnable(g) == workers[g].active /\ ~workers[g].halted /\ ~workers[g].blocked

\* A warp is active until all its threads are retired.
WarpTurn ==
    /\ InWarpLoop /\ pass.scanned \in DOMAIN geo.warp_groups
    /\ LET G == geo.warp_groups[pass.scanned]
           running == {g \in G : Runnable(g)}
       IN  \E instr \in [running -> Instruction] :
           \E stepped \in {[g \in DOMAIN workers |->
                                IF g \in running
                                  THEN [Step(workers[g], instr[g]) EXCEPT !.saw = InstallCtx(g)]
                                  ELSE workers[g]]} :
             LET full == {g \in G : stepped[g].active /\ stepped[g].blocked /\ BarrierFull(stepped, g)}
                 released == IF full = {} THEN stepped
                             ELSE ReleaseBarrier(stepped, CHOOSE g \in full : TRUE)
             IN  /\ workers' = Retire(released, G)
                 /\ mem' = [p \in DOMAIN mem |->
                              IF \E g \in running : Stored(mem, workers[g], instr[g])[p] = Dirty
                                THEN Dirty ELSE mem[p]]
                 /\ cuda_ctx' = IF running = {} THEN cuda_ctx ELSE InstallCtx(Max(running))
                 /\ pass' = [pass EXCEPT !.scanned = @ + 1,
                               !.any_active = @ \/ \E g \in G : workers[g].active,
                               !.made_progress = @ \/ running # {} \/ full # {}]
    /\ UNCHANGED <<launch, tpw, geo, phase, result, cursor, buffers>>

WarpPassEnd ==
    /\ InWarpLoop /\ pass.scanned \notin DOMAIN geo.warp_groups
    /\ EndOfPass(0)
-----------------------------------------------------------------------------
Next ==
    \/ Refuse \/ Prepare
    \/ ScalarSkip \/ ScalarStep \/ ScalarPassEnd
    \/ WarpTurn \/ WarpPassEnd

Spec == Init /\ [][Next]_vars /\ WF_vars(Next)
-----------------------------------------------------------------------------
TypeOK ==
    /\ phase \in {"call", "run", "returned"}
    /\ result \in {"none", "ok", "elf", "buffer", "args", "wide_arg", "shared", "deadlock"}
    /\ workers \in [DOMAIN workers -> Worker]
    /\ cursor \in Nat /\ cuda_ctx \in {NoThread} \cup DOMAIN workers
    /\ pass \in [scanned: Nat, selected: Nat, any_active: BOOLEAN, made_progress: BOOLEAN]
    /\ mem \in [DOMAIN mem -> {Clean, Dirty}]
    /\ buffers \in [KnownPtrs -> {Clean, Dirty}]

(***************************************************************************)
(* Barriers of a block: no thread has left more barriers behind than any   *)
(* other thread of its block, also when some of them have ended or were    *)
(* stopped by the watchdog (both loops count arrivals, lines 396 and 510). *)
(***************************************************************************)
BlockBarrier ==
    \A g, h \in DOMAIN workers :
        workers[g].block = workers[h].block => workers[g].passed = workers[h].passed

(***************************************************************************)
(* "Barrier deadlock" is only reported of a kernel that is stuck: every    *)
(* thread still there waits, and in its block some thread has ended or     *)
(* waits at another barrier.                                               *)
(***************************************************************************)
DeadlockIsReal ==
    result = "deadlock" =>
        /\ \E g \in DOMAIN workers : workers[g].active
        /\ \A g \in DOMAIN workers : workers[g].active =>
              /\ workers[g].blocked
              /\ \E h \in DOMAIN workers :
                    /\ workers[h].block = workers[g].block
                    /\ workers[h].halted \/ workers[h].barrier # workers[g].barrier

(***************************************************************************)
(* The driver's buffers change only when the whole kernel has run: a       *)
(* refused or deadlocked call leaves them as they were.                    *)
(***************************************************************************)
ResultsAllOrNothing ==
    result # "ok" => \A p \in KnownPtrs : buffers[p] = Clean

(***************************************************************************)
(* All threads read their indices from one variable of the kernel; a       *)
(* thread never runs an instruction with the context of another there.     *)
(***************************************************************************)
RunsWithOwnContext == \A g \in DOMAIN workers : workers[g].saw = g

(***************************************************************************)
(* The threads of the bridge are the threads computeThreadContexts()       *)
(* describes, one to one, with the same indices ("Linear thread numbering  *)
(* matches KernelBridge::makeWorker()", host_runtime.cpp:17), for launches *)
(* without a zero dimension.                                               *)
(***************************************************************************)
ThreadsMatchRuntime ==
    phase = "call" /\ (\A d \in 1 .. 3 : Grid[d] > 0 /\ Block[d] > 0) =>
        [g \in Threads |-> ThreadCtx(g)] = ComputeThreadContexts(Grid, Block)

(***************************************************************************)
(* The call returns, whatever the program does: an endless loop of one     *)
(* thread is ended by the watchdog, a stuck barrier is reported.           *)
(***************************************************************************)
CallReturns == <>(phase = "returned")

(***************************************************************************)
(* runOnHardware() "Returns true on success" (kernel_bridge.h:48): a call  *)
(* that returns true has run every thread to its end.                      *)
(***************************************************************************)
TrueMeansFinished ==
    result = "ok" => \A g \in DOMAIN workers : ~workers[g].timed_out

(***************************************************************************)
(* The workers of a call: barriers hold per block, and only a block that   *)
(* is really stuck is reported as deadlocked (kernel_bridge.cpp:396, :458, *)
(* :510, :580).                                                            *)
(***************************************************************************)
WorkersInv == TypeOK /\ BlockBarrier /\ DeadlockIsReal

(***************************************************************************)
(* A thread has the indices the runtime gives it, in every instruction it  *)
(* runs (kernel_bridge.cpp:387, host_runtime.cpp:21).                      *)
(***************************************************************************)
ThreadIdentity == RunsWithOwnContext /\ ThreadsMatchRuntime
=============================================================================
