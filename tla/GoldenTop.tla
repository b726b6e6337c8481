----------------------------- MODULE GoldenTop -----------------------------
(***************************************************************************)
(* The golden model's control: SystemTop splits a kernel over its GPUs,    *)
(* GPGPUTop runs each share with one SystemC thread (simulationProcess)    *)
(* over the queues of its WarpScheduler, and warps meet at barriers in     *)
(* barrier_queue.  SystemTopHLS, the host-side coordinator of the devices, *)
(* is launched with the same grids: its split must be SystemTop's.         *)
(*                                                                         *)
(* A SystemC thread runs to its next wait() without interruption: one pass *)
(* of the simulation loop, from wait(SC_ZERO_TIME) to the next, is one     *)
(* step.  A zero-time notification reaches a process that waits for it at  *)
(* its next activation and is lost on one that is inside the loop.         *)
(***************************************************************************)
EXTENDS GoldenIsa, FiniteSets

CONSTANTS
    GPU_COUNTS,     \* the values of num_gpus explored
    NUM_CUS,        \* num_compute_units
    GRIDS,          \* grid_x * grid_y of a launch
    KERNELS,        \* the TOP kernels each host launches, names of Program
    DIRECT_KERNELS, \* the kernels a testbench runs on a ComputeUnit of its own
    DIRECT_SEEDS,   \* which register contents such a run starts from
    HOSTS,          \* host disciplines, of "idle", "any" and "direct"
    MAX_LAUNCHES    \* bound on the launches of a behaviour

VARIABLES
    host,       \* when the testbench launches: see HostMayLaunch
    gpu,        \* gpus_: the GPGPUTop objects, with their scheduler and CUs
    device,     \* devices_ of SystemTopHLS: AXI-Lite registers
    launched,   \* history: the launches made, as [kernel, grid]
    direct      \* result of the last run on the testbench's own ComputeUnit

vars == <<host, gpu, device, launched, direct>>

Program == [intSaxpy |-> intSaxpy(2, 10), fpUniformSaxpy |-> fpUniformSaxpy(2, 3, 1),
            memoryRoundTrip |-> memoryRoundTrip, divergentOddEven |-> divergentOddEven,
            barrierRoundTrip |-> barrierRoundTrip(1), parallelReduction |-> parallelReduction,
            \* not in the library: two barriers, and a barrier a thread meets masked
            twoBarriers |-> << makeInstr("SW", 0, 2, 1, 0), BARRIER(0), makeInstr("VBRANCH", 0, 1, 0, 1),
                               BARRIER(1), VJOIN, makeInstr("LW", 3, 2, 0, 0) >>,
            fpSaxpy |-> fpSaxpy, fpFmadd |-> fpFmadd, fpDivergentSaxpy |-> fpDivergentSaxpy,
            fpGemm |-> fpGemm, conv2d3x3 |-> conv2d3x3]

Cu == 0 .. NUM_CUS - 1
BarrierId == {0, 1}

ASSUME GoldenAssumption ==
    /\ NUM_CUS \in Nat \ {0}
    /\ GPU_COUNTS \subseteq Nat \ {0} /\ GRIDS \subseteq Nat
    /\ \A h \in HOSTS : KERNELS[h] \subseteq DOMAIN Program

Gpu == DOMAIN gpu
NoDirect == [kernel |-> "none"]
-----------------------------------------------------------------------------
(***************************************************************************)
(* WarpScheduler                                                           *)
(***************************************************************************)
SchedulerComplete(g) == \A c \in Cu : g.ready[c] = << >>

\* generateWarps(): ids continue from the last launch, dealt over the CUs.
Dealt(ready, first, total) ==
    LET dealt[i \in 0 .. total] ==
            IF i = 0 THEN ready
            ELSE [dealt[i - 1] EXCEPT ![(i - 1) % NUM_CUS] = Append(@, first + i - 1)]
    IN  dealt[total]

GenerateWarps(g, total) ==
    [g EXCEPT !.next_warp = @ + total, !.ready = Dealt(@, g.next_warp, total)]

Longest(ready) == CHOOSE c \in Cu : \A d \in Cu : \/ Len(ready[d]) < Len(ready[c])
                                                  \/ Len(ready[d]) = Len(ready[c]) /\ c <= d
Shortest(ready) == CHOOSE c \in Cu : \A d \in Cu : \/ Len(ready[d]) > Len(ready[c])
                                                   \/ Len(ready[d]) = Len(ready[c]) /\ c <= d

BalanceOnce(ready) ==
    LET from == Longest(ready)
        to == Shortest(ready)
    IN  IF Len(ready[from]) > Len(ready[to]) + 1
          THEN [ready EXCEPT ![from] = Tail(@), ![to] = Append(@, Head(ready[from]))]
          ELSE ready

\* balanceLoadAcrossUnits(): repeats until nothing moves, at most once per warp.
Balanced(ready, rounds) ==
    LET after[n \in 0 .. rounds] == IF n = 0 THEN ready ELSE BalanceOnce(Once(after[n - 1]))
    IN  after[rounds]

BalanceLoad(g) == [g EXCEPT !.ready = Balanced(@, g.next_warp)]

SubmitKernel(g, total) == BalanceLoad(GenerateWarps(g, total))
-----------------------------------------------------------------------------
(***************************************************************************)
(* GPGPUTop                                                                *)
(***************************************************************************)
NewGpu ==
    [program |-> << >>, kernel |-> "none", start_warp |-> 0, offset |-> 0, total_warps |-> 0,
     ready |-> [c \in Cu |-> << >>], next_warp |-> 0,
     event |-> FALSE, in_loop |-> FALSE, barrier_queue |-> << >>,
     barrier_table |-> [c \in Cu |-> [b \in BarrierId |-> {}]],
     mem |-> << >>, instructions |-> 0,
     launch |-> 0, started |-> << >>, ended |-> {}, pass |-> FALSE]     \* history

\* launchKernel()
LaunchTop(g, k, total, offset) ==
    [SubmitKernel([g EXCEPT !.program = Program[k], !.kernel = k, !.start_warp = g.next_warp,
                            !.offset = offset, !.total_warps = total,
                            !.launch = Len(launched) + 1], total)
        EXCEPT !.event = TRUE]

\* Fault: the kernel's first warp id is not subtracted.
LocalWarpGlobal(g, w) == w

\* r3 of a warp: an unsigned difference, huge for a warp older than the last launch.
LocalWarp(g, w) == Wrap(w - g.start_warp)

BuildWarpContext(g, w) ==
    [warp |-> w, pc |-> 0, state |-> "READY", program |-> g.program, stack |-> << >>,
     regs |-> [t \in Thread |->
                 LET tid == (w + g.offset) * TPW + t
                 IN  [r \in Reg |-> CASE r = 1 -> tid
                                      [] r = 2 -> 65536 + tid * 4
                                      [] r = 3 -> LocalWarp(g, w)
                                      [] OTHER -> 0]],
     kernel |-> g.kernel, launch |-> g.launch, global_warp |-> w + g.offset,
     local_warp |-> w - g.start_warp]       \* history

\* What is kept of a warp that has ended: its place in the grid and its registers.
Ended(ctx) == [launch |-> ctx.launch, kernel |-> ctx.kernel, warp |-> ctx.warp,
               global_warp |-> ctx.global_warp, local_warp |-> ctx.local_warp,
               regs |-> [t \in Thread |-> [r \in 3 .. 6 |-> ctx.regs[t][r]]]]

\* threadHitBarrier(): warp w of CU c has arrived.
threadHitBarrier(table, c, bid, w) == [table EXCEPT ![c][bid] = @ \cup {w}]

\* executeWarp() on CU c, and what the loop does with the outcome.
RunWarp(g, c, ctx) ==
    LET x == Once(executeWarp(ctx, g.mem))
        ran == [g EXCEPT !.mem = x.mem, !.instructions = @ + x.instructions]
    IN  Once(IF x.ctx.state = "STALLED"
               THEN [ran EXCEPT !.barrier_table = threadHitBarrier(@, c, x.bid, ctx.warp),
                                !.barrier_queue = Append(@, [id |-> ctx.warp, cu_id |-> c,
                                                             bid |-> x.bid, ctx |-> x.ctx])]
               ELSE [ran EXCEPT !.ended = @ \cup {Ended(x.ctx)}])

Popped(ready, c) == [ready EXCEPT ![c] = Tail(@)]

\* Fault: the front of the queue is read and left there.
DispatchOneKeeps(g, c) ==
    IF g.ready[c] = << >> THEN g
    ELSE LET w == Head(g.ready[c])
         IN  RunWarp([g EXCEPT !.started = Append(@, w)], c, BuildWarpContext(g, w))

\* selectWarp(cu_id), buildWarpContext() and execution of one warp of CU c.
DispatchOne(g, c) ==
    IF g.ready[c] = << >> THEN g
    ELSE LET w == Head(g.ready[c])
         IN  RunWarp([g EXCEPT !.started = Append(@, w), !.ready = Popped(@, c)],
                     c, BuildWarpContext(g, w))

ResumeOne(g, sw) == RunWarp(g, sw.cu_id, sw.ctx)

\* Fault: waits for one warp more than the kernel has.
BarrierFiresLate(g) ==
    SchedulerComplete(g) /\ g.barrier_queue # << >> /\ Len(g.barrier_queue) > g.total_warps

\* Fault: fires once every CU has a warp in the queue.
BarrierFiresPerCu(g) == Len(g.barrier_queue) >= NUM_CUS

BarrierFires(g) ==
    /\ SchedulerComplete(g)
    /\ g.barrier_queue # << >>
    /\ Len(g.barrier_queue) = g.total_warps

\* clearBarrier(bid) on every CU.
ClearBarrier(g, bid) ==
    [g EXCEPT !.barrier_table = [c \in Cu |-> [@[c] EXCEPT ![bid] = {}]]]

\* The warps of the queue run on, in its order.
ResumeAll(g, queue) ==
    LET resumed[n \in 0 .. Len(queue)] ==
            IF n = 0 THEN g ELSE ResumeOne(Once(resumed[n - 1]), queue[n])
    IN  resumed[Len(queue)]

GlobalBarrier(g) ==
    IF BarrierFires(g)
      THEN ResumeAll([ClearBarrier(g, g.barrier_queue[1].bid) EXCEPT !.barrier_queue = << >>],
                     g.barrier_queue)
      ELSE g

\* Every CU runs one warp, in ascending order.
DispatchAll(g) ==
    LET dispatched[c \in 0 .. NUM_CUS] ==
            IF c = 0 THEN g ELSE DispatchOne(Once(dispatched[c - 1]), c - 1)
    IN  dispatched[NUM_CUS]

LoopPass(g) == GlobalBarrier(Once(DispatchAll(g)))

\* The condition of the simulation loop, and one pass or the return to wait().
SimulationStep(g) ==
    IF SchedulerComplete(g) /\ g.barrier_queue = << >>
      THEN [g EXCEPT !.event = FALSE, !.in_loop = FALSE]
      ELSE [LoopPass(g) EXCEPT !.event = FALSE, !.in_loop = TRUE]
-----------------------------------------------------------------------------
(***************************************************************************)
(* SystemTop and SystemTopHLS                                              *)
(***************************************************************************)
\* warps_for_gpu of GPU i of n
WarpsFor(grid, n, i) == (grid \div n) + IF i < grid % n THEN 1 ELSE 0

\* Fault: the remainder is not added to the offset.
WarpOffsetOfBase(grid, n, i) == i * (grid \div n)

\* The sum of the shares of GPUs 0 .. i-1.
WarpOffset(grid, n, i) ==
    LET sum[j \in 0 .. i] == IF j = 0 THEN 0 ELSE sum[j - 1] + WarpsFor(grid, n, j - 1)
    IN  sum[i]

\* SystemTop::isComplete(): isKernelComplete() of every GPU asks only its scheduler.
IsComplete == \A i \in Gpu : SchedulerComplete(gpu[i])
HlsIsComplete == \A i \in Gpu : device[i].done

\* The registers SystemTopHLS::launchKernel() writes on one device.
HlsLaunchDevice(d, offset, n) ==
    [d EXCEPT !.warp_id_offset = offset, !.total_warps = n, !.start = TRUE]

HlsVisit(acc, d, n) ==
    IF n = 0 THEN acc
    ELSE [devices |-> [acc.devices EXCEPT ![d] = HlsLaunchDevice(@, acc.offset, n)],
          offset |-> acc.offset + n]

\* Its loop over the devices; one without warps is skipped.
HlsLaunch(devices, grid) ==
    LET count == Cardinality(DOMAIN devices)
        visited[d \in 0 .. count] ==
            IF d = 0 THEN [devices |-> devices, offset |-> 0]
            ELSE HlsVisit(Once(visited[d - 1]), d - 1,
                          (grid \div count) + IF d - 1 < grid % count THEN 1 ELSE 0)
    IN  visited[count].devices

(***************************************************************************)
(* "idle": sc_start() returns when no process has anything left to do,     *)
(* which is when every simulationProcess waits for its event, and the host *)
(* also waits for its devices.  "any": a testbench thread that launches    *)
(* whenever it likes.  "direct" launches nothing.                          *)
(***************************************************************************)
AllIdle == \A i \in Gpu : ~gpu[i].event /\ ~gpu[i].in_loop
HostMayLaunch ==
    \/ host = "idle" /\ AllIdle /\ \A i \in Gpu : ~device[i].start
    \/ host = "any"

Launch(k, grid) ==
    LET n == Cardinality(Gpu)
    IN  /\ HostMayLaunch /\ Len(launched) < MAX_LAUNCHES
        /\ gpu' = [i \in Gpu |-> IF WarpsFor(grid, n, i) = 0 THEN gpu[i]
                                 ELSE LaunchTop(gpu[i], k, WarpsFor(grid, n, i), WarpOffset(grid, n, i))]
        /\ device' = HlsLaunch(device, grid)
        /\ launched' = Append(launched, [kernel |-> k, grid |-> grid])
        /\ UNCHANGED <<host, direct>>

Activation(g) == [SimulationStep(g) EXCEPT !.pass = ~@]

Activate(i) ==
    /\ gpu' = [gpu EXCEPT ![i] = Activation(@)]
    /\ UNCHANGED <<host, device, launched, direct>>

\* simulationProcess(): woken by the event, or resumed from wait(SC_ZERO_TIME).
Wake(i) == ~gpu[i].in_loop /\ gpu[i].event /\ Activate(i)
Resume(i) == gpu[i].in_loop /\ Activate(i)

\* External: the device runs a started kernel to its end.  done is not cleared by a launch.
DeviceFinishes(i) ==
    /\ device[i].start
    /\ device' = [device EXCEPT ![i].start = FALSE, ![i].done = TRUE]
    /\ UNCHANGED <<host, gpu, launched, direct>>

(***************************************************************************)
(* A [DIRECT] kernel on a ComputeUnit of the testbench: the caller sets    *)
(* the registers of the warp itself.  Register r of thread t starts as a   *)
(* float or an integer that depends on the seed.                           *)
(***************************************************************************)
Seeded(k, a, b, t, r) ==
    LET n == (a * r + b * t) % 5
    IN  IF r >= 3 /\ k # "conv2d3x3" THEN floatAsReg(n) ELSE IF r = 0 THEN t ELSE n

RunDirect(k, a, b) ==
    LET init == [t \in Thread |-> [r \in Reg |-> Seeded(k, a, b, t, r)]]
        x == executeWarp([warp |-> 0, pc |-> 0, state |-> "READY", program |-> Program[k],
                          stack |-> << >>, regs |-> init], << >>)
    IN  /\ host = "direct" /\ direct = NoDirect      \* runs do not depend on each other
        /\ direct' = [kernel |-> k, init |-> init, regs |-> x.ctx.regs]
        /\ UNCHANGED <<host, gpu, device, launched>>
-----------------------------------------------------------------------------
Init ==
    /\ host \in HOSTS
    /\ \E n \in GPU_COUNTS :
         /\ gpu = [i \in 0 .. n - 1 |-> NewGpu]
         /\ device = [i \in 0 .. n - 1 |-> [warp_id_offset |-> 0, total_warps |-> 0,
                                            start |-> FALSE, done |-> FALSE]]
    /\ launched = << >> /\ direct = NoDirect

Next ==
    \/ \E k \in KERNELS[host], grid \in GRIDS : Launch(k, grid)
    \/ \E i \in Gpu : Wake(i) \/ Resume(i) \/ DeviceFinishes(i)
    \/ \E k \in DIRECT_KERNELS, a, b \in DIRECT_SEEDS : RunDirect(k, a, b)

Spec == Init /\ [][Next]_vars

(***************************************************************************)
(* The SystemC kernel runs every runnable process, and a started device    *)
(* ends.  The first conjunct is WF_vars(Wake(i) \/ Resume(i)) spelled out: *)
(* that action is enabled exactly when the process is runnable, and each   *)
(* activation, and nothing else, flips pass.                               *)
(***************************************************************************)
Runnable(i) == i \in Gpu /\ (gpu[i].in_loop \/ gpu[i].event)
Activated(i) == i \in Gpu /\ gpu'[i].pass # gpu[i].pass
FairSpec ==
    /\ Spec
    /\ \A i \in UNION {0 .. n - 1 : n \in GPU_COUNTS} :
         /\ []<>(~Runnable(i)) \/ []<><<Activated(i)>>_vars
         /\ WF_vars(i \in Gpu /\ DeviceFinishes(i))
-----------------------------------------------------------------------------
TypeOK ==
    /\ host \in HOSTS
    /\ \A i \in Gpu :
         /\ gpu[i].total_warps \in Nat /\ gpu[i].next_warp \in Nat
         /\ gpu[i].ready \in [Cu -> Seq(0 .. gpu[i].next_warp)]
         /\ gpu[i].barrier_table \in [Cu -> [BarrierId -> SUBSET (0 .. gpu[i].next_warp)]]
         /\ \A n \in DOMAIN gpu[i].barrier_queue :
              LET sw == gpu[i].barrier_queue[n]
              IN  sw.cu_id \in Cu /\ sw.bid \in BarrierId
         /\ device[i] \in [warp_id_offset : Nat, total_warps : Nat, start : BOOLEAN, done : BOOLEAN]

Queued(g) == UNION {ToSet(g.ready[c]) : c \in Cu}

(***************************************************************************)
(* Whenever the host launches, every warp id handed out has been           *)
(* dispatched once or waits in exactly one ready queue: generateWarps(),   *)
(* the moves of balanceLoadAcrossUnits() and selectWarp() lose and repeat  *)
(* nothing.                                                                *)
(***************************************************************************)
EachWarpOnce ==
    \A i \in Gpu :
        LET g == gpu[i]
        IN  /\ ToSet(g.started) \cup Queued(g) = 0 .. g.next_warp - 1
            /\ ToSet(g.started) \cap Queued(g) = {} /\ IsInjective(g.started)
            /\ \A c \in Cu : IsInjective(g.ready[c])
            /\ \A c, d \in Cu : c # d => ToSet(g.ready[c]) \cap ToSet(g.ready[d]) = {}

(***************************************************************************)
(* The ready queues of a GPU never differ by more than one warp, also      *)
(* while the passes of the loop drain them and when a kernel is submitted  *)
(* on top of another.                                                      *)
(***************************************************************************)
QueuesBalanced ==
    \A i \in Gpu : \A c, d \in Cu : Len(gpu[i].ready[c]) <= Len(gpu[i].ready[d]) + 1

(***************************************************************************)
(* A barrier holds: while a warp waits in barrier_queue no warp of its     *)
(* kernel has ended, all wait at the same place, and when that is not the  *)
(* first barrier of the program, every warp of the kernel is there.        *)
(***************************************************************************)
NoWarpOvertakes ==
    host = "idle" => \A i \in Gpu :
        LET q == gpu[i].barrier_queue
            first == SelectInSeq(gpu[i].program, LAMBDA x : x.op = "BARRIER")
        IN  q # << >> =>
              /\ \A e \in gpu[i].ended : e.launch # gpu[i].launch
              /\ \A n \in DOMAIN q : q[n].ctx.pc = q[1].ctx.pc
              /\ q[1].ctx.pc # first => Len(q) = gpu[i].total_warps

(***************************************************************************)
(* The barrier tables of the CUs name exactly the warps that wait in       *)
(* barrier_queue, each at its CU and barrier: an entry left behind by      *)
(* clearBarrier() would count as an arrival at the barrier's next use.     *)
(***************************************************************************)
BarrierTablesMatch ==
    host = "idle" => \A i \in Gpu : \A c \in Cu, b \in BarrierId :
        gpu[i].barrier_table[c][b] =
            {sw.id : sw \in {x \in ToSet(gpu[i].barrier_queue) : x.cu_id = c /\ x.bid = b}}

EndedOf(l) == UNION {{<<i, e>> : e \in {x \in gpu[i].ended : x.launch = l}} : i \in Gpu}

\* The warps every one of n GPUs had been given before launch l.
WarpsBefore(launches, n, l) ==
    LET sum[j \in 0 .. l - 1] == IF j = 0 THEN 0 ELSE sum[j - 1] + (launches[j].grid \div n)
    IN  sum[l - 1]

(***************************************************************************)
(* The shares SystemTop gives its GPUs tile the grid: when a launch is     *)
(* over, its warps have the global ids of one contiguous range, each once, *)
(* provided all launches before divided evenly.  (After an uneven one the  *)
(* warp counters of the GPUs differ, and ids can meet.)                    *)
(***************************************************************************)
TidsTileTheGrid ==
    LET n == Cardinality(Gpu)
    IN  host = "idle" /\ AllIdle => \A l \in DOMAIN launched :
            (\A j \in 1 .. l - 1 : launched[j].grid % n = 0) =>
                LET first == WarpsBefore(launched, n, l)
                IN  /\ {x[2].global_warp : x \in EndedOf(l)} = first .. first + launched[l].grid - 1
                    /\ Cardinality(EndedOf(l)) = launched[l].grid

(***************************************************************************)
(* Every warp of a library kernel ends with the registers the comments of  *)
(* kernel_programs.h give, for any grid, number of GPUs and earlier        *)
(* kernel.  The reduction is launched with two warps per GPU; its warp 1   *)
(* is the subject of ReductionSymmetric.                                   *)
(***************************************************************************)
DocumentedResults ==
    host = "idle" => \A i \in Gpu : \A e \in gpu[i].ended : \A t \in Thread :
        LET tid == e.global_warp * TPW + t
            r == e.regs[t]
        IN  CASE e.kernel = "intSaxpy" -> r[6] = 2 * (tid + 1) + 10
              [] e.kernel = "fpUniformSaxpy" -> r[6] = floatAsReg(2 * 3 + 1)
              [] e.kernel = "memoryRoundTrip" -> r[3] = tid /\ r[4] = tid
              [] e.kernel = "divergentOddEven" -> r[5] = IF tid % 2 = 0 THEN 100 ELSE 0
              [] e.kernel \in {"barrierRoundTrip", "twoBarriers"} -> r[3] = tid
              [] e.kernel = "parallelReduction" ->
                   launched[e.launch].grid = 2 * Cardinality(Gpu) /\ e.local_warp = 0
                     => r[6] = (tid + 1) + (tid + TPW + 1)

(***************************************************************************)
(* kernel_programs.h of parallelReduction(): "Warp 1 thread t: r6 = same   *)
(* (symmetric)".                                                           *)
(***************************************************************************)
ReductionSymmetric ==
    \A i \in Gpu : \A e \in gpu[i].ended : \A t \in Thread :
        /\ e.kernel = "parallelReduction" /\ launched[e.launch].grid = 2 * Cardinality(Gpu)
        /\ e.local_warp = 1
        => LET tid == e.global_warp * TPW + t IN e.regs[t][6] = (tid + 1) + (tid - TPW + 1)

(***************************************************************************)
(* What the [DIRECT] kernels compute for registers set by the caller.      *)
(* Four do what their comments in kernel_programs.h say: a SAXPY, a fused  *)
(* multiply-add, and the dot products of the GEMM and convolution tiles    *)
(* added to what the accumulator held.  fpDivergentSaxpy does not (see     *)
(* DivergentSaxpyEvenOdd): its branch on r0 & (r0 + 1) leaves the threads  *)
(* active whose r0 is a 2^k - 1, as docs/hls/interfaces.md:694 derives.    *)
(***************************************************************************)
DirectResults ==
    direct.kernel # "none" => \A t \in Thread :
        LET old == direct.init[t]
            new == direct.regs[t]
            F(r) == regAsFloat(old[r])
            saxpy == floatAsReg(F(3) * F(4) + F(5))
            Dot(Val(_), a, b, n, acc) == FoldLeft(LAMBDA s, k : s + Val(a + k - 1) * Val(b + k - 1), acc,
                                                  [k \in 1 .. n |-> k])
        IN  CASE direct.kernel = "fpSaxpy" -> new[6] = saxpy
              [] direct.kernel = "fpFmadd" -> new[5] = saxpy
              [] direct.kernel = "fpDivergentSaxpy" ->
                   new[6] = IF \E k \in 0 .. 5 : old[0] = 2^k - 1 THEN saxpy ELSE old[6]
              [] direct.kernel = "fpGemm" -> new[7] = floatAsReg(Dot(F, 3, 8, 4, F(7)))
              [] direct.kernel = "conv2d3x3" -> new[21] = Dot(LAMBDA r : old[r], 3, 12, 9, old[21])

(***************************************************************************)
(* kernel_programs.h:237 of fpDivergentSaxpy(): "Even threads compute FP   *)
(* SAXPY; odd threads are masked", r0 being the thread's index and r6      *)
(* holding 0 before.                                                       *)
(***************************************************************************)
DivergentSaxpyEvenOdd ==
    direct.kernel = "fpDivergentSaxpy" => \A t \in Thread :
        LET F(r) == regAsFloat(direct.init[t][r])
            index == direct.init[t][0]
        IN  direct.init[t][6] = 0 =>
                direct.regs[t][6] = IF index % 2 = 0 THEN floatAsReg(F(3) * F(4) + F(5)) ELSE 0

\* The registers of a warp that waits at a barrier are words.
RegistersFit ==
    \A i \in Gpu : \A n \in DOMAIN gpu[i].barrier_queue :
        gpu[i].barrier_queue[n].ctx.regs \in [Thread -> [Reg -> 0 .. WORD - 1]]

\* The devices hold the same shares and offsets as the GPUs, launch after launch.
SplitParity ==
    \A i \in Gpu : device[i].total_warps = gpu[i].total_warps /\ device[i].warp_id_offset = gpu[i].offset

(***************************************************************************)
(* A launched share runs to its end: the process wakes up, no warp stays   *)
(* in a queue or at a barrier for ever, and it returns to its wait.        *)
(***************************************************************************)
KernelFinishes ==
    \A i \in 0 .. 1 :
        (host = "idle" /\ i \in Gpu /\ gpu[i].event)
            ~> (/\ i \in Gpu /\ ~gpu[i].event /\ ~gpu[i].in_loop
                /\ Cardinality({e \in gpu[i].ended : e.launch = gpu[i].launch}) = gpu[i].total_warps)

(***************************************************************************)
(* A grid with a warp for every device ends on all of them: isComplete()   *)
(* of SystemTopHLS becomes true and every device has taken its start.      *)
(***************************************************************************)
HlsCompletes ==
    \A l \in 1 .. MAX_LAUNCHES :
        (host = "idle" /\ Len(launched) = l /\ launched[l].grid >= Cardinality(Gpu))
            ~> (HlsIsComplete /\ \A i \in Gpu : ~device[i].start)

(***************************************************************************)
(* The ready queues of warp_scheduler.cpp: every warp in one place, the    *)
(* queues level, across launches that overlap.                             *)
(***************************************************************************)
SchedulerInv == TypeOK /\ EachWarpOnce /\ QueuesBalanced

(***************************************************************************)
(* The barrier of simulationProcess() (top.cpp:156) holds, in its queue    *)
(* and in the tables of the compute units.                                 *)
(***************************************************************************)
BarrierInv == NoWarpOvertakes /\ BarrierTablesMatch

(***************************************************************************)
(* Both SystemTops split a grid in the same way, and the shares tile it    *)
(* (system_top.cpp:52, hls system_top.h:65).                               *)
(***************************************************************************)
SplitInv == TidsTileTheGrid /\ SplitParity

(***************************************************************************)
(* The kernels of kernel_programs.h launched on the GPUs end with the      *)
(* results their comments give, apart from warp 1 of the reduction         *)
(* (ReductionSymmetric); those run directly compute what DirectResults     *)
(* lists, and registers stay words.                                        *)
(***************************************************************************)
KernelResults == DocumentedResults /\ DirectResults /\ RegistersFit

(***************************************************************************)
(* What is launched ends, on the golden GPUs and on the devices.           *)
(***************************************************************************)
EveryLaunchEnds == KernelFinishes /\ HlsCompletes
=============================================================================
