----------------------------- MODULE CuCluster -----------------------------
(***************************************************************************)
(* gpgpu_scheduler, hierarchical DATAFLOW path for 13 and more compute     *)
(* units (hls/src/scheduler/gpgpu_top.cpp, cu_cluster.h): two clusters of  *)
(* CLUSTER_SIZE units, each with a relay between its schedulers and        *)
(* barrierCoreN<2>, a register loader of its own, and one programLoaderHier*)
(* that tells nobody when it is done.                                      *)
(*                                                                         *)
(* As built, cu_id_t is narrower than the number of units, and as          *)
(* CLUSTER_SIZE is no macro, #if CLUSTER_SIZE >= 2 leaves every cluster    *)
(* with the compute_pipeline of its first unit only.                       *)
(*                                                                         *)
(* Seeds are left out but for their effect on the loader: one that writes  *)
(* the seeds of a unit without a pipeline never returns.  So are the memory*)
(* requests of the warps.                                                  *)
(***************************************************************************)
EXTENDS WarpSlots, Sequences, FiniteSets

CONSTANTS
    CLUSTER_SIZE,       \* NUM_CUS / 2
    PIPELINES,          \* the members of a cluster that have a compute_pipeline
    MAX_PROGRAM_LEN,
    Programs,           \* the kernels the host launches
    WarpCounts,         \* values of total_warps
    DISPATCH_DEPTH,     \* of dispatch_out and status_in
    EVENTS_DEPTH,       \* of sched_events and cluster_events
    SIGNAL_DEPTH,       \* of sched_signal and cluster_signal
    MAX_LAUNCHES        \* bound on the launches of the host

Cluster == 0 .. 1
Member == 0 .. CLUSTER_SIZE - 1
Unit == Cluster \X Member
Codes == {"COMPLETE", "STALLED_AT_BARRIER"}
ProgramAddr == 0 .. MAX_PROGRAM_LEN - 1

ASSUME ClusterAssumption ==
    /\ CLUSTER_SIZE = NUM_CUS \div 2 /\ PIPELINES \subseteq Member
    /\ \A p \in Programs : p \in Seq({"OP", "BARRIER", "HALT"}) /\ Len(p) <= MAX_PROGRAM_LEN
    /\ DISPATCH_DEPTH \in Nat \ {0} /\ EVENTS_DEPTH \in Nat \ {0} /\ SIGNAL_DEPTH \in Nat \ {0}

VARIABLES
    start, total_warps, program, launches,  \* the host's registers
    busy, barrier, b_pc, b_k, completed,    \* barrierCoreN; how often it finished
    load_idx, program_store,                \* programLoaderHier
    reg_loader,                             \* clusterRegLoader: next member, blocked?
    relay,                                  \* clusterBarrierRelay: pc, member, signal
    slots, running, busy_cu, s_pc,          \* schedulerCore
    status,                                 \* status_in
    dispatch_out, sched_events, cluster_events, cluster_signal, sched_signal, loaded_sig,
    reported, counted,  \* history: events written by schedulers, read by barrierCore
    sent, heard         \* history: signals written by barrierCore, number read by a scheduler

hostVars == <<start, total_warps, program, launches>>
barrierVars == <<busy, barrier, b_pc, b_k, completed, counted, sent>>
loadVars == <<load_idx, program_store, reg_loader>>
schedVars == <<slots, running, busy_cu, s_pc, reported, heard>>
upVars == <<sched_events, cluster_events>>
downVars == <<cluster_signal, sched_signal>>
workVars == <<dispatch_out, status>>
vars == <<hostVars, barrierVars, loadVars, relay, schedVars, upVars, downVars, workVars, loaded_sig>>

Base(k) == CuId(k * CLUSTER_SIZE)
NoCounts == [code \in Codes |-> 0]

Init ==
    /\ start = FALSE /\ total_warps = 0 /\ program = << >> /\ launches = 0
    /\ busy = FALSE /\ b_pc = "poll" /\ b_k = 0 /\ completed = 0
    /\ barrier = [total_warps |-> 0, count |-> NoCounts]
    /\ load_idx = 0 /\ program_store = [i \in ProgramAddr |-> "UNINIT"]
    /\ reg_loader = [k \in Cluster |-> [c |-> 0, blocked |-> FALSE]]
    /\ relay = [k \in Cluster |-> [pc |-> "events", c |-> 0, sig |-> ""]]
    /\ slots = [u \in Unit |-> [s \in Slot |-> NewSlot]]
    /\ running = [u \in Unit |-> FALSE] /\ busy_cu = [u \in Unit |-> FALSE]
    /\ s_pc = [u \in Unit |-> "dispatch"]
    /\ status = [u \in Unit |-> << >>] /\ dispatch_out = [u \in Unit |-> << >>]
    /\ sched_events = [u \in Unit |-> << >>] /\ sched_signal = [u \in Unit |-> << >>]
    /\ cluster_events = [k \in Cluster |-> << >>] /\ cluster_signal = [k \in Cluster |-> << >>]
    /\ loaded_sig = [u \in Unit |-> << >>]
    /\ reported = [k \in Cluster |-> NoCounts] /\ counted = [k \in Cluster |-> NoCounts]
    /\ sent = [k \in Cluster |-> << >>] /\ heard = [u \in Unit |-> 0]
-----------------------------------------------------------------------------
(***************************************************************************)
(* The host: start is written to 0 when busy has risen and fallen, and     *)
(* stays 0 until the loaders have seen it.                                 *)
(***************************************************************************)
HostStart(p, t) ==
    /\ ~start /\ launches < MAX_LAUNCHES /\ completed = launches
    /\ load_idx = 0 /\ \A k \in Cluster : reg_loader[k] = [c |-> 0, blocked |-> FALSE]
    /\ start' = TRUE /\ program' = p /\ total_warps' = t /\ launches' = launches + 1
    /\ UNCHANGED <<barrierVars, loadVars, relay, schedVars, upVars, downVars, workVars, loaded_sig>>

HostClear ==
    /\ start /\ completed = launches
    /\ start' = FALSE
    /\ UNCHANGED <<total_warps, program, launches>>
    /\ UNCHANGED <<barrierVars, loadVars, relay, schedVars, upVars, downVars, workVars, loaded_sig>>
-----------------------------------------------------------------------------
(***************************************************************************)
(* barrierCoreN<NUM_CLUSTERS>: as barrierCore, a stream per cluster.       *)
(***************************************************************************)
BarrierLaunch ==
    /\ ~busy /\ b_pc = "poll" /\ start /\ total_warps <= Capacity
    /\ barrier' = [total_warps |-> total_warps, count |-> NoCounts]
    /\ busy' = TRUE
    /\ UNCHANGED <<b_pc, b_k, completed, counted, sent>>
    /\ UNCHANGED <<hostVars, loadVars, relay, schedVars, upVars, downVars, workVars, loaded_sig>>

\* A pass reads the clusters in turn; b_k is the first one still to be read.
BarrierPoll(k) ==
    /\ busy /\ b_pc = "poll" /\ k >= b_k /\ cluster_events[k] # << >>
    /\ LET code == Head(cluster_events[k])
       IN  /\ barrier' = [barrier EXCEPT !.count[code] = @ + 1]
           /\ counted' = [counted EXCEPT ![k][code] = @ + 1]
    /\ cluster_events' = [cluster_events EXCEPT ![k] = Tail(@)]
    /\ b_k' = k + 1
    /\ UNCHANGED <<busy, completed, b_pc, sent, sched_events>>
    /\ UNCHANGED <<hostVars, loadVars, relay, schedVars, downVars, workVars, loaded_sig>>

AllReport(code) == barrier.total_warps # 0 /\ barrier.count[code] = barrier.total_warps

\* The end of a pass, where the clusters from b_k on had nothing.
BarrierTest ==
    /\ \/ /\ busy /\ b_pc = "poll" /\ AllReport("STALLED_AT_BARRIER")
          /\ barrier' = [barrier EXCEPT !.count["STALLED_AT_BARRIER"] = 0]
          /\ b_pc' = "release" /\ b_k' = 0
          /\ UNCHANGED <<busy, completed>>
       \/ /\ b_pc = "complete" \/ (busy /\ b_pc = "poll" /\ ~AllReport("STALLED_AT_BARRIER"))
          /\ AllReport("COMPLETE")
          /\ busy' = FALSE /\ completed' = completed + 1
          /\ b_pc' = "kernel_done" /\ b_k' = 0
          /\ UNCHANGED barrier
       \/ /\ b_pc = "complete" \/ (busy /\ b_pc = "poll" /\ b_k # 0 /\ ~AllReport("STALLED_AT_BARRIER"))
          /\ ~AllReport("COMPLETE")
          /\ b_pc' = "poll" /\ b_k' = 0
          /\ UNCHANGED <<busy, completed, barrier>>
    /\ UNCHANGED <<counted, sent>>
    /\ UNCHANGED <<hostVars, loadVars, relay, schedVars, upVars, downVars, workVars, loaded_sig>>

BarrierSignal(sig, end) ==
    /\ b_pc = sig
    /\ Len(cluster_signal[b_k]) < SIGNAL_DEPTH
    /\ cluster_signal' = [cluster_signal EXCEPT ![b_k] = Append(@, sig)]
    /\ sent' = [sent EXCEPT ![b_k] = Append(@, sig)]
    /\ IF b_k = 0 THEN b_k' = 1 /\ b_pc' = sig ELSE b_k' = 0 /\ b_pc' = end
    /\ UNCHANGED <<busy, barrier, completed, counted, sched_signal>>
    /\ UNCHANGED <<hostVars, loadVars, relay, schedVars, upVars, workVars, loaded_sig>>

BarrierCore ==
    BarrierLaunch \/ (\E k \in Cluster : BarrierPoll(k)) \/ BarrierTest
    \/ BarrierSignal("release", "complete") \/ BarrierSignal("kernel_done", "poll")
-----------------------------------------------------------------------------
(***************************************************************************)
(* clusterBarrierRelay of cluster k: a round passes on one event of each   *)
(* member in turn, relay[k].c being the first still to be read, then hands *)
(* one signal to all of them.  A member of the round may be found empty    *)
(* although it has an event by the time the next one is read.              *)
(***************************************************************************)
Round == [pc |-> "events", c |-> 0, sig |-> ""]

\* Fault: the event is passed on and not taken off its stream.
RelayEventTwice(k, c) ==
    /\ relay[k].pc = "events" /\ c >= relay[k].c
    /\ sched_events[<<k, c>>] # << >> /\ Len(cluster_events[k]) < EVENTS_DEPTH
    /\ cluster_events' = [cluster_events EXCEPT ![k] = Append(@, Head(sched_events[<<k, c>>]))]
    /\ relay' = [relay EXCEPT ![k].c = c + 1]
    /\ UNCHANGED <<sched_events, downVars>>

RelayEvent(k, c) ==
    /\ relay[k].pc = "events" /\ c >= relay[k].c
    /\ sched_events[<<k, c>>] # << >> /\ Len(cluster_events[k]) < EVENTS_DEPTH
    /\ cluster_events' = [cluster_events EXCEPT ![k] = Append(@, Head(sched_events[<<k, c>>]))]
    /\ sched_events' = [sched_events EXCEPT ![<<k, c>>] = Tail(@)]
    /\ relay' = [relay EXCEPT ![k].c = c + 1]
    /\ UNCHANGED downVars

RelayTake(k) ==
    /\ relay[k].pc = "events"
    /\ \/ /\ cluster_signal[k] = << >> /\ relay[k].c # 0
          /\ relay' = [relay EXCEPT ![k] = Round]
          /\ UNCHANGED cluster_signal
       \/ /\ cluster_signal[k] # << >>
          /\ relay' = [relay EXCEPT ![k] = [pc |-> "fanout", c |-> 0, sig |-> Head(cluster_signal[k])]]
          /\ cluster_signal' = [cluster_signal EXCEPT ![k] = Tail(@)]
    /\ UNCHANGED <<upVars, sched_signal>>

\* Fault: every signal goes to the last member.
RelayFanoutToLast(k) ==
    LET c == relay[k].c
        u == <<k, CLUSTER_SIZE - 1>>
    IN  /\ relay[k].pc = "fanout" /\ Len(sched_signal[u]) < SIGNAL_DEPTH
        /\ sched_signal' = [sched_signal EXCEPT ![u] = Append(@, relay[k].sig)]
        /\ relay' = [relay EXCEPT ![k] = IF c + 1 < CLUSTER_SIZE THEN [@ EXCEPT !.c = c + 1] ELSE Round]
        /\ UNCHANGED <<upVars, cluster_signal>>

\* Fault: the last member is left out.
RelayFanoutShort(k) ==
    LET u == <<k, relay[k].c>>
    IN  /\ relay[k].pc = "fanout" /\ Len(sched_signal[u]) < SIGNAL_DEPTH
        /\ sched_signal' = [sched_signal EXCEPT ![u] = Append(@, relay[k].sig)]
        /\ relay' = [relay EXCEPT ![k] = Round]
        /\ UNCHANGED <<upVars, cluster_signal>>

RelayFanout(k) ==
    LET c == relay[k].c
    IN  /\ relay[k].pc = "fanout" /\ Len(sched_signal[<<k, c>>]) < SIGNAL_DEPTH
        /\ sched_signal' = [sched_signal EXCEPT ![<<k, c>>] = Append(@, relay[k].sig)]
        /\ relay' = [relay EXCEPT ![k] = IF c + 1 < CLUSTER_SIZE THEN [@ EXCEPT !.c = c + 1] ELSE Round]
        /\ UNCHANGED <<upVars, cluster_signal>>

ClusterBarrierRelay(k) ==
    /\ (\E c \in Member : RelayEvent(k, c)) \/ RelayTake(k) \/ RelayFanout(k)
    /\ UNCHANGED <<hostVars, barrierVars, loadVars, schedVars, workVars, loaded_sig>>
-----------------------------------------------------------------------------
(***************************************************************************)
(* The loaders.                                                            *)
(***************************************************************************)
ProgramLoaderHier ==
    /\ \/ ~start /\ load_idx # 0 /\ load_idx' = 0 /\ UNCHANGED program_store
       \/ /\ start /\ load_idx < MAX_PROGRAM_LEN
          /\ load_idx' = load_idx + 1
          /\ program_store' = IF load_idx < Len(program)
                              THEN [program_store EXCEPT ![load_idx] = program[load_idx + 1]]
                              ELSE program_store
    /\ UNCHANGED reg_loader
    /\ UNCHANGED <<hostVars, barrierVars, relay, schedVars, upVars, downVars, workVars, loaded_sig>>

\* Member c of cluster k is seeded; here the id of the unit is not narrowed.
HasSeeds(k, c) == \E s \in Slot : Base(k) + c + s * NUM_CUS < total_warps

RegLoaderToken(k, c) ==
    /\ loaded_sig[<<k, c>>] = << >>
    /\ loaded_sig' = [loaded_sig EXCEPT ![<<k, c>>] = <<TRUE>>]
    /\ reg_loader' = [reg_loader EXCEPT ![k].c = @ + 1]

ClusterRegLoader(k) ==
    LET c == reg_loader[k].c
    IN  /\ ~reg_loader[k].blocked
        /\ \/ /\ ~start /\ c # 0
              /\ reg_loader' = [reg_loader EXCEPT ![k].c = 0]
              /\ UNCHANGED loaded_sig
           \/ /\ start /\ c < CLUSTER_SIZE /\ HasSeeds(k, c) /\ c \notin PIPELINES
              /\ reg_loader' = [reg_loader EXCEPT ![k].blocked = TRUE]
              /\ UNCHANGED loaded_sig
           \/ /\ start /\ c < CLUSTER_SIZE /\ (HasSeeds(k, c) => c \in PIPELINES)
              /\ RegLoaderToken(k, c)
        /\ UNCHANGED <<load_idx, program_store>>
        /\ UNCHANGED <<hostVars, barrierVars, relay, schedVars, upVars, downVars, workVars>>
-----------------------------------------------------------------------------
(***************************************************************************)
(* schedulerCore of member c of cluster k.  From the dispatch stage a      *)
(* scheduler with nothing to dispatch goes on to whichever of its streams  *)
(* it finds something in; after a status it polls for a signal before it   *)
(* dispatches again.                                                       *)
(***************************************************************************)
SchedLaunch(k, c) ==
    LET u == <<k, c>>
    IN  /\ ~running[u] /\ start /\ total_warps <= Capacity /\ loaded_sig[u] # << >>
        /\ loaded_sig' = [loaded_sig EXCEPT ![u] = Tail(@)]
        /\ slots' = [slots EXCEPT ![u] = LaunchSlots(@, Base(k) + c, total_warps)]
        /\ busy_cu' = [busy_cu EXCEPT ![u] = FALSE] /\ running' = [running EXCEPT ![u] = TRUE]
        /\ s_pc' = [s_pc EXCEPT ![u] = "dispatch"]
        /\ UNCHANGED <<reported, heard, upVars, downVars, workVars>>

SchedDispatch(u, s) ==
    /\ running[u] /\ s_pc[u] = "dispatch" /\ ~busy_cu[u] /\ IsNextReadySlot(slots[u], s)
    /\ Len(dispatch_out[u]) < DISPATCH_DEPTH
    /\ dispatch_out' = [dispatch_out EXCEPT ![u] = Append(@, BuildDispatch(slots[u], s))]
    /\ slots' = [slots EXCEPT ![u] = ClearFresh(@, s)]
    /\ busy_cu' = [busy_cu EXCEPT ![u] = TRUE]
    /\ UNCHANGED <<running, s_pc, reported, heard, upVars, downVars, status, loaded_sig>>

PastDispatch(u) == running[u] /\ (busy_cu[u] \/ NoReadySlot(slots[u]) \/ s_pc[u] = "signal")

SchedStatus(u) ==
    /\ PastDispatch(u) /\ s_pc[u] = "dispatch" /\ status[u] # << >>
    /\ Len(sched_events[u]) < EVENTS_DEPTH
    /\ slots' = [slots EXCEPT ![u] = RecordResult(@, Head(status[u]))]
    /\ sched_events' = [sched_events EXCEPT ![u] = Append(@, Head(status[u]).code)]
    /\ status' = [status EXCEPT ![u] = Tail(@)]
    /\ busy_cu' = [busy_cu EXCEPT ![u] = FALSE]
    /\ s_pc' = [s_pc EXCEPT ![u] = IF NoReadySlot(slots'[u]) THEN "dispatch" ELSE "signal"]
    /\ reported' = [reported EXCEPT ![u[1]][Head(status[u]).code] = @ + 1]
    /\ UNCHANGED <<running, heard, cluster_events, downVars, dispatch_out, loaded_sig>>

SchedSignal(u) ==
    /\ PastDispatch(u)
    /\ IF sched_signal[u] = << >>
       THEN s_pc[u] = "signal" /\ UNCHANGED <<slots, running, heard, sched_signal>>
       ELSE /\ sched_signal' = [sched_signal EXCEPT ![u] = Tail(@)]
            /\ heard' = [heard EXCEPT ![u] = @ + 1]
            /\ IF Head(sched_signal[u]) = "release"
               THEN slots' = [slots EXCEPT ![u] = ReleaseBarrierSlots(@)] /\ UNCHANGED running
               ELSE running' = [running EXCEPT ![u] = FALSE] /\ UNCHANGED slots
    /\ s_pc' = [s_pc EXCEPT ![u] = "dispatch"]
    /\ UNCHANGED <<busy_cu, reported, upVars, cluster_signal, workVars, loaded_sig>>

SchedulerCore(k, c) ==
    /\ \/ SchedLaunch(k, c)
       \/ \E s \in Slot : SchedDispatch(<<k, c>>, s)
       \/ SchedStatus(<<k, c>>)
       \/ SchedSignal(<<k, c>>)
    /\ UNCHANGED <<hostVars, barrierVars, loadVars, relay>>

\* compute_pipeline, where there is one.  A word that is not loaded yet is
\* the one of an earlier kernel or, in the first, any.
Runs(i, instr) == program_store[i] \in {instr, "UNINIT"}

Outcomes(d) ==
    LET Through(i) == \A j \in d.resume_pc .. i - 1 : Runs(j, "OP")
        last == Len(program) - 1
    IN  {[slot_id |-> d.slot_id, code |-> "STALLED_AT_BARRIER", resume_pc |-> i + 1] :
            i \in {i \in d.resume_pc .. last : Through(i) /\ Runs(i, "BARRIER")}}
        \cup {st \in {[slot_id |-> d.slot_id, code |-> "COMPLETE", resume_pc |-> 0]} :
                 \/ Through(last + 1)
                 \/ \E i \in d.resume_pc .. last : Through(i) /\ Runs(i, "HALT")}

ComputePipeline(u) ==
    /\ dispatch_out[u] # << >> /\ Len(status[u]) < DISPATCH_DEPTH
    /\ \E st \in Outcomes(Head(dispatch_out[u])) : status' = [status EXCEPT ![u] = Append(@, st)]
    /\ dispatch_out' = [dispatch_out EXCEPT ![u] = Tail(@)]
    /\ UNCHANGED <<hostVars, barrierVars, loadVars, relay, schedVars, upVars, downVars, loaded_sig>>
-----------------------------------------------------------------------------
Next ==
    \/ \E p \in Programs, t \in WarpCounts : HostStart(p, t)
    \/ HostClear
    \/ BarrierCore
    \/ ProgramLoaderHier
    \/ \E k \in Cluster : ClusterBarrierRelay(k) \/ ClusterRegLoader(k)
    \/ \E k \in Cluster, c \in Member : SchedulerCore(k, c)
    \/ \E k \in Cluster, c \in PIPELINES : ComputePipeline(<<k, c>>)

(***************************************************************************)
(* Every process is a free-running loop of its own.                        *)
(***************************************************************************)
Fairness ==
    /\ WF_vars(BarrierCore) /\ WF_vars(ProgramLoaderHier) /\ WF_vars(HostClear)
    /\ \A k \in Cluster : WF_vars(ClusterBarrierRelay(k)) /\ WF_vars(ClusterRegLoader(k))
    /\ \A k \in Cluster, c \in Member : WF_vars(SchedulerCore(k, c))
    /\ \A k \in Cluster, c \in PIPELINES : WF_vars(ComputePipeline(<<k, c>>))

Spec == Init /\ [][Next]_vars /\ Fairness
-----------------------------------------------------------------------------
TypeOK ==
    /\ \A u \in Unit : /\ Len(loaded_sig[u]) <= 1 /\ Len(sched_events[u]) <= EVENTS_DEPTH
                       /\ Len(sched_signal[u]) <= SIGNAL_DEPTH
                       /\ Len(dispatch_out[u]) <= DISPATCH_DEPTH /\ Len(status[u]) <= DISPATCH_DEPTH
                       /\ \A s \in Slot : slots[u][s].state \in SlotStates
    /\ \A k \in Cluster : /\ Len(cluster_events[k]) <= EVENTS_DEPTH /\ Len(cluster_signal[k]) <= SIGNAL_DEPTH
                          /\ relay[k].pc \in {"events", "fanout"} /\ relay[k].c \in 0 .. CLUSTER_SIZE
                          /\ reg_loader[k].c \in 0 .. CLUSTER_SIZE
    /\ b_pc \in {"poll", "test", "complete", "release", "kernel_done"}

\* The events of a code that wait in the schedulers' streams of cluster k
\* (the member, and the place in its stream), and in the cluster's stream.
WaitingEvents(k, code) ==
    {p \in Member \X (1 .. EVENTS_DEPTH) :
        /\ p[2] \in DOMAIN sched_events[<<k, p[1]>>]
        /\ sched_events[<<k, p[1]>>][p[2]] = code}

RelayedEvents(k, code) == {i \in DOMAIN cluster_events[k] : cluster_events[k][i] = code}

(***************************************************************************)
(* clusterBarrierRelay (cu_cluster.h:38) loses and repeats no event:       *)
(* everything the schedulers of a cluster reported is on its way or was    *)
(* counted by barrierCore, in streams that are full at times.              *)
(***************************************************************************)
EventsConserved ==
    \A k \in Cluster, code \in Codes :
        reported[k][code] = Cardinality(WaitingEvents(k, code))
                            + Cardinality(RelayedEvents(k, code)) + counted[k][code]

(***************************************************************************)
(* clusterBarrierRelay fans every signal of barrierCore out to every       *)
(* scheduler of the cluster, in order (cu_cluster.h:54-62): what a         *)
(* scheduler has not heard yet is in its stream, in the relay's hands or   *)
(* still in the stream to the cluster, whatever the other schedulers do.   *)
(***************************************************************************)
SignalsInStep ==
    \A k \in Cluster, c \in Member :
        SubSeq(sent[k], heard[<<k, c>>] + 1, Len(sent[k]))
            = sched_signal[<<k, c>>]
              \o (IF relay[k].pc = "fanout" /\ relay[k].c <= c THEN <<relay[k].sig>> ELSE << >>)
              \o cluster_signal[k]

\* Every warp of a kernel of t warps is in a unit with a pipeline, and in no
\* other such unit, and no loader meets a seed for a unit without one.
Served(t) ==
    /\ \A w \in 0 .. t - 1 :
        Cardinality({us \in (Cluster \X PIPELINES) \X Slot :
                        LocalWarp(Base(us[1][1]) + us[1][2], us[2]) = w}) = 1
    /\ \A k \in Cluster, c \in Member \ PIPELINES, s \in Slot :
        Base(k) + c + s * NUM_CUS >= t

(***************************************************************************)
(* A kernel whose warps have a pipeline each completes, although the       *)
(* program is loaded behind the schedulers' backs (gpgpu_top.h:185) and    *)
(* units without a pipeline hold warps they never finish.                  *)
(***************************************************************************)
LaunchCompletes ==
    \A n \in 1 .. MAX_LAUNCHES : (launches = n /\ Served(total_warps)) ~> completed >= n

(***************************************************************************)
(* After the last launch every scheduler, those without a pipeline and     *)
(* those that took their token late included, ends in IDLE                 *)
(* (gpgpu_top.h:271 after cu_cluster.h:54-62).                             *)
(***************************************************************************)
SchedulersReturn ==
    completed = MAX_LAUNCHES ~> [](\A u \in Unit : ~running[u])

(***************************************************************************)
(* cu_cluster.h:127-129: base_cu_id is "used so that schedulerCore produces*)
(* correct global warp assignments": no warp is in two slots of the device.*)
(***************************************************************************)
OneSlotPerWarp ==
    \A u, v \in Unit, s, r \in Slot :
        (/\ running[u] /\ running[v] /\ <<u, s>> # <<v, r>>
         /\ slots[u][s].state # "EMPTY" /\ slots[v][r].state # "EMPTY")
            => slots[u][s].warp_id # slots[v][r].warp_id

(***************************************************************************)
(* The streams of a cluster: bounded, and whatever the relay of            *)
(* cu_cluster.h:38-64 does in either direction loses, repeats and reorders *)
(* nothing.                                                                *)
(***************************************************************************)
RelayInv == TypeOK /\ EventsConserved /\ SignalsInStep
=============================================================================
