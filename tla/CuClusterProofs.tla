--------------------------- MODULE CuClusterProofs ---------------------------
(***************************************************************************)
(* Proofs about the hierarchical gpgpu_scheduler, for every size of a      *)
(* cluster, every depth of the streams and any number of launches.         *)
(***************************************************************************)
EXTENDS CuCluster, FiniteSetTheorems, FunctionTheorems, SequenceTheorems, TLAPS

Signals == {"release", "kernel_done", ""}
Dispatch == [slot_id : Slot, warp_id : Nat, resume_pc : Nat, fresh_launch : BOOLEAN]
Status == [slot_id : Slot, code : Codes, resume_pc : Nat]
Counts == [Codes -> Nat]

\* A family of streams of depth n, one for each member of D.
Streams(f, D, S, n) == f \in [D -> Seq(S)] /\ \A d \in D : Len(f[d]) <= n

(***************************************************************************)
(* The types, by the process that owns the state.                          *)
(***************************************************************************)
BarrierTypes ==
    /\ b_pc \in {"poll", "test", "complete", "release", "kernel_done"}
    /\ counted \in [Cluster -> Counts] /\ sent \in [Cluster -> Seq(Signals)]
    /\ program \in Seq({"OP", "BARRIER", "HALT"})

LoadTypes ==
    /\ reg_loader \in [Cluster -> [c : 0 .. CLUSTER_SIZE, blocked : BOOLEAN]]
    /\ Streams(loaded_sig, Unit, BOOLEAN, 1)

RelayTypes == relay \in [Cluster -> [pc : {"events", "fanout"}, c : 0 .. CLUSTER_SIZE, sig : Signals]]

SchedTypes ==
    /\ slots \in [Unit -> [Slot -> WarpSlot]]
    /\ reported \in [Cluster -> Counts] /\ heard \in [Unit -> Nat]

UpTypes ==
    /\ Streams(sched_events, Unit, Codes, EVENTS_DEPTH)
    /\ Streams(cluster_events, Cluster, Codes, EVENTS_DEPTH)

DownTypes ==
    /\ Streams(sched_signal, Unit, Signals, SIGNAL_DEPTH)
    /\ Streams(cluster_signal, Cluster, Signals, SIGNAL_DEPTH)

WorkTypes ==
    /\ Streams(dispatch_out, Unit, Dispatch, DISPATCH_DEPTH)
    /\ Streams(status, Unit, Status, DISPATCH_DEPTH)

ClusterTypes ==
    /\ BarrierTypes /\ LoadTypes /\ RelayTypes /\ SchedTypes
    /\ UpTypes /\ DownTypes /\ WorkTypes
-----------------------------------------------------------------------------
(***************************************************************************)
(* Streams                                                                 *)
(***************************************************************************)
LEMMA StreamEmpty ==
    ASSUME NEW D, NEW S, NEW n \in Nat
    PROVE  Streams([d \in D |-> << >>], D, S, n)
  BY DEF Streams

LEMMA StreamRead ==
    ASSUME NEW D, NEW S, NEW n \in Nat, NEW f, Streams(f, D, S, n), NEW d \in D, f[d] # << >>
    PROVE  Streams([f EXCEPT ![d] = Tail(@)], D, S, n) /\ Head(f[d]) \in S
<1>1. f[d] \in Seq(S) /\ Len(f[d]) <= n
  BY DEF Streams
<1>2. Tail(f[d]) \in Seq(S) /\ Len(Tail(f[d])) <= n /\ Head(f[d]) \in S
  BY <1>1
<1> QED BY <1>2 DEF Streams

LEMMA StreamWrite ==
    ASSUME NEW D, NEW S, NEW n \in Nat, NEW f, Streams(f, D, S, n), NEW d, NEW e \in S,
           Len(f[d]) < n
    PROVE  Streams([f EXCEPT ![d] = Append(@, e)], D, S, n)
<1> SUFFICES ASSUME NEW x \in D
             PROVE  /\ [f EXCEPT ![d] = Append(@, e)][x] \in Seq(S)
                    /\ Len([f EXCEPT ![d] = Append(@, e)][x]) <= n
  BY DEF Streams
<1>1. f[x] \in Seq(S) /\ Len(f[x]) <= n
  BY DEF Streams
<1>2. CASE x = d
  <2>1. Append(f[x], e) \in Seq(S) /\ Len(Append(f[x], e)) <= n
    BY <1>1, <1>2
  <2> QED BY <1>2, <2>1 DEF Streams
<1>3. CASE x # d
  BY <1>1, <1>3 DEF Streams
<1> QED BY <1>2, <1>3

LEMMA UnitParts ==
    /\ \A k \in Cluster, c \in Member : <<k, c>> \in Unit
    /\ \A u \in Unit : u[1] \in Cluster /\ u[2] \in Member
  BY DEF Unit

LEMMA Depths ==
    /\ DISPATCH_DEPTH \in Nat /\ EVENTS_DEPTH \in Nat /\ SIGNAL_DEPTH \in Nat /\ 1 \in Nat
    /\ CLUSTER_SIZE \in Nat
<1>1. NUM_CUS \in Nat /\ NUM_CUS \div 2 \in Nat
  BY WarpSlotsAssumption
<1> QED BY <1>1, ClusterAssumption

LEMMA TypesGiveTypeOK ==
    ASSUME ClusterTypes PROVE TypeOK
<1>1. \A u \in Unit : /\ Len(loaded_sig[u]) <= 1 /\ Len(sched_events[u]) <= EVENTS_DEPTH
                      /\ Len(sched_signal[u]) <= SIGNAL_DEPTH
                      /\ Len(dispatch_out[u]) <= DISPATCH_DEPTH /\ Len(status[u]) <= DISPATCH_DEPTH
  BY DEF ClusterTypes, LoadTypes, UpTypes, DownTypes, WorkTypes, Streams
<1>2. \A u \in Unit, s \in Slot : slots[u][s].state \in SlotStates
  BY DEF ClusterTypes, SchedTypes, WarpSlot
<1>3. \A k \in Cluster : /\ Len(cluster_events[k]) <= EVENTS_DEPTH
                         /\ Len(cluster_signal[k]) <= SIGNAL_DEPTH
  BY DEF ClusterTypes, UpTypes, DownTypes, Streams
<1>4. \A k \in Cluster : /\ relay[k].pc \in {"events", "fanout"} /\ relay[k].c \in 0 .. CLUSTER_SIZE
                         /\ reg_loader[k].c \in 0 .. CLUSTER_SIZE
  BY DEF ClusterTypes, RelayTypes, LoadTypes
<1>5. b_pc \in {"poll", "test", "complete", "release", "kernel_done"}
  BY DEF ClusterTypes, BarrierTypes
<1> QED BY <1>1, <1>2, <1>3, <1>4, <1>5 DEF TypeOK

\* A part whose state a step leaves alone keeps its type.
LEMMA TypesKept ==
    ASSUME ClusterTypes
    PROVE  /\ UNCHANGED <<b_pc, counted, sent, program>> => BarrierTypes'
           /\ UNCHANGED <<reg_loader, loaded_sig>> => LoadTypes'
           /\ UNCHANGED relay => RelayTypes'
           /\ UNCHANGED <<slots, reported, heard>> => SchedTypes'
           /\ UNCHANGED upVars => UpTypes'
           /\ UNCHANGED downVars => DownTypes'
           /\ UNCHANGED workVars => WorkTypes'
  BY DEF ClusterTypes, BarrierTypes, LoadTypes, RelayTypes, SchedTypes, UpTypes, DownTypes,
         WorkTypes, upVars, downVars, workVars

LEMMA InitTypes == Init => ClusterTypes
<1> SUFFICES ASSUME Init PROVE ClusterTypes
  OBVIOUS
<1>1. NewSlot \in WarpSlot
  BY DEF NewSlot, WarpSlot, SlotStates
<1>2. NoCounts \in Counts
  BY DEF NoCounts, Counts
<1>3. BarrierTypes
  <2>1. << >> \in Seq(Signals) /\ << >> \in Seq({"OP", "BARRIER", "HALT"})
    OBVIOUS
  <2> QED BY <1>2, <2>1 DEF Init, BarrierTypes
<1>4. LoadTypes
  <2>1. 0 \in 0 .. CLUSTER_SIZE
    BY Depths
  <2>2. reg_loader \in [Cluster -> [c : 0 .. CLUSTER_SIZE, blocked : BOOLEAN]]
    BY <2>1 DEF Init
  <2>3. Streams(loaded_sig, Unit, BOOLEAN, 1)
    BY Depths, StreamEmpty DEF Init
  <2> QED BY <2>2, <2>3 DEF LoadTypes
<1>5. RelayTypes
  <2>1. 0 \in 0 .. CLUSTER_SIZE
    BY Depths
  <2> QED BY <2>1 DEF Init, RelayTypes, Signals
<1>6. SchedTypes
  BY <1>1, <1>2 DEF Init, SchedTypes
<1>7. UpTypes /\ DownTypes /\ WorkTypes
  BY Depths, StreamEmpty DEF Init, UpTypes, DownTypes, WorkTypes
<1> QED BY <1>3, <1>4, <1>5, <1>6, <1>7 DEF ClusterTypes

LEMMA SlotOperators ==
    ASSUME NEW sl \in [Slot -> WarpSlot]
    PROVE  /\ \A c \in Nat : \A t : LaunchSlots(sl, c, t) \in [Slot -> WarpSlot]
           /\ \A s \in Slot : ClearFresh(sl, s) \in [Slot -> WarpSlot]
           /\ \A s \in Slot : BuildDispatch(sl, s) \in Dispatch
           /\ \A st \in Status : RecordResult(sl, st) \in [Slot -> WarpSlot]
           /\ ReleaseBarrierSlots(sl) \in [Slot -> WarpSlot]
<1>1. ASSUME NEW c \in Nat, NEW t
      PROVE  LaunchSlots(sl, c, t) \in [Slot -> WarpSlot]
  <2> SUFFICES ASSUME NEW s \in Slot PROVE AssignSlot(sl[s], s, c, t) \in WarpSlot
    BY DEF LaunchSlots
  <2>1. CuId(c) \in Nat
    BY WarpSlotsAssumption DEF CuId
  <2>2. s \in Nat /\ s * NUM_CUS \in Nat
    BY WarpSlotsAssumption DEF Slot
  <2>3. LocalWarp(c, s) \in Nat
    BY <2>1, <2>2 DEF LocalWarp
  <2> QED BY <2>3 DEF AssignSlot, WarpSlot, SlotStates
<1>2. ASSUME NEW s \in Slot PROVE ClearFresh(sl, s) \in [Slot -> WarpSlot]
  BY DEF ClearFresh, WarpSlot
<1>3. ASSUME NEW s \in Slot PROVE BuildDispatch(sl, s) \in Dispatch
  BY DEF BuildDispatch, Dispatch, WarpSlot
<1>4. ASSUME NEW st \in Status PROVE RecordResult(sl, st) \in [Slot -> WarpSlot]
  <2>1. st.slot_id \in Slot /\ st.resume_pc \in Nat
    BY DEF Status
  <2>2. ASSUME NEW s \in Slot
        PROVE  /\ [sl[s] EXCEPT !.state = "DONE"] \in WarpSlot
               /\ [sl[s] EXCEPT !.state = "STALLED", !.resume_pc = st.resume_pc] \in WarpSlot
    BY <2>1 DEF WarpSlot, SlotStates
  <2>3. CASE st.code = "COMPLETE"
    BY <2>1, <2>2, <2>3 DEF RecordResult
  <2>4. CASE st.code # "COMPLETE"
    <3>1. RecordResult(sl, st) =
            [sl EXCEPT ![st.slot_id] = [sl[st.slot_id] EXCEPT !.state = "STALLED",
                                                              !.resume_pc = st.resume_pc]]
      BY <2>1, <2>4 DEF RecordResult
    <3> QED BY <2>1, <2>2, <3>1
  <2> QED BY <2>3, <2>4
<1>5. ReleaseBarrierSlots(sl) \in [Slot -> WarpSlot]
  BY DEF ReleaseBarrierSlots, WarpSlot, SlotStates
<1> QED BY <1>1, <1>2, <1>3, <1>4, <1>5

LEMMA HostStep ==
    ASSUME ClusterTypes, (\E p \in Programs, t \in WarpCounts : HostStart(p, t)) \/ HostClear
    PROVE  ClusterTypes'
<1>1. BarrierTypes'
  BY ClusterAssumption DEF HostStart, HostClear, barrierVars, BarrierTypes, ClusterTypes
<1>2. UNCHANGED <<loadVars, relay, schedVars, upVars, downVars, workVars, loaded_sig>>
  BY DEF HostStart, HostClear
<1> QED BY <1>1, <1>2, TypesKept DEF ClusterTypes, loadVars, schedVars

LEMMA BarrierPollTypes ==
    ASSUME ClusterTypes, NEW k \in Cluster, BarrierPoll(k)
    PROVE  ClusterTypes'
<1>1. PICK code \in Codes : code = Head(cluster_events[k])
  BY Depths, StreamRead DEF BarrierPoll, ClusterTypes, UpTypes
<1>2. counted' = [counted EXCEPT ![k][code] = @ + 1]
  BY <1>1 DEF BarrierPoll
<1>3. counted' \in [Cluster -> Counts]
  BY <1>2 DEF ClusterTypes, BarrierTypes, Counts
<1>4. BarrierTypes'
  BY <1>3 DEF BarrierPoll, hostVars, ClusterTypes, BarrierTypes
<1>5. UpTypes'
  <2>1. cluster_events[k] # << >> /\ cluster_events' = [cluster_events EXCEPT ![k] = Tail(@)]
        /\ sched_events' = sched_events
    BY DEF BarrierPoll
  <2>2. Streams(cluster_events, Cluster, Codes, EVENTS_DEPTH)
    BY DEF ClusterTypes, UpTypes
  <2>3. Streams(cluster_events', Cluster, Codes, EVENTS_DEPTH)
    BY <2>1, <2>2, Depths, StreamRead
  <2> QED BY <2>1, <2>3 DEF UpTypes, ClusterTypes
<1>6. UNCHANGED <<loadVars, relay, schedVars, downVars, workVars, loaded_sig>>
  BY DEF BarrierPoll
<1> QED BY <1>4, <1>5, <1>6, TypesKept DEF ClusterTypes, loadVars, schedVars

LEMMA BarrierSignalTypes ==
    ASSUME ClusterTypes,
           BarrierSignal("release", "complete") \/ BarrierSignal("kernel_done", "poll")
    PROVE  ClusterTypes'
<1>1. PICK sig \in Signals :
          /\ Len(cluster_signal[b_k]) < SIGNAL_DEPTH
          /\ cluster_signal' = [cluster_signal EXCEPT ![b_k] = Append(@, sig)]
          /\ sent' = [sent EXCEPT ![b_k] = Append(@, sig)]
          /\ b_pc' \in {"poll", "complete", "release", "kernel_done"}
          /\ UNCHANGED <<counted, sched_signal>>
  BY DEF BarrierSignal, Signals
<1>2. sent' \in [Cluster -> Seq(Signals)]
  <2>1. sent \in [Cluster -> Seq(Signals)]
    BY DEF ClusterTypes, BarrierTypes
  <2>2. \A k \in Cluster : Append(sent[k], sig) \in Seq(Signals)
    BY <2>1
  <2> QED BY <1>1, <2>1, <2>2
<1>3. BarrierTypes'
  BY <1>1, <1>2 DEF BarrierSignal, hostVars, ClusterTypes, BarrierTypes
<1>4. DownTypes'
  <2>1. Streams(cluster_signal, Cluster, Signals, SIGNAL_DEPTH)
    BY DEF ClusterTypes, DownTypes
  <2>2. Streams(cluster_signal', Cluster, Signals, SIGNAL_DEPTH)
    BY <1>1, <2>1, Depths, StreamWrite
  <2> QED BY <1>1, <2>2 DEF DownTypes, ClusterTypes
<1>5. UNCHANGED <<loadVars, relay, schedVars, upVars, workVars, loaded_sig>>
  BY DEF BarrierSignal
<1> QED BY <1>3, <1>4, <1>5, TypesKept DEF ClusterTypes, loadVars, schedVars

LEMMA BarrierTypesStep ==
    ASSUME ClusterTypes, BarrierCore
    PROVE  ClusterTypes'
<1>1. CASE BarrierLaunch \/ BarrierTest
  <2>1. BarrierTypes'
    BY <1>1 DEF BarrierLaunch, BarrierTest, hostVars, ClusterTypes, BarrierTypes
  <2>2. UNCHANGED <<loadVars, relay, schedVars, upVars, downVars, workVars, loaded_sig>>
    BY <1>1 DEF BarrierLaunch, BarrierTest
  <2> QED BY <2>1, <2>2, TypesKept DEF ClusterTypes, loadVars, schedVars
<1> QED BY <1>1, BarrierPollTypes, BarrierSignalTypes DEF BarrierCore

LEMMA RelayTypesStep ==
    ASSUME ClusterTypes, NEW k \in Cluster, ClusterBarrierRelay(k)
    PROVE  ClusterTypes'
<1>1. UNCHANGED <<hostVars, barrierVars, loadVars, schedVars, workVars, loaded_sig>>
  BY DEF ClusterBarrierRelay
<1>2. BarrierTypes' /\ LoadTypes' /\ SchedTypes' /\ WorkTypes'
  BY <1>1, TypesKept DEF hostVars, barrierVars, loadVars, schedVars
<1>3. relay \in [Cluster -> [pc : {"events", "fanout"}, c : 0 .. CLUSTER_SIZE, sig : Signals]]
  BY DEF ClusterTypes, RelayTypes
<1>4. Round \in [pc : {"events", "fanout"}, c : 0 .. CLUSTER_SIZE, sig : Signals]
  BY Depths DEF Round, Signals
<1>5. ASSUME NEW c \in Member, RelayEvent(k, c) PROVE RelayTypes' /\ UpTypes' /\ DownTypes'
  <2>1. PICK u \in Unit : u = <<k, c>>
    BY UnitParts
  <2>2. /\ sched_events[u] # << >> /\ sched_events' = [sched_events EXCEPT ![u] = Tail(@)]
        /\ Len(cluster_events[k]) < EVENTS_DEPTH
        /\ cluster_events' = [cluster_events EXCEPT ![k] = Append(@, Head(sched_events[u]))]
        /\ relay' = [relay EXCEPT ![k].c = c + 1] /\ UNCHANGED downVars
    BY <1>5, <2>1 DEF RelayEvent
  <2>3. /\ Streams(sched_events, Unit, Codes, EVENTS_DEPTH)
        /\ Streams(cluster_events, Cluster, Codes, EVENTS_DEPTH)
    BY DEF ClusterTypes, UpTypes
  <2>4. Streams(sched_events', Unit, Codes, EVENTS_DEPTH) /\ Head(sched_events[u]) \in Codes
    BY <2>2, <2>3, Depths, StreamRead
  <2>5. Streams(cluster_events', Cluster, Codes, EVENTS_DEPTH)
    BY <2>2, <2>3, <2>4, Depths, StreamWrite
  <2>6. c + 1 \in 0 .. CLUSTER_SIZE
    BY Depths DEF Member
  <2>7. RelayTypes'
    BY <1>3, <2>2, <2>6 DEF RelayTypes
  <2> QED BY <2>2, <2>4, <2>5, <2>7, TypesKept DEF UpTypes
<1>6. ASSUME RelayTake(k) PROVE RelayTypes' /\ UpTypes' /\ DownTypes'
  <2>1. UNCHANGED <<upVars, sched_signal>>
    BY <1>6 DEF RelayTake
  <2>2. Streams(cluster_signal, Cluster, Signals, SIGNAL_DEPTH)
    BY DEF ClusterTypes, DownTypes
  <2>3. CASE cluster_signal[k] = << >>
    <3>1. relay' = [relay EXCEPT ![k] = Round] /\ UNCHANGED cluster_signal
      BY <1>6, <2>3 DEF RelayTake
    <3>2. RelayTypes'
      BY <1>3, <1>4, <3>1 DEF RelayTypes
    <3> QED BY <2>1, <3>1, <3>2, TypesKept DEF downVars
  <2>4. CASE cluster_signal[k] # << >>
    <3>1. /\ relay' = [relay EXCEPT ![k] = [pc |-> "fanout", c |-> 0, sig |-> Head(cluster_signal[k])]]
          /\ cluster_signal' = [cluster_signal EXCEPT ![k] = Tail(@)]
      BY <1>6, <2>4 DEF RelayTake
    <3>2. Streams(cluster_signal', Cluster, Signals, SIGNAL_DEPTH) /\ Head(cluster_signal[k]) \in Signals
      BY <2>2, <2>4, <3>1, Depths, StreamRead
    <3>3. [pc |-> "fanout", c |-> 0, sig |-> Head(cluster_signal[k])]
             \in [pc : {"events", "fanout"}, c : 0 .. CLUSTER_SIZE, sig : Signals]
      BY <3>2, Depths
    <3>4. RelayTypes'
      BY <1>3, <3>1, <3>3 DEF RelayTypes
    <3> QED BY <2>1, <3>2, <3>4, TypesKept DEF DownTypes, ClusterTypes
  <2> QED BY <2>3, <2>4
<1>7. ASSUME RelayFanout(k) PROVE RelayTypes' /\ UpTypes' /\ DownTypes'
  <2>1. PICK c, sig : c = relay[k].c /\ sig = relay[k].sig
    OBVIOUS
  <2>2. /\ Len(sched_signal[<<k, c>>]) < SIGNAL_DEPTH
        /\ sched_signal' = [sched_signal EXCEPT ![<<k, c>>] = Append(@, sig)]
        /\ relay' = [relay EXCEPT ![k] = IF c + 1 < CLUSTER_SIZE THEN [@ EXCEPT !.c = c + 1] ELSE Round]
        /\ UNCHANGED <<upVars, cluster_signal>>
    BY <1>7, <2>1 DEF RelayFanout
  <2>3. sig \in Signals /\ c \in 0 .. CLUSTER_SIZE
    BY <1>3, <2>1
  <2>4. Streams(sched_signal, Unit, Signals, SIGNAL_DEPTH)
    BY DEF ClusterTypes, DownTypes
  <2>5. Streams(sched_signal', Unit, Signals, SIGNAL_DEPTH)
    BY <2>2, <2>3, <2>4, Depths, StreamWrite
  <2>6. c + 1 < CLUSTER_SIZE => c + 1 \in 0 .. CLUSTER_SIZE
    BY <2>3, Depths
  <2>7. RelayTypes'
    BY <1>3, <1>4, <2>2, <2>6 DEF RelayTypes
  <2> QED BY <2>2, <2>5, <2>7, TypesKept DEF DownTypes, ClusterTypes
<1> QED BY <1>2, <1>5, <1>6, <1>7 DEF ClusterBarrierRelay, ClusterTypes

LEMMA LoaderTypesStep ==
    ASSUME ClusterTypes, ProgramLoaderHier \/ \E k \in Cluster : ClusterRegLoader(k)
    PROVE  ClusterTypes'
<1>1. UNCHANGED <<hostVars, barrierVars, relay, schedVars, upVars, downVars, workVars>>
  BY DEF ProgramLoaderHier, ClusterRegLoader
<1>2. BarrierTypes' /\ RelayTypes' /\ SchedTypes' /\ UpTypes' /\ DownTypes' /\ WorkTypes'
  BY <1>1, TypesKept DEF hostVars, barrierVars, schedVars
<1>3. /\ reg_loader \in [Cluster -> [c : 0 .. CLUSTER_SIZE, blocked : BOOLEAN]]
      /\ Streams(loaded_sig, Unit, BOOLEAN, 1)
  BY DEF ClusterTypes, LoadTypes
<1>4. CASE ProgramLoaderHier
  BY <1>2, <1>4, TypesKept DEF ProgramLoaderHier, ClusterTypes
<1>5. ASSUME NEW k \in Cluster, ClusterRegLoader(k) PROVE LoadTypes'
  <2>1. PICK c \in 0 .. CLUSTER_SIZE : c = reg_loader[k].c
    BY <1>3
  <2>2. CASE UNCHANGED loaded_sig
    <3>1. \/ reg_loader' = [reg_loader EXCEPT ![k].c = 0]
          \/ reg_loader' = [reg_loader EXCEPT ![k].blocked = TRUE]
          \/ c < CLUSTER_SIZE /\ loaded_sig[<<k, c>>] = << >>
             /\ reg_loader' = [reg_loader EXCEPT ![k].c = @ + 1]
      BY <1>5, <2>1 DEF ClusterRegLoader, RegLoaderToken
    <3>2. c < CLUSTER_SIZE => c + 1 \in 0 .. CLUSTER_SIZE
      BY Depths
    <3>3. 0 \in 0 .. CLUSTER_SIZE
      BY Depths
    <3>4. reg_loader' \in [Cluster -> [c : 0 .. CLUSTER_SIZE, blocked : BOOLEAN]]
      BY <1>3, <2>1, <3>1, <3>2, <3>3
    <3> QED BY <1>3, <2>2, <3>4 DEF LoadTypes
  <2>3. CASE ~ UNCHANGED loaded_sig
    <3>1. /\ c < CLUSTER_SIZE /\ loaded_sig' = [loaded_sig EXCEPT ![<<k, c>>] = <<TRUE>>]
          /\ reg_loader' = [reg_loader EXCEPT ![k].c = @ + 1]
      BY <1>5, <2>1, <2>3 DEF ClusterRegLoader, RegLoaderToken
    <3>2. c + 1 \in 0 .. CLUSTER_SIZE
      BY <3>1, Depths
    <3>3. reg_loader' \in [Cluster -> [c : 0 .. CLUSTER_SIZE, blocked : BOOLEAN]]
      BY <1>3, <2>1, <3>1, <3>2
    <3>4. <<TRUE>> \in Seq(BOOLEAN) /\ Len(<<TRUE>>) <= 1
      OBVIOUS
    <3>5. Streams(loaded_sig', Unit, BOOLEAN, 1)
      BY <1>3, <3>1, <3>4 DEF Streams
    <3> QED BY <3>3, <3>5 DEF LoadTypes
  <2> QED BY <2>2, <2>3
<1> QED BY <1>2, <1>4, <1>5 DEF ClusterTypes

LEMMA SchedTypesStep ==
    ASSUME ClusterTypes, NEW k \in Cluster, NEW c \in Member, SchedulerCore(k, c)
    PROVE  ClusterTypes'
<1>1. PICK u \in Unit : u = <<k, c>> /\ u[1] = k
  BY UnitParts
<1>2. UNCHANGED <<hostVars, barrierVars, loadVars, relay>>
  BY DEF SchedulerCore
<1>3. BarrierTypes' /\ RelayTypes'
  BY <1>2, TypesKept DEF hostVars, barrierVars
<1>4. /\ slots \in [Unit -> [Slot -> WarpSlot]] /\ slots[u] \in [Slot -> WarpSlot]
      /\ reported \in [Cluster -> Counts] /\ heard \in [Unit -> Nat]
  BY DEF ClusterTypes, SchedTypes
<1>5. CASE SchedLaunch(k, c)
  <2>1. /\ loaded_sig[u] # << >> /\ loaded_sig' = [loaded_sig EXCEPT ![u] = Tail(@)]
        /\ slots' = [slots EXCEPT ![u] = LaunchSlots(@, Base(k) + c, total_warps)]
        /\ UNCHANGED <<reported, heard, upVars, downVars, workVars>>
    BY <1>1, <1>5 DEF SchedLaunch
  <2>2. Streams(loaded_sig, Unit, BOOLEAN, 1)
    BY DEF ClusterTypes, LoadTypes
  <2>3. Streams(loaded_sig', Unit, BOOLEAN, 1)
    BY <2>1, <2>2, Depths, StreamRead
  <2>4. LoadTypes'
    BY <1>2, <2>3 DEF LoadTypes, ClusterTypes, loadVars
  <2>5. Base(k) + c \in Nat
    <3>1. k * CLUSTER_SIZE \in Nat
      BY Depths DEF Cluster
    <3>2. Base(k) \in Nat
      BY <3>1, WarpSlotsAssumption DEF Base, CuId
    <3> QED BY <3>2, Depths DEF Member
  <2>6. slots' \in [Unit -> [Slot -> WarpSlot]]
    BY <1>4, <2>1, <2>5, SlotOperators
  <2>7. SchedTypes'
    BY <1>4, <2>1, <2>6 DEF SchedTypes
  <2> QED BY <1>3, <2>1, <2>4, <2>7, TypesKept DEF ClusterTypes
<1>6. ASSUME NEW s \in Slot, SchedDispatch(u, s) PROVE ClusterTypes'
  <2>1. /\ Len(dispatch_out[u]) < DISPATCH_DEPTH
        /\ dispatch_out' = [dispatch_out EXCEPT ![u] = Append(@, BuildDispatch(slots[u], s))]
        /\ slots' = [slots EXCEPT ![u] = ClearFresh(@, s)]
        /\ UNCHANGED <<reported, heard, upVars, downVars, status, loaded_sig>>
    BY <1>6 DEF SchedDispatch
  <2>2. BuildDispatch(slots[u], s) \in Dispatch /\ ClearFresh(slots[u], s) \in [Slot -> WarpSlot]
    BY <1>4, SlotOperators
  <2>3. Streams(dispatch_out, Unit, Dispatch, DISPATCH_DEPTH)
    BY DEF ClusterTypes, WorkTypes
  <2>4. Streams(dispatch_out', Unit, Dispatch, DISPATCH_DEPTH)
    BY <2>1, <2>2, <2>3, Depths, StreamWrite
  <2>5. SchedTypes'
    BY <1>4, <2>1, <2>2 DEF SchedTypes
  <2>6. WorkTypes'
    BY <2>1, <2>4 DEF WorkTypes, ClusterTypes
  <2> QED BY <1>2, <1>3, <2>1, <2>5, <2>6, TypesKept DEF ClusterTypes, loadVars
<1>7. CASE SchedStatus(u)
  <2>1. /\ status[u] # << >> /\ status' = [status EXCEPT ![u] = Tail(@)]
        /\ Len(sched_events[u]) < EVENTS_DEPTH
        /\ slots' = [slots EXCEPT ![u] = RecordResult(@, Head(status[u]))]
        /\ sched_events' = [sched_events EXCEPT ![u] = Append(@, Head(status[u]).code)]
        /\ reported' = [reported EXCEPT ![u[1]][Head(status[u]).code] = @ + 1]
        /\ UNCHANGED <<heard, cluster_events, downVars, dispatch_out, loaded_sig>>
    BY <1>7 DEF SchedStatus
  <2>2. Streams(status, Unit, Status, DISPATCH_DEPTH) /\ Streams(sched_events, Unit, Codes, EVENTS_DEPTH)
    BY DEF ClusterTypes, WorkTypes, UpTypes
  <2>3. Streams(status', Unit, Status, DISPATCH_DEPTH) /\ Head(status[u]) \in Status
    BY <2>1, <2>2, Depths, StreamRead
  <2>4. PICK code \in Codes : code = Head(status[u]).code
    BY <2>3 DEF Status
  <2>5. Streams(sched_events', Unit, Codes, EVENTS_DEPTH)
    BY <2>1, <2>2, <2>4, Depths, StreamWrite
  <2>6. RecordResult(slots[u], Head(status[u])) \in [Slot -> WarpSlot]
    BY <1>4, <2>3, SlotOperators
  <2>7. reported' \in [Cluster -> Counts]
    BY <1>1, <1>4, <2>1, <2>4 DEF Counts
  <2>8. SchedTypes'
    BY <1>4, <2>1, <2>6, <2>7 DEF SchedTypes
  <2>9. UpTypes' /\ WorkTypes'
    BY <2>1, <2>3, <2>5 DEF UpTypes, WorkTypes, ClusterTypes
  <2> QED BY <1>2, <1>3, <2>1, <2>8, <2>9, TypesKept DEF ClusterTypes, loadVars
<1>8. CASE SchedSignal(u)
  <2>1. UNCHANGED <<reported, upVars, cluster_signal, workVars, loaded_sig>>
    BY <1>8 DEF SchedSignal
  <2>2. CASE sched_signal[u] = << >>
    <3>1. UNCHANGED <<slots, heard, sched_signal>>
      BY <1>8, <2>2 DEF SchedSignal
    <3> QED BY <1>2, <1>3, <2>1, <3>1, TypesKept DEF ClusterTypes, loadVars, downVars
  <2>3. CASE sched_signal[u] # << >>
    <3>1. /\ sched_signal' = [sched_signal EXCEPT ![u] = Tail(@)]
          /\ heard' = [heard EXCEPT ![u] = @ + 1]
          /\ slots' = [slots EXCEPT ![u] = ReleaseBarrierSlots(@)] \/ UNCHANGED slots
      BY <1>8, <2>3 DEF SchedSignal
    <3>2. Streams(sched_signal, Unit, Signals, SIGNAL_DEPTH)
      BY DEF ClusterTypes, DownTypes
    <3>3. Streams(sched_signal', Unit, Signals, SIGNAL_DEPTH)
      BY <2>3, <3>1, <3>2, Depths, StreamRead
    <3>4. slots' \in [Unit -> [Slot -> WarpSlot]]
      BY <1>4, <3>1, SlotOperators
    <3>5. SchedTypes'
      <4>1. heard' \in [Unit -> Nat]
        BY <1>4, <3>1
      <4> QED BY <1>4, <2>1, <3>4, <4>1 DEF SchedTypes
    <3>6. DownTypes'
      BY <2>1, <3>3 DEF DownTypes, ClusterTypes
    <3> QED BY <1>2, <1>3, <2>1, <3>5, <3>6, TypesKept DEF ClusterTypes, loadVars
  <2> QED BY <2>2, <2>3
<1> QED BY <1>1, <1>5, <1>6, <1>7, <1>8 DEF SchedulerCore

LEMMA ComputeTypesStep ==
    ASSUME ClusterTypes, NEW k \in Cluster, NEW c \in PIPELINES, ComputePipeline(<<k, c>>)
    PROVE  ClusterTypes'
<1>1. PICK u \in Unit : u = <<k, c>>
  BY UnitParts, ClusterAssumption
<1>2. /\ dispatch_out[u] # << >> /\ Len(status[u]) < DISPATCH_DEPTH
      /\ dispatch_out' = [dispatch_out EXCEPT ![u] = Tail(@)]
      /\ UNCHANGED <<hostVars, barrierVars, loadVars, relay, schedVars, upVars, downVars, loaded_sig>>
  BY <1>1 DEF ComputePipeline
<1>3. Streams(dispatch_out, Unit, Dispatch, DISPATCH_DEPTH) /\ Streams(status, Unit, Status, DISPATCH_DEPTH)
  BY DEF ClusterTypes, WorkTypes
<1>4. Streams(dispatch_out', Unit, Dispatch, DISPATCH_DEPTH) /\ Head(dispatch_out[u]) \in Dispatch
  BY <1>2, <1>3, Depths, StreamRead
<1>5. PICK d \in Dispatch : d = Head(dispatch_out[u])
  BY <1>4
<1>6. PICK st \in Outcomes(d) : status' = [status EXCEPT ![u] = Append(@, st)]
  BY <1>1, <1>5 DEF ComputePipeline
<1>7. st \in Status
  <2>1. d.slot_id \in Slot /\ d.resume_pc \in Nat /\ Len(program) \in Nat
    BY DEF Dispatch, ClusterTypes, BarrierTypes
  <2>2. \/ \E i \in d.resume_pc .. Len(program) - 1 :
              st = [slot_id |-> d.slot_id, code |-> "STALLED_AT_BARRIER", resume_pc |-> i + 1]
        \/ st = [slot_id |-> d.slot_id, code |-> "COMPLETE", resume_pc |-> 0]
    BY DEF Outcomes
  <2> QED BY <2>1, <2>2 DEF Status, Codes
<1>8. Streams(status', Unit, Status, DISPATCH_DEPTH)
  BY <1>2, <1>3, <1>6, <1>7, Depths, StreamWrite
<1>9. WorkTypes'
  BY <1>4, <1>8 DEF WorkTypes
<1> QED BY <1>2, <1>9, TypesKept DEF ClusterTypes, hostVars, barrierVars, loadVars, schedVars

LEMMA NextTypes == ClusterTypes /\ [Next]_vars => ClusterTypes'
<1> SUFFICES ASSUME ClusterTypes, [Next]_vars PROVE ClusterTypes'
  OBVIOUS
<1>1. CASE UNCHANGED vars
  BY <1>1, TypesKept DEF vars, hostVars, barrierVars, loadVars, schedVars, ClusterTypes
<1> QED BY <1>1, HostStep, BarrierTypesStep, RelayTypesStep, LoaderTypesStep, SchedTypesStep,
           ComputeTypesStep DEF Next
-----------------------------------------------------------------------------
(***************************************************************************)
(* Counting the events of a code.  At counts in one stream, Spots in the   *)
(* streams of all members.                                                 *)
(***************************************************************************)
At(q, code) == {i \in DOMAIN q : q[i] = code}

Spots(f, code) ==
    {p \in Member \X (1 .. EVENTS_DEPTH) : p[2] \in DOMAIN f[p[1]] /\ f[p[1]][p[2]] = code}

One(x, code) == IF x = code THEN 1 ELSE 0

LEMMA Matched ==
    ASSUME NEW S, NEW T, NEW F \in [S -> T], IsFiniteSet(S),
           \A a, b \in S : F[a] = F[b] => a = b,
           \A t \in T : \E a \in S : F[a] = t
    PROVE  Cardinality(T) = Cardinality(S)
<1>1. F \in Bijection(S, T)
  BY Fun_IsBij
<1> QED BY <1>1, FS_Bijection DEF ExistsBijection

LEMMA AtFinite ==
    ASSUME NEW q \in Seq(Codes), NEW code
    PROVE  IsFiniteSet(At(q, code)) /\ Cardinality(At(q, code)) \in Nat
<1>1. DOMAIN q = 1 .. Len(q) /\ Len(q) \in Nat
  OBVIOUS
<1>2. IsFiniteSet(DOMAIN q)
  BY <1>1, FS_Interval
<1>3. At(q, code) \in SUBSET (DOMAIN q)
  BY DEF At
<1> QED BY <1>2, <1>3, FS_Subset, FS_CardinalityType

LEMMA SpotsFinite ==
    ASSUME NEW f, NEW code
    PROVE  IsFiniteSet(Spots(f, code)) /\ Cardinality(Spots(f, code)) \in Nat
<1>1. IsFiniteSet(Member) /\ IsFiniteSet(1 .. EVENTS_DEPTH)
  BY Depths, FS_Interval DEF Member
<1>2. IsFiniteSet(Member \X (1 .. EVENTS_DEPTH))
  BY <1>1, FS_Product
<1>3. Spots(f, code) \in SUBSET (Member \X (1 .. EVENTS_DEPTH))
  BY DEF Spots
<1> QED BY <1>2, <1>3, FS_Subset, FS_CardinalityType

LEMMA AppendIndex ==
    ASSUME NEW S, NEW q \in Seq(S), NEW x \in S
    PROVE  /\ DOMAIN q = 1 .. Len(q) /\ DOMAIN Append(q, x) = 1 .. Len(q) + 1 /\ Len(q) \in Nat
           /\ \A i \in 1 .. Len(q) : Append(q, x)[i] = q[i]
           /\ Append(q, x)[Len(q) + 1] = x
  OBVIOUS

LEMMA TailIndex ==
    ASSUME NEW S, NEW q \in Seq(S), q # << >>
    PROVE  /\ DOMAIN q = 1 .. Len(q) /\ DOMAIN Tail(q) = 1 .. Len(q) - 1
           /\ Len(q) \in Nat /\ Len(q) > 0 /\ Head(q) = q[1]
           /\ \A i \in 1 .. Len(q) - 1 : Tail(q)[i] = q[i + 1]
  OBVIOUS

LEMMA AtAppend ==
    ASSUME NEW q \in Seq(Codes), NEW x \in Codes, NEW code
    PROVE  Cardinality(At(Append(q, x), code)) = Cardinality(At(q, code)) + One(x, code)
<1>1. PICK n, r : n = Len(q) /\ r = Append(q, x) /\ n \in Nat
  BY AppendIndex
<1>2. /\ DOMAIN q = 1 .. n /\ DOMAIN r = 1 .. n + 1
      /\ \A i \in 1 .. n : r[i] = q[i]
      /\ r[n + 1] = x
  BY <1>1, AppendIndex
<1>3. \A i \in 1 .. n + 1 : i \in 1 .. n \/ i = n + 1
  BY <1>1
<1>4. n + 1 \in 1 .. n + 1 /\ n + 1 \notin 1 .. n /\ \A i \in 1 .. n : i \in 1 .. n + 1
  BY <1>1
<1>5. CASE x = code
  <2>1. At(r, code) = At(q, code) \cup {n + 1} /\ n + 1 \notin At(q, code)
    BY <1>2, <1>3, <1>4, <1>5 DEF At
  <2> QED BY <1>1, <1>5, <2>1, AtFinite, FS_AddElement DEF One
<1>6. CASE x # code
  <2>1. At(r, code) = At(q, code)
    BY <1>2, <1>3, <1>4, <1>6 DEF At
  <2> QED BY <1>1, <1>6, <2>1, AtFinite DEF One
<1> QED BY <1>5, <1>6

LEMMA AtTail ==
    ASSUME NEW q \in Seq(Codes), q # << >>, NEW code
    PROVE  Cardinality(At(q, code)) = Cardinality(At(Tail(q), code)) + One(Head(q), code)
<1>1. PICK n, r : n = Len(q) /\ r = Tail(q) /\ n \in Nat
  BY TailIndex
<1>2. /\ DOMAIN q = 1 .. n /\ DOMAIN r = 1 .. n - 1 /\ n > 0 /\ Head(q) = q[1]
      /\ \A i \in 1 .. n - 1 : r[i] = q[i + 1]
  BY <1>1, TailIndex
<1> DEFINE F == [i \in At(r, code) |-> i + 1]
<1>3. F \in [At(r, code) -> At(q, code) \ {1}]
  BY <1>1, <1>2 DEF At
<1>4. \A i, j \in At(r, code) : F[i] = F[j] => i = j
  BY <1>2 DEF At
<1>5. \A t \in At(q, code) \ {1} : \E i \in At(r, code) : F[i] = t
  <2> SUFFICES ASSUME NEW t \in At(q, code) \ {1} PROVE t - 1 \in At(r, code) /\ F[t - 1] = t
    OBVIOUS
  <2> QED BY <1>1, <1>2 DEF At
<1>6. IsFiniteSet(At(r, code)) /\ IsFiniteSet(At(q, code)) /\ Cardinality(At(q, code)) \in Nat
  <2>1. r \in Seq(Codes)
    BY <1>1
  <2> QED BY <2>1, AtFinite
<1> HIDE DEF F
<1>7. Cardinality(At(q, code) \ {1}) = Cardinality(At(r, code))
  BY <1>3, <1>4, <1>5, <1>6, Matched
<1>8. 1 \in At(q, code) <=> Head(q) = code
  BY <1>1, <1>2 DEF At
<1>9. Cardinality(At(q, code) \ {1}) =
          IF 1 \in At(q, code) THEN Cardinality(At(q, code)) - 1 ELSE Cardinality(At(q, code))
  BY <1>6, FS_RemoveElement
<1> QED BY <1>1, <1>6, <1>7, <1>8, <1>9 DEF One

LEMMA Spot ==
    ASSUME NEW c \in Member, NEW i \in 1 .. EVENTS_DEPTH
    PROVE  \E z \in Member \X (1 .. EVENTS_DEPTH) : z = <<c, i>> /\ z[1] = c /\ z[2] = i
<1>1. <<c, i>> \in Member \X (1 .. EVENTS_DEPTH)
  OBVIOUS
<1>2. <<c, i>>[1] = c /\ <<c, i>>[2] = i
  OBVIOUS
<1> QED BY <1>1, <1>2

LEMMA SpotsAppend ==
    ASSUME NEW f, Streams(f, Member, Codes, EVENTS_DEPTH), NEW c \in Member, NEW x \in Codes,
           Len(f[c]) < EVENTS_DEPTH, NEW g, g[c] = Append(f[c], x),
           \A d \in Member : d # c => g[d] = f[d], NEW code
    PROVE  Cardinality(Spots(g, code)) = Cardinality(Spots(f, code)) + One(x, code)
<1>1. PICK n : n = Len(f[c]) /\ n \in Nat /\ n < EVENTS_DEPTH
  BY DEF Streams
<1>2. /\ DOMAIN f[c] = 1 .. n /\ DOMAIN g[c] = 1 .. n + 1
      /\ \A i \in 1 .. n : g[c][i] = f[c][i]
      /\ g[c][n + 1] = x
  <2>1. f[c] \in Seq(Codes)
    BY DEF Streams
  <2> QED BY <1>1, <2>1, AppendIndex
<1>3. \A i \in 1 .. n + 1 : i \in 1 .. n \/ i = n + 1
  BY <1>1
<1>4. /\ n + 1 \in 1 .. n + 1 /\ n + 1 \notin 1 .. n /\ n + 1 \in 1 .. EVENTS_DEPTH
      /\ \A i \in 1 .. n : i \in 1 .. n + 1
  BY <1>1, Depths
<1>5. PICK z \in Member \X (1 .. EVENTS_DEPTH) : z = <<c, n + 1>> /\ z[1] = c /\ z[2] = n + 1
  BY <1>4, Spot
<1>6. \A p \in Member \X (1 .. EVENTS_DEPTH) :
          /\ p[1] \in Member /\ (p[1] = c /\ p[2] = n + 1 => p = z)
  BY <1>5
<1>7. \A p \in Member \X (1 .. EVENTS_DEPTH) : p # z =>
          (p \in Spots(g, code) <=> p \in Spots(f, code))
  <2> SUFFICES ASSUME NEW p \in Member \X (1 .. EVENTS_DEPTH), p # z
               PROVE  (p[2] \in DOMAIN g[p[1]] /\ g[p[1]][p[2]] = code)
                        <=> (p[2] \in DOMAIN f[p[1]] /\ f[p[1]][p[2]] = code)
    BY DEF Spots
  <2>1. CASE p[1] = c
    BY <1>2, <1>3, <1>4, <1>6, <2>1
  <2>2. CASE p[1] # c
    BY <1>6, <2>2
  <2> QED BY <2>1, <2>2
<1>8. z \notin Spots(f, code) /\ (z \in Spots(g, code) <=> x = code)
  BY <1>2, <1>4, <1>5 DEF Spots
<1>9. \A h : Spots(h, code) \in SUBSET (Member \X (1 .. EVENTS_DEPTH))
  BY DEF Spots
<1>10. CASE x = code
  <2>1. Spots(g, code) = Spots(f, code) \cup {z}
    BY <1>7, <1>8, <1>9, <1>10
  <2> QED BY <1>8, <1>10, <2>1, SpotsFinite, FS_AddElement DEF One
<1>11. CASE x # code
  <2>1. \A p \in Member \X (1 .. EVENTS_DEPTH) : p \in Spots(g, code) <=> p \in Spots(f, code)
    BY <1>7, <1>8, <1>11
  <2>2. Spots(g, code) = Spots(f, code)
    BY <1>9, <2>1
  <2> QED BY <1>11, <2>2, SpotsFinite DEF One
<1> QED BY <1>10, <1>11

LEMMA SpotsTail ==
    ASSUME NEW f, Streams(f, Member, Codes, EVENTS_DEPTH), NEW c \in Member, f[c] # << >>,
           NEW g, g[c] = Tail(f[c]), \A d \in Member : d # c => g[d] = f[d], NEW code
    PROVE  Cardinality(Spots(f, code)) = Cardinality(Spots(g, code)) + One(Head(f[c]), code)
<1>1. PICK n : n = Len(f[c]) /\ n \in Nat /\ n <= EVENTS_DEPTH
  BY DEF Streams
<1>2. /\ DOMAIN f[c] = 1 .. n /\ DOMAIN g[c] = 1 .. n - 1 /\ n > 0 /\ Head(f[c]) = f[c][1]
      /\ \A i \in 1 .. n - 1 : g[c][i] = f[c][i + 1]
  <2>1. f[c] \in Seq(Codes)
    BY DEF Streams
  <2> QED BY <1>1, <2>1, TailIndex
<1>3. PICK z \in Member \X (1 .. EVENTS_DEPTH) : z = <<c, 1>> /\ z[1] = c /\ z[2] = 1
  <2>1. 1 \in 1 .. EVENTS_DEPTH
    BY <1>1, <1>2, Depths
  <2> QED BY <2>1, Spot
<1> DEFINE A == Spots(g, code)
           B == Spots(f, code) \ {z}
           F == [p \in A |-> IF p[1] = c THEN <<c, p[2] + 1>> ELSE p]
<1>4. \A p \in Member \X (1 .. EVENTS_DEPTH) :
          p[1] \in Member /\ p[2] \in 1 .. EVENTS_DEPTH /\ p = <<p[1], p[2]>>
  OBVIOUS
<1>5. ASSUME NEW p \in A, p[1] = c
      PROVE  p[2] \in 1 .. n - 1 /\ <<c, p[2] + 1>> \in B
  <2>1. p \in Member \X (1 .. EVENTS_DEPTH) /\ p[2] \in 1 .. n - 1 /\ g[c][p[2]] = code
    BY <1>2, <1>5 DEF Spots
  <2>2. p[2] + 1 \in 1 .. n /\ p[2] + 1 # 1 /\ p[2] + 1 \in 1 .. EVENTS_DEPTH /\ f[c][p[2] + 1] = code
    <3>1. PICK i \in 1 .. n - 1 : i = p[2]
      BY <2>1
    <3>2. i + 1 \in 1 .. n /\ i + 1 # 1 /\ i + 1 \in 1 .. EVENTS_DEPTH
      BY <1>1, <1>2, Depths
    <3>3. f[c][i + 1] = code
      BY <1>2, <2>1, <3>1
    <3> QED BY <3>1, <3>2, <3>3
  <2> QED BY <1>2, <1>3, <2>1, <2>2 DEF Spots
<1>6. ASSUME NEW p \in A, p[1] # c PROVE p \in B
  BY <1>3, <1>4, <1>6 DEF Spots
<1>7. F \in [A -> B]
  BY <1>5, <1>6
<1>8. ASSUME NEW p \in A, NEW r \in A, F[p] = F[r] PROVE p = r
  <2>1. /\ p \in Member \X (1 .. EVENTS_DEPTH) /\ r \in Member \X (1 .. EVENTS_DEPTH)
        /\ p = <<p[1], p[2]>> /\ r = <<r[1], r[2]>> /\ p[2] \in Int /\ r[2] \in Int
    BY <1>4 DEF Spots
  <2>2. CASE p[1] = c /\ r[1] = c
    <3>1. p[2] + 1 = r[2] + 1
      BY <1>8, <2>2
    <3> QED BY <2>1, <2>2, <3>1
  <2>3. CASE p[1] # c /\ r[1] # c
    BY <1>8, <2>3
  <2>4. CASE (p[1] = c) # (r[1] = c)
    BY <1>8, <2>1, <2>4
  <2> QED BY <2>2, <2>3, <2>4
<1>9. ASSUME NEW t \in B PROVE \E p \in A : F[p] = t
  <2>1. /\ t \in Member \X (1 .. EVENTS_DEPTH) /\ t # z /\ t = <<t[1], t[2]>>
        /\ t[2] \in DOMAIN f[t[1]] /\ f[t[1]][t[2]] = code /\ t[1] \in Member
        /\ t[2] \in 1 .. EVENTS_DEPTH
    BY <1>4 DEF Spots
  <2>2. CASE t[1] = c
    <3>1. t[2] \in 1 .. n /\ t[2] # 1
      BY <1>2, <1>3, <2>1, <2>2
    <3>2. PICK i \in 1 .. n - 1 : i + 1 = t[2]
      BY <1>1, <3>1
    <3>3. i \in 1 .. EVENTS_DEPTH /\ g[c][i] = code
      BY <1>1, <1>2, <2>1, <2>2, <3>2, Depths
    <3>4. <<c, i>> \in A
      BY <1>2, <3>2, <3>3 DEF Spots
    <3>5. F[<<c, i>>] = t
      BY <2>1, <2>2, <3>2, <3>4
    <3> QED BY <3>4, <3>5
  <2>3. CASE t[1] # c
    <3>1. t \in A
      BY <2>1, <2>3 DEF Spots
    <3> QED BY <2>3, <3>1
  <2> QED BY <2>2, <2>3
<1> HIDE DEF F
<1>10. Cardinality(B) = Cardinality(A)
  BY <1>7, <1>8, <1>9, SpotsFinite, Matched
<1>11. z \in Spots(f, code) <=> Head(f[c]) = code
  BY <1>1, <1>2, <1>3 DEF Spots
<1>12. Cardinality(B) = IF z \in Spots(f, code) THEN Cardinality(Spots(f, code)) - 1
                        ELSE Cardinality(Spots(f, code))
  BY SpotsFinite, FS_RemoveElement
<1>13. Cardinality(Spots(f, code)) \in Nat
  BY SpotsFinite
<1> QED BY <1>10, <1>11, <1>12, <1>13 DEF One
-----------------------------------------------------------------------------
(***************************************************************************)
(* EventsConserved                                                         *)
(***************************************************************************)
MemberStreams(k) == [c \in Member |-> sched_events[<<k, c>>]]

Conserved(k, code) ==
    reported[k][code] = Cardinality(Spots(MemberStreams(k), code))
                        + Cardinality(At(cluster_events[k], code)) + counted[k][code]

LEMMA ConservedIsEvents ==
    /\ EventsConserved <=> \A k \in Cluster, code \in Codes : Conserved(k, code)
    /\ EventsConserved' <=> \A k \in Cluster, code \in Codes : Conserved(k, code)'
<1>1. ASSUME NEW k \in Cluster, NEW code \in Codes
      PROVE  /\ WaitingEvents(k, code) = Spots(MemberStreams(k), code)
             /\ RelayedEvents(k, code) = At(cluster_events[k], code)
  <2>1. \A p \in Member \X (1 .. EVENTS_DEPTH) : MemberStreams(k)[p[1]] = sched_events[<<k, p[1]>>]
    BY DEF MemberStreams
  <2> QED BY <2>1 DEF WaitingEvents, RelayedEvents, Spots, At
<1>2. ASSUME NEW k \in Cluster, NEW code \in Codes
      PROVE  /\ WaitingEvents(k, code)' = Spots(MemberStreams(k)', code)
             /\ RelayedEvents(k, code)' = At(cluster_events'[k], code)
  <2>1. \A p \in Member \X (1 .. EVENTS_DEPTH) : MemberStreams(k)'[p[1]] = sched_events'[<<k, p[1]>>]
    BY DEF MemberStreams
  <2> QED BY <2>1 DEF WaitingEvents, RelayedEvents, Spots, At
<1>3. EventsConserved <=> \A k \in Cluster, code \in Codes : Conserved(k, code)
  BY <1>1 DEF EventsConserved, Conserved
<1>4. EventsConserved' <=> \A k \in Cluster, code \in Codes : Conserved(k, code)'
  BY <1>2 DEF EventsConserved, Conserved
<1> QED BY <1>3, <1>4

LEMMA MemberStreamsType ==
    ASSUME UpTypes, NEW k \in Cluster
    PROVE  /\ Streams(MemberStreams(k), Member, Codes, EVENTS_DEPTH)
           /\ \A c \in Member : MemberStreams(k)[c] = sched_events[<<k, c>>]
           /\ \A c \in Member : MemberStreams(k)'[c] = sched_events'[<<k, c>>]
           /\ cluster_events[k] \in Seq(Codes)
  BY UnitParts DEF UpTypes, Streams, MemberStreams

LEMMA CountTypes ==
    ASSUME ClusterTypes, NEW k \in Cluster, NEW code \in Codes
    PROVE  /\ reported[k][code] \in Nat /\ counted[k][code] \in Nat
           /\ Cardinality(Spots(MemberStreams(k), code)) \in Nat
           /\ Cardinality(At(cluster_events[k], code)) \in Nat
  BY MemberStreamsType, SpotsFinite, AtFinite DEF ClusterTypes, BarrierTypes, SchedTypes, Counts

LEMMA InitEvents == Init => EventsConserved
<1> SUFFICES ASSUME Init, NEW k \in Cluster, NEW code \in Codes PROVE Conserved(k, code)
  BY ConservedIsEvents
<1>1. Spots(MemberStreams(k), code) = {}
  <2>1. \A p \in Member \X (1 .. EVENTS_DEPTH) : DOMAIN MemberStreams(k)[p[1]] = {}
    <3> SUFFICES ASSUME NEW c \in Member PROVE DOMAIN MemberStreams(k)[c] = {}
      OBVIOUS
    <3>1. MemberStreams(k)[c] = << >>
      BY UnitParts DEF Init, MemberStreams
    <3> QED BY <3>1
  <2> QED BY <2>1 DEF Spots
<1>2. At(cluster_events[k], code) = {}
  <2>1. cluster_events[k] = << >>
    BY DEF Init
  <2>2. DOMAIN cluster_events[k] = {}
    BY <2>1
  <2> QED BY <2>2 DEF At
<1>3. reported[k][code] = 0 /\ counted[k][code] = 0
  BY DEF Init, NoCounts
<1> QED BY <1>1, <1>2, <1>3, FS_EmptySet DEF Conserved

\* A step that moves no event.
LEMMA EventsKept ==
    ASSUME EventsConserved, UNCHANGED <<sched_events, cluster_events, reported, counted>>
    PROVE  EventsConserved'
  BY DEF EventsConserved, WaitingEvents, RelayedEvents

LEMMA StatusEvents ==
    ASSUME ClusterTypes, EventsConserved, NEW k \in Cluster, NEW c \in Member,
           SchedStatus(<<k, c>>), UNCHANGED counted
    PROVE  EventsConserved'
<1> SUFFICES ASSUME NEW j \in Cluster, NEW code \in Codes PROVE Conserved(j, code)'
  BY ConservedIsEvents
<1>1. PICK u \in Unit : u = <<k, c>> /\ u[1] = k
  BY UnitParts
<1>2. /\ status[u] # << >> /\ Len(sched_events[u]) < EVENTS_DEPTH
      /\ sched_events' = [sched_events EXCEPT ![u] = Append(@, Head(status[u]).code)]
      /\ reported' = [reported EXCEPT ![u[1]][Head(status[u]).code] = @ + 1]
      /\ UNCHANGED cluster_events
  BY <1>1 DEF SchedStatus
<1>3. PICK x \in Codes : x = Head(status[u]).code
  <2>1. Head(status[u]) \in Status
    BY <1>2, Depths, StreamRead DEF ClusterTypes, WorkTypes
  <2> QED BY <2>1 DEF Status
<1>4. UpTypes /\ Conserved(j, code)
  BY ConservedIsEvents DEF ClusterTypes
<1>5. sched_events \in [Unit -> Seq(Codes)] /\ reported \in [Cluster -> [Codes -> Nat]]
  BY DEF ClusterTypes, UpTypes, SchedTypes, Streams, Counts
<1>6. CASE j = k
  <2>1. MemberStreams(j)'[c] = Append(MemberStreams(j)[c], x)
    BY <1>1, <1>2, <1>3, <1>4, <1>5, <1>6, MemberStreamsType
  <2>2. \A d \in Member : d # c => MemberStreams(j)'[d] = MemberStreams(j)[d]
    <3> SUFFICES ASSUME NEW d \in Member, d # c PROVE sched_events'[<<j, d>>] = sched_events[<<j, d>>]
      BY <1>4, MemberStreamsType
    <3>1. <<j, d>> \in Unit /\ <<j, d>> # u
      BY <1>1, UnitParts
    <3> QED BY <1>2, <1>5, <3>1
  <2>3. Streams(MemberStreams(j), Member, Codes, EVENTS_DEPTH) /\ Len(MemberStreams(j)[c]) < EVENTS_DEPTH
    BY <1>1, <1>2, <1>4, <1>6, MemberStreamsType
  <2>4. Cardinality(Spots(MemberStreams(j)', code)) = Cardinality(Spots(MemberStreams(j), code)) + One(x, code)
    BY <2>1, <2>2, <2>3, SpotsAppend
  <2>5. reported'[j][code] = reported[j][code] + One(x, code)
    BY <1>1, <1>2, <1>3, <1>5, <1>6 DEF One
  <2>6. Cardinality(At(cluster_events[j], code))' = Cardinality(At(cluster_events[j], code))
        /\ One(x, code) \in Nat
    BY <1>2 DEF One
  <2> QED BY <1>4, <2>4, <2>5, <2>6, CountTypes DEF Conserved
<1>7. CASE j # k
  <2>1. MemberStreams(j)' = MemberStreams(j)
    <3>1. ASSUME NEW d \in Member PROVE sched_events'[<<j, d>>] = sched_events[<<j, d>>]
      <4>1. <<j, d>> \in Unit /\ <<j, d>> # u
        BY <1>1, <1>7, UnitParts
      <4> QED BY <1>2, <1>5, <4>1
    <3> QED BY <3>1 DEF MemberStreams
  <2>2. reported'[j] = reported[j]
    BY <1>1, <1>2, <1>5, <1>7
  <2> QED BY <1>2, <1>4, <2>1, <2>2 DEF Conserved
<1> QED BY <1>6, <1>7

LEMMA RelayEvents ==
    ASSUME ClusterTypes, EventsConserved, NEW k \in Cluster, NEW c \in Member,
           RelayEvent(k, c), UNCHANGED <<reported, counted>>
    PROVE  EventsConserved'
<1> SUFFICES ASSUME NEW j \in Cluster, NEW code \in Codes PROVE Conserved(j, code)'
  BY ConservedIsEvents
<1>1. PICK u \in Unit : u = <<k, c>> /\ u[1] = k
  BY UnitParts
<1>2. PICK x : x = Head(sched_events[u])
  OBVIOUS
<1>3. /\ sched_events[u] # << >> /\ sched_events' = [sched_events EXCEPT ![u] = Tail(@)]
      /\ cluster_events' = [cluster_events EXCEPT ![k] = Append(@, x)]
  BY <1>1, <1>2 DEF RelayEvent
<1>4. UpTypes /\ Conserved(j, code)
  BY ConservedIsEvents DEF ClusterTypes
<1>5. /\ sched_events \in [Unit -> Seq(Codes)] /\ cluster_events \in [Cluster -> Seq(Codes)]
      /\ x \in Codes
  BY <1>2, <1>3, Depths, StreamRead DEF ClusterTypes, UpTypes, Streams
<1>6. CASE j = k
  <2>1. /\ MemberStreams(j)'[c] = Tail(MemberStreams(j)[c]) /\ MemberStreams(j)[c] # << >>
        /\ Head(MemberStreams(j)[c]) = x
    BY <1>1, <1>2, <1>3, <1>4, <1>5, <1>6, MemberStreamsType
  <2>2. \A d \in Member : d # c => MemberStreams(j)'[d] = MemberStreams(j)[d]
    <3> SUFFICES ASSUME NEW d \in Member, d # c PROVE sched_events'[<<j, d>>] = sched_events[<<j, d>>]
      BY <1>4, MemberStreamsType
    <3>1. <<j, d>> \in Unit /\ <<j, d>> # u
      BY <1>1, UnitParts
    <3> QED BY <1>3, <1>5, <3>1
  <2>3. Streams(MemberStreams(j), Member, Codes, EVENTS_DEPTH)
    BY <1>4, MemberStreamsType
  <2>4. Cardinality(Spots(MemberStreams(j), code)) = Cardinality(Spots(MemberStreams(j)', code)) + One(x, code)
    BY <2>1, <2>2, <2>3, SpotsTail
  <2>5. Cardinality(At(cluster_events'[j], code)) = Cardinality(At(cluster_events[j], code)) + One(x, code)
    <3>1. cluster_events'[j] = Append(cluster_events[j], x) /\ cluster_events[j] \in Seq(Codes)
      BY <1>3, <1>5, <1>6
    <3> QED BY <1>5, <3>1, AtAppend
  <2>6. One(x, code) \in Nat /\ Cardinality(Spots(MemberStreams(j)', code)) \in Nat
    BY SpotsFinite DEF One
  <2> QED BY <1>4, <2>4, <2>5, <2>6, CountTypes DEF Conserved
<1>7. CASE j # k
  <2>1. MemberStreams(j)' = MemberStreams(j)
    <3>1. ASSUME NEW d \in Member PROVE sched_events'[<<j, d>>] = sched_events[<<j, d>>]
      <4>1. <<j, d>> \in Unit /\ <<j, d>> # u
        BY <1>1, <1>7, UnitParts
      <4> QED BY <1>3, <1>5, <4>1
    <3> QED BY <3>1 DEF MemberStreams
  <2>2. cluster_events'[j] = cluster_events[j]
    BY <1>3, <1>5, <1>7
  <2> QED BY <1>4, <2>1, <2>2 DEF Conserved
<1> QED BY <1>6, <1>7

LEMMA PollEvents ==
    ASSUME ClusterTypes, EventsConserved, NEW k \in Cluster, BarrierPoll(k)
    PROVE  EventsConserved'
<1> SUFFICES ASSUME NEW j \in Cluster, NEW code \in Codes PROVE Conserved(j, code)'
  BY ConservedIsEvents
<1>1. PICK x : x = Head(cluster_events[k])
  OBVIOUS
<1>2. /\ cluster_events[k] # << >> /\ cluster_events' = [cluster_events EXCEPT ![k] = Tail(@)]
      /\ counted' = [counted EXCEPT ![k][x] = @ + 1]
      /\ UNCHANGED <<sched_events, reported>>
  BY <1>1 DEF BarrierPoll, schedVars
<1>3. UpTypes /\ Conserved(j, code) /\ MemberStreams(j)' = MemberStreams(j)
  BY <1>2, ConservedIsEvents DEF ClusterTypes, MemberStreams
<1>4. /\ cluster_events \in [Cluster -> Seq(Codes)] /\ counted \in [Cluster -> [Codes -> Nat]]
      /\ x \in Codes
  BY <1>1, <1>2, Depths, StreamRead DEF ClusterTypes, UpTypes, BarrierTypes, Streams, Counts
<1>5. CASE j = k
  <2>1. Cardinality(At(cluster_events[j], code)) = Cardinality(At(cluster_events'[j], code)) + One(x, code)
    <3>1. /\ cluster_events'[j] = Tail(cluster_events[j]) /\ cluster_events[j] # << >>
          /\ cluster_events[j] \in Seq(Codes) /\ Head(cluster_events[j]) = x
      BY <1>1, <1>2, <1>4, <1>5
    <3> QED BY <3>1, AtTail
  <2>2. counted'[j][code] = counted[j][code] + One(x, code)
    BY <1>2, <1>4, <1>5 DEF One
  <2>3. One(x, code) \in Nat /\ Cardinality(At(cluster_events'[j], code)) \in Nat
    <3>1. cluster_events'[j] \in Seq(Codes)
      BY <1>2, <1>4, <1>5
    <3> QED BY <3>1, AtFinite DEF One
  <2> QED BY <1>2, <1>3, <2>1, <2>2, <2>3, CountTypes DEF Conserved
<1>6. CASE j # k
  <2>1. cluster_events'[j] = cluster_events[j] /\ counted'[j] = counted[j]
    BY <1>2, <1>4, <1>6
  <2> QED BY <1>2, <1>3, <2>1 DEF Conserved
<1> QED BY <1>5, <1>6

LEMMA NextEvents ==
    ASSUME ClusterTypes, EventsConserved, [Next]_vars
    PROVE  EventsConserved'
<1>1. CASE UNCHANGED vars
  BY <1>1, EventsKept DEF vars, barrierVars, schedVars, upVars
<1>2. CASE (\E p \in Programs, t \in WarpCounts : HostStart(p, t)) \/ HostClear
  BY <1>2, EventsKept DEF HostStart, HostClear, barrierVars, schedVars, upVars
<1>3. CASE BarrierLaunch \/ BarrierTest
  BY <1>3, EventsKept DEF BarrierLaunch, BarrierTest, schedVars, upVars
<1>4. CASE BarrierSignal("release", "complete") \/ BarrierSignal("kernel_done", "poll")
  BY <1>4, EventsKept DEF BarrierSignal, schedVars, upVars
<1>5. CASE ProgramLoaderHier \/ \E k \in Cluster : ClusterRegLoader(k)
  BY <1>5, EventsKept DEF ProgramLoaderHier, ClusterRegLoader, barrierVars, schedVars, upVars
<1>6. ASSUME NEW k \in Cluster, ClusterBarrierRelay(k) PROVE EventsConserved'
  <2>1. UNCHANGED <<reported, counted>>
    BY <1>6 DEF ClusterBarrierRelay, barrierVars, schedVars
  <2>2. CASE RelayTake(k) \/ RelayFanout(k)
    BY <2>1, <2>2, EventsKept DEF RelayTake, RelayFanout, upVars
  <2> QED BY <1>6, <2>1, <2>2, RelayEvents DEF ClusterBarrierRelay
<1>7. ASSUME NEW k \in Cluster, NEW c \in Member, SchedulerCore(k, c) PROVE EventsConserved'
  <2>1. UNCHANGED counted
    BY <1>7 DEF SchedulerCore, barrierVars
  <2>2. CASE SchedStatus(<<k, c>>)
    BY <2>1, <2>2, StatusEvents
  <2>3. CASE SchedLaunch(k, c) \/ (\E s \in Slot : SchedDispatch(<<k, c>>, s)) \/ SchedSignal(<<k, c>>)
    BY <2>1, <2>3, EventsKept DEF SchedLaunch, SchedDispatch, SchedSignal, upVars
  <2> QED BY <1>7, <2>2, <2>3 DEF SchedulerCore
<1>8. CASE \E k \in Cluster, c \in PIPELINES : ComputePipeline(<<k, c>>)
  BY <1>8, EventsKept DEF ComputePipeline, barrierVars, schedVars, upVars
<1> QED BY <1>1, <1>2, <1>3, <1>4, <1>5, <1>6, <1>7, <1>8, PollEvents DEF Next, BarrierCore
-----------------------------------------------------------------------------
(***************************************************************************)
(* SignalsInStep.  Of the signals s, h have been heard; the others are in  *)
(* the scheduler's stream a, in the relay's hand b, and in the cluster's   *)
(* stream q.                                                               *)
(***************************************************************************)
Underway(s, h, a, b, q) == h <= Len(s) /\ SubSeq(s, h + 1, Len(s)) = a \o b \o q

LEMMA Sent ==
    ASSUME NEW S, NEW s \in Seq(S), NEW h \in Nat, NEW a \in Seq(S), NEW b \in Seq(S),
           NEW q \in Seq(S), NEW x \in S, Underway(s, h, a, b, q)
    PROVE  Underway(Append(s, x), h, a, b, Append(q, x))
<1>1. PICK r, n, m : r = Append(s, x) /\ n = Len(s) /\ m = h + 1
  OBVIOUS
<1>2. /\ r \in Seq(S) /\ Len(r) = n + 1 /\ n \in Nat /\ r[n + 1] = x
      /\ \A i \in 1 .. n : r[i] = s[i] /\ s[i] \in S
  BY <1>1
<1>3. m \in 1 .. n + 1 /\ n + 1 \in m .. n + 1 /\ h \in 0 .. n
  BY <1>1, <1>2 DEF Underway
<1>4. SubSeq(r, m, n + 1) = SubSeq(r, m, (n + 1) - 1) \o <<r[n + 1]>>
  BY <1>2, <1>3, SubSeqRecursiveSecond
<1>5. SubSeq(r, m, n) = SubSeq(s, m, n)
  BY <1>1, <1>2, <1>3
<1>6. SubSeq(r, m, n + 1) = SubSeq(s, m, n) \o <<x>>
  <2>1. (n + 1) - 1 = n
    BY <1>2
  <2> QED BY <1>2, <1>4, <1>5, <2>1, Zenon
<1>7. a \o b \o Append(q, x) = (a \o b \o q) \o <<x>>
  <2>1. Append(q, x) = q \o <<x>> /\ <<x>> \in Seq(S) /\ a \o b \in Seq(S)
    OBVIOUS
  <2>2. (a \o b) \o (q \o <<x>>) = ((a \o b) \o q) \o <<x>>
    BY <2>1, ConcatAssociative
  <2> QED BY <2>1, <2>2
<1>8. h <= Len(r)
  BY <1>2, <1>3
<1> QED BY <1>1, <1>2, <1>6, <1>7, <1>8 DEF Underway

LEMMA Taken ==
    ASSUME NEW S, NEW s \in Seq(S), NEW h \in Nat, NEW a \in Seq(S), NEW q \in Seq(S),
           q # << >>, Underway(s, h, a, << >>, q)
    PROVE  Underway(s, h, a, <<Head(q)>>, Tail(q))
<1>1. a \o <<Head(q)>> \o Tail(q) = a \o << >> \o q
  OBVIOUS
<1> QED BY <1>1 DEF Underway

LEMMA Handed ==
    ASSUME NEW S, NEW s \in Seq(S), NEW h \in Nat, NEW a \in Seq(S), NEW q \in Seq(S),
           NEW x \in S, Underway(s, h, a, <<x>>, q)
    PROVE  Underway(s, h, Append(a, x), << >>, q)
<1>1. Append(a, x) \o << >> \o q = a \o <<x>> \o q
  OBVIOUS
<1> QED BY <1>1 DEF Underway

LEMMA Heard ==
    ASSUME NEW S, NEW s \in Seq(S), NEW h \in Nat, NEW a \in Seq(S), NEW b \in Seq(S),
           NEW q \in Seq(S), a # << >>, Underway(s, h, a, b, q)
    PROVE  Underway(s, h + 1, Tail(a), b, q)
<1>1. SubSeq(s, h + 1, Len(s)) = a \o b \o q /\ h <= Len(s)
  BY DEF Underway
<1>2. Len(a \o b \o q) > 0
  OBVIOUS
<1>3. h + 1 <= Len(s)
  BY <1>1, <1>2
<1>4. SubSeq(s, (h + 1) + 1, Len(s)) = Tail(SubSeq(s, h + 1, Len(s)))
  <2>1. h + 1 \in 1 .. Len(s) /\ Len(s) \in h + 1 .. Len(s)
    BY <1>3
  <2> QED BY <2>1, HeadTailOfSubSeq
<1>5. Tail(a \o b \o q) = Tail(a) \o b \o q
  OBVIOUS
<1> QED BY <1>1, <1>3, <1>4, <1>5 DEF Underway

Hand(k, c) == IF relay[k].pc = "fanout" /\ relay[k].c <= c THEN <<relay[k].sig>> ELSE << >>

InStep(k, c) == Underway(sent[k], heard[<<k, c>>], sched_signal[<<k, c>>], Hand(k, c), cluster_signal[k])

AllInStep == \A k \in Cluster, c \in Member : InStep(k, c)

LEMMA InStepGives == AllInStep => SignalsInStep
  BY DEF AllInStep, InStep, Underway, Hand, SignalsInStep

LEMMA InitInStep == Init => AllInStep
<1> SUFFICES ASSUME Init, NEW k \in Cluster, NEW c \in Member PROVE InStep(k, c)
  BY DEF AllInStep
<1>1. /\ sent[k] = << >> /\ heard[<<k, c>>] = 0 /\ sched_signal[<<k, c>>] = << >>
      /\ cluster_signal[k] = << >> /\ relay[k].pc = "events"
  BY UnitParts DEF Init
<1>2. Hand(k, c) = << >>
  BY <1>1 DEF Hand
<1>3. Underway(<< >>, 0, << >>, << >>, << >>)
  <2>1. SubSeq(<< >>, 1, 0) = << >> /\ Len(<< >>) = 0
    BY SubSeqEmpty
  <2> QED BY <2>1 DEF Underway
<1> QED BY <1>1, <1>2, <1>3 DEF InStep

\* The types of what InStep relates.
LEMMA InStepTypes ==
    ASSUME ClusterTypes, NEW k \in Cluster, NEW c \in Member
    PROVE  /\ sent[k] \in Seq(Signals) /\ heard[<<k, c>>] \in Nat
           /\ sched_signal[<<k, c>>] \in Seq(Signals) /\ cluster_signal[k] \in Seq(Signals)
           /\ relay[k].sig \in Signals /\ relay[k].c \in 0 .. CLUSTER_SIZE /\ c \in Nat
           /\ Hand(k, c) \in Seq(Signals)
<1>1. <<k, c>> \in Unit /\ c \in Nat
  BY UnitParts, Depths DEF Member
<1>2. relay[k].sig \in Signals /\ relay[k].c \in 0 .. CLUSTER_SIZE
  BY DEF ClusterTypes, RelayTypes
<1>3. <<relay[k].sig>> \in Seq(Signals) /\ << >> \in Seq(Signals)
  BY <1>2
<1> QED BY <1>1, <1>2, <1>3 DEF ClusterTypes, BarrierTypes, SchedTypes, DownTypes, Streams, Hand

\* A step that moves no signal, and leaves the relay in its hands what it holds.
LEMMA InStepKept ==
    ASSUME AllInStep, UNCHANGED <<sent, heard, sched_signal, cluster_signal>>,
           \A k \in Cluster, c \in Member : Hand(k, c)' = Hand(k, c)
    PROVE  AllInStep'
  BY DEF AllInStep, InStep

LEMMA SignalInStep ==
    ASSUME ClusterTypes, AllInStep,
           BarrierSignal("release", "complete") \/ BarrierSignal("kernel_done", "poll")
    PROVE  AllInStep'
<1>1. PICK sig \in Signals :
          /\ cluster_signal' = [cluster_signal EXCEPT ![b_k] = Append(@, sig)]
          /\ sent' = [sent EXCEPT ![b_k] = Append(@, sig)]
          /\ UNCHANGED <<sched_signal, relay, heard>>
  BY DEF BarrierSignal, Signals, schedVars
<1> SUFFICES ASSUME NEW k \in Cluster, NEW c \in Member PROVE InStep(k, c)'
  BY DEF AllInStep
<1>2. InStep(k, c) /\ Hand(k, c)' = Hand(k, c)
  BY <1>1 DEF AllInStep, Hand
<1>3. sent \in [Cluster -> Seq(Signals)] /\ cluster_signal \in [Cluster -> Seq(Signals)]
  BY DEF ClusterTypes, BarrierTypes, DownTypes, Streams
<1>4. CASE k = b_k
  <2>1. sent'[k] = Append(sent[k], sig) /\ cluster_signal'[k] = Append(cluster_signal[k], sig)
    BY <1>1, <1>3, <1>4
  <2>2. Underway(sent'[k], heard[<<k, c>>], sched_signal[<<k, c>>], Hand(k, c), cluster_signal'[k])
    BY <1>2, <2>1, InStepTypes, Sent DEF InStep
  <2> QED BY <1>1, <1>2, <2>2 DEF InStep
<1>5. CASE k # b_k
  BY <1>1, <1>2, <1>3, <1>5 DEF InStep
<1> QED BY <1>4, <1>5

LEMMA TakeInStep ==
    ASSUME ClusterTypes, AllInStep, NEW j \in Cluster, RelayTake(j), UNCHANGED <<sent, heard>>
    PROVE  AllInStep'
<1>1. /\ relay[j].pc = "events" /\ UNCHANGED sched_signal
      /\ relay \in [Cluster -> [pc : {"events", "fanout"}, c : 0 .. CLUSTER_SIZE, sig : Signals]]
      /\ cluster_signal \in [Cluster -> Seq(Signals)]
  BY DEF RelayTake, ClusterTypes, RelayTypes, DownTypes, Streams
<1>2. CASE cluster_signal[j] = << >>
  <2>1. relay' = [relay EXCEPT ![j] = Round] /\ UNCHANGED cluster_signal
    BY <1>2 DEF RelayTake
  <2>2. ASSUME NEW k \in Cluster, NEW c \in Member PROVE Hand(k, c)' = Hand(k, c)
    BY <1>1, <2>1 DEF Hand, Round
  <2> QED BY <1>1, <2>1, <2>2, InStepKept
<1>3. CASE cluster_signal[j] # << >>
  <2>1. /\ relay' = [relay EXCEPT ![j] = [pc |-> "fanout", c |-> 0, sig |-> Head(cluster_signal[j])]]
        /\ cluster_signal' = [cluster_signal EXCEPT ![j] = Tail(@)]
    BY <1>3 DEF RelayTake
  <2> SUFFICES ASSUME NEW k \in Cluster, NEW c \in Member PROVE InStep(k, c)'
    BY DEF AllInStep
  <2>2. InStep(k, c)
    BY DEF AllInStep
  <2>3. CASE k = j
    <3>1. Hand(k, c) = << >>
      BY <1>1, <2>3 DEF Hand
    <3>2. Hand(k, c)' = <<Head(cluster_signal[k])>>
      <4>1. 0 <= c
        BY Depths DEF Member
      <4>2. relay'[k] = [pc |-> "fanout", c |-> 0, sig |-> Head(cluster_signal[k])]
        BY <1>1, <2>1, <2>3
      <4> QED BY <4>1, <4>2 DEF Hand
    <3>3. cluster_signal'[k] = Tail(cluster_signal[k])
      BY <1>1, <2>1, <2>3
    <3>4. Underway(sent[k], heard[<<k, c>>], sched_signal[<<k, c>>], << >>, cluster_signal[k])
      BY <2>2, <3>1 DEF InStep
    <3>5. Underway(sent[k], heard[<<k, c>>], sched_signal[<<k, c>>],
                   <<Head(cluster_signal[k])>>, Tail(cluster_signal[k]))
      BY <1>3, <2>3, <3>4, InStepTypes, Taken
    <3> QED BY <1>1, <3>2, <3>3, <3>5 DEF InStep
  <2>4. CASE k # j
    <3>1. relay'[k] = relay[k] /\ cluster_signal'[k] = cluster_signal[k]
      BY <1>1, <2>1, <2>4
    <3>2. Hand(k, c)' = Hand(k, c)
      BY <3>1 DEF Hand
    <3> QED BY <1>1, <2>2, <3>1, <3>2 DEF InStep
  <2> QED BY <2>3, <2>4
<1> QED BY <1>2, <1>3

LEMMA FanoutInStep ==
    ASSUME ClusterTypes, AllInStep, NEW j \in Cluster, RelayFanout(j), UNCHANGED <<sent, heard>>
    PROVE  AllInStep'
<1>1. PICK d \in 0 .. CLUSTER_SIZE, sig \in Signals : d = relay[j].c /\ sig = relay[j].sig
  BY DEF ClusterTypes, RelayTypes
<1>2. /\ relay[j].pc = "fanout" /\ UNCHANGED cluster_signal
      /\ sched_signal' = [sched_signal EXCEPT ![<<j, d>>] = Append(@, sig)]
      /\ relay' = [relay EXCEPT ![j] = IF d + 1 < CLUSTER_SIZE THEN [@ EXCEPT !.c = d + 1] ELSE Round]
  BY <1>1 DEF RelayFanout
<1>3. /\ relay \in [Cluster -> [pc : {"events", "fanout"}, c : 0 .. CLUSTER_SIZE, sig : Signals]]
      /\ sched_signal \in [Unit -> Seq(Signals)]
  BY DEF ClusterTypes, RelayTypes, DownTypes, Streams
<1> SUFFICES ASSUME NEW k \in Cluster, NEW c \in Member PROVE InStep(k, c)'
  BY DEF AllInStep
<1>4. InStep(k, c) /\ <<k, c>> \in Unit
  BY UnitParts DEF AllInStep
<1>5. CASE k = j /\ c = d
  <2>1. Hand(k, c) = <<sig>>
    BY <1>1, <1>2, <1>5 DEF Hand
  <2>2. Hand(k, c)' = << >>
    <3>1. relay'[k].pc = "events" \/ relay'[k].c = d + 1
      BY <1>2, <1>3, <1>5 DEF Round
    <3>2. ~(d + 1 <= c)
      BY <1>1, <1>5
    <3> QED BY <3>1, <3>2 DEF Hand
  <2>3. sched_signal'[<<k, c>>] = Append(sched_signal[<<k, c>>], sig)
    BY <1>2, <1>3, <1>4, <1>5
  <2>4. Underway(sent[k], heard[<<k, c>>], sched_signal[<<k, c>>], <<sig>>, cluster_signal[k])
    BY <1>4, <2>1 DEF InStep
  <2>5. Underway(sent[k], heard[<<k, c>>], Append(sched_signal[<<k, c>>], sig), << >>, cluster_signal[k])
    BY <2>4, InStepTypes, Handed
  <2> QED BY <1>2, <2>2, <2>3, <2>5 DEF InStep
<1>6. CASE ~(k = j /\ c = d)
  <2>1. sched_signal'[<<k, c>>] = sched_signal[<<k, c>>]
    <3>1. <<k, c>> # <<j, d>>
      BY <1>6
    <3> QED BY <1>2, <1>3, <1>4, <3>1
  <2>2. Hand(k, c)' = Hand(k, c)
    <3>1. CASE k # j
      BY <1>2, <1>3, <3>1 DEF Hand
    <3>2. CASE k = j /\ c < d
      <4>1. ~(d <= c) /\ ~(d + 1 <= c)
        BY <3>2, Depths DEF Member
      <4>2. relay'[k].pc = "events" \/ relay'[k].c = d + 1
        BY <1>2, <1>3, <3>2 DEF Round
      <4> QED BY <1>1, <3>2, <4>1, <4>2 DEF Hand
    <3>3. CASE k = j /\ d < c
      <4>1. d + 1 < CLUSTER_SIZE /\ d <= c /\ d + 1 <= c
        BY <3>3, Depths DEF Member
      <4>2. relay'[k].pc = "fanout" /\ relay'[k].c = d + 1 /\ relay'[k].sig = sig
        <5>1. relay'[k] = [relay[k] EXCEPT !.c = d + 1]
          BY <1>2, <1>3, <3>3, <4>1
        <5> QED BY <1>1, <1>2, <1>3, <3>3, <5>1
      <4> QED BY <1>1, <1>2, <3>3, <4>1, <4>2 DEF Hand
    <3>4. c < d \/ c = d \/ d < c
      BY Depths DEF Member
    <3> QED BY <1>6, <3>1, <3>2, <3>3, <3>4
  <2> QED BY <1>2, <1>4, <2>1, <2>2 DEF InStep
<1> QED BY <1>5, <1>6

LEMMA HearInStep ==
    ASSUME ClusterTypes, AllInStep, NEW j \in Cluster, NEW d \in Member, SchedSignal(<<j, d>>),
           UNCHANGED <<sent, relay>>
    PROVE  AllInStep'
<1>1. PICK u \in Unit : u = <<j, d>>
  BY UnitParts
<1>2. UNCHANGED cluster_signal /\ \A k, c : Hand(k, c)' = Hand(k, c)
  BY DEF SchedSignal, Hand
<1>3. CASE sched_signal[u] = << >>
  BY <1>1, <1>2, <1>3, InStepKept DEF SchedSignal
<1>4. CASE sched_signal[u] # << >>
  <2>1. sched_signal' = [sched_signal EXCEPT ![u] = Tail(@)] /\ heard' = [heard EXCEPT ![u] = @ + 1]
    BY <1>1, <1>4 DEF SchedSignal
  <2>2. sched_signal \in [Unit -> Seq(Signals)] /\ heard \in [Unit -> Nat]
    BY DEF ClusterTypes, SchedTypes, DownTypes, Streams
  <2> SUFFICES ASSUME NEW k \in Cluster, NEW c \in Member PROVE InStep(k, c)'
    BY DEF AllInStep
  <2>3. InStep(k, c) /\ <<k, c>> \in Unit
    BY UnitParts DEF AllInStep
  <2>4. CASE <<k, c>> = u
    <3>1. /\ sched_signal'[<<k, c>>] = Tail(sched_signal[<<k, c>>])
          /\ heard'[<<k, c>>] = heard[<<k, c>>] + 1
          /\ sched_signal[<<k, c>>] # << >>
      BY <1>4, <2>1, <2>2, <2>4
    <3>2. Underway(sent[k], heard[<<k, c>>] + 1, Tail(sched_signal[<<k, c>>]), Hand(k, c), cluster_signal[k])
      BY <2>3, <3>1, InStepTypes, Heard DEF InStep
    <3> QED BY <1>2, <3>1, <3>2 DEF InStep
  <2>5. CASE <<k, c>> # u
    <3>1. sched_signal'[<<k, c>>] = sched_signal[<<k, c>>] /\ heard'[<<k, c>>] = heard[<<k, c>>]
      BY <2>1, <2>2, <2>3, <2>5
    <3> QED BY <1>2, <2>3, <3>1 DEF InStep
  <2> QED BY <2>4, <2>5
<1> QED BY <1>3, <1>4

LEMMA NextInStep ==
    ASSUME ClusterTypes, AllInStep, [Next]_vars
    PROVE  AllInStep'
<1>1. UNCHANGED relay => \A k \in Cluster, c \in Member : Hand(k, c)' = Hand(k, c)
  BY DEF Hand
<1>2. CASE UNCHANGED vars
  BY <1>1, <1>2, InStepKept DEF vars, barrierVars, schedVars, downVars
<1>3. CASE (\E p \in Programs, t \in WarpCounts : HostStart(p, t)) \/ HostClear
  BY <1>1, <1>3, InStepKept DEF HostStart, HostClear, barrierVars, schedVars, downVars
<1>4. CASE BarrierLaunch \/ BarrierTest \/ \E k \in Cluster : BarrierPoll(k)
  BY <1>1, <1>4, InStepKept DEF BarrierLaunch, BarrierTest, BarrierPoll, schedVars, downVars
<1>5. CASE ProgramLoaderHier \/ \E k \in Cluster : ClusterRegLoader(k)
  BY <1>1, <1>5, InStepKept DEF ProgramLoaderHier, ClusterRegLoader, barrierVars, schedVars, downVars
<1>6. ASSUME NEW k \in Cluster, ClusterBarrierRelay(k) PROVE AllInStep'
  <2>1. UNCHANGED <<sent, heard>>
    BY <1>6 DEF ClusterBarrierRelay, barrierVars, schedVars
  <2>2. ASSUME NEW c \in Member, RelayEvent(k, c) PROVE AllInStep'
    <3>1. /\ relay[k].pc = "events" /\ relay' = [relay EXCEPT ![k].c = c + 1]
          /\ UNCHANGED downVars
      BY <2>2 DEF RelayEvent
    <3>2. relay \in [Cluster -> [pc : {"events", "fanout"}, c : 0 .. CLUSTER_SIZE, sig : Signals]]
      BY DEF ClusterTypes, RelayTypes
    <3>3. ASSUME NEW i \in Cluster, NEW d \in Member PROVE Hand(i, d)' = Hand(i, d)
      <4>1. CASE i = k
        BY <3>1, <3>2, <4>1 DEF Hand
      <4>2. CASE i # k
        BY <3>1, <3>2, <4>2 DEF Hand
      <4> QED BY <4>1, <4>2
    <3> QED BY <2>1, <3>1, <3>3, InStepKept DEF downVars
  <2> QED BY <1>6, <2>1, <2>2, TakeInStep, FanoutInStep DEF ClusterBarrierRelay
<1>7. ASSUME NEW k \in Cluster, NEW c \in Member, SchedulerCore(k, c) PROVE AllInStep'
  <2>1. UNCHANGED <<sent, relay>>
    BY <1>7 DEF SchedulerCore, barrierVars
  <2>2. CASE SchedLaunch(k, c) \/ (\E s \in Slot : SchedDispatch(<<k, c>>, s)) \/ SchedStatus(<<k, c>>)
    BY <1>1, <2>1, <2>2, InStepKept DEF SchedLaunch, SchedDispatch, SchedStatus, downVars
  <2> QED BY <1>7, <2>1, <2>2, HearInStep DEF SchedulerCore
<1>8. CASE \E k \in Cluster, c \in PIPELINES : ComputePipeline(<<k, c>>)
  BY <1>1, <1>8, InStepKept DEF ComputePipeline, barrierVars, schedVars, downVars
<1> QED BY <1>2, <1>3, <1>4, <1>5, <1>6, <1>7, <1>8, SignalInStep DEF Next, BarrierCore

(***************************************************************************)
(* RelayInv, for every size of a cluster, every subset of its units with a *)
(* pipeline, every depth of the streams and any number of launches: the    *)
(* relays (cu_cluster.h:38-62) lose and repeat no event of a scheduler and *)
(* no signal of barrierCoreN, and every scheduler hears the signals in the *)
(* order they were sent.                                                   *)
(***************************************************************************)
THEOREM RelayProof == Spec => []RelayInv
<1>1. Init => ClusterTypes /\ EventsConserved /\ AllInStep
  BY InitTypes, InitEvents, InitInStep
<1>2. ClusterTypes /\ EventsConserved /\ AllInStep /\ [Next]_vars
          => (ClusterTypes /\ EventsConserved /\ AllInStep)'
  BY NextTypes, NextEvents, NextInStep
<1>3. ClusterTypes /\ EventsConserved /\ AllInStep => RelayInv
  BY TypesGiveTypeOK, InStepGives DEF RelayInv
<1> QED BY <1>1, <1>2, <1>3, PTL DEF Spec
=============================================================================
