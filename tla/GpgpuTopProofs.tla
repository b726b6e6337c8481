---------------------------- MODULE GpgpuTopProofs ----------------------------
(***************************************************************************)
(* Proofs about the flat gpgpu_scheduler.  Type correctness, for any       *)
(* device, program, stream depths and host, and any number of launches;    *)
(* what the invariant needs to know of streams (sequences read at the head *)
(* and written at the tail), of the slot arithmetic of launchSlots() and   *)
(* of counting warps; then, for a device started once, that IInv is an     *)
(* invariant, what follows from it, the seeds, and the refinement of       *)
(* KernelBarrier.                                                          *)
(***************************************************************************)
EXTENDS GpgpuTopInv, FiniteSetTheorems, TLAPS

\* The arithmetic of launchSlots() stays within the natural numbers.
LEMMA LocalWarpType ==
    \A c \in CU, s \in Slot : CuId(c) \in Nat /\ LocalWarp(c, s) \in Nat
<1> TAKE c \in CU, s \in Slot
<1>1. CuId(c) \in Nat
  BY WarpSlotsAssumption DEF CuId, CU
<1>2. s \in Nat /\ NUM_CUS \in Nat
  BY WarpSlotsAssumption DEF Slot
<1>3. s * NUM_CUS \in Nat
  BY <1>2
<1> QED BY <1>1, <1>3 DEF LocalWarp

\* What cu_dispatch_unit.h does to a CU's slots leaves them slots.
LEMMA SlotOperatorsType ==
    ASSUME NEW sl \in [Slot -> WarpSlot]
    PROVE  /\ \A c \in CU : \A t \in Nat : LaunchSlots(sl, c, t) \in [Slot -> WarpSlot]
           /\ \A s \in Slot : ClearFresh(sl, s) \in [Slot -> WarpSlot]
           /\ \A s \in Slot : BuildDispatch(sl, s) \in Dispatch
           /\ \A st \in Status : RecordResult(sl, st) \in [Slot -> WarpSlot]
           /\ ReleaseBarrierSlots(sl) \in [Slot -> WarpSlot]
<1>1. ASSUME NEW c \in CU, NEW t \in Nat
      PROVE  LaunchSlots(sl, c, t) \in [Slot -> WarpSlot]
  <2> SUFFICES ASSUME NEW s \in Slot
               PROVE  AssignSlot(sl[s], s, c, t) \in WarpSlot
    BY DEF LaunchSlots
  <2> QED BY LocalWarpType DEF AssignSlot, WarpSlot, SlotStates
<1>2. ASSUME NEW s \in Slot PROVE ClearFresh(sl, s) \in [Slot -> WarpSlot]
  BY DEF ClearFresh, WarpSlot
<1>3. ASSUME NEW s \in Slot PROVE BuildDispatch(sl, s) \in Dispatch
  BY DEF BuildDispatch, Dispatch, WarpSlot
<1>4. ASSUME NEW st \in Status PROVE RecordResult(sl, st) \in [Slot -> WarpSlot]
  <2>1. st.slot_id \in Slot /\ st.resume_pc \in Nat
    BY DEF Status
  <2>2. ASSUME NEW s \in Slot
        PROVE  /\ [sl[s] EXCEPT !.state = "DONE"] \in WarpSlot
               /\ [sl[s] EXCEPT !.state = "STALLED", !.resume_pc = st.resume_pc] \in WarpSlot
    BY <2>1 DEF WarpSlot, SlotStates
  <2>3. CASE st.code = "COMPLETE"
    <3>1. RecordResult(sl, st) = [sl EXCEPT ![st.slot_id] = [sl[st.slot_id] EXCEPT !.state = "DONE"]]
      BY <2>3 DEF RecordResult
    <3> QED BY <2>1, <2>2, <3>1
  <2>4. CASE st.code # "COMPLETE"
    <3>1. RecordResult(sl, st) =
            [sl EXCEPT ![st.slot_id] = [sl[st.slot_id] EXCEPT !.state = "STALLED",
                                                              !.resume_pc = st.resume_pc]]
      BY <2>1, <2>4 DEF RecordResult
    <3> QED BY <2>1, <2>2, <3>1
  <2> QED BY <2>3, <2>4
<1>5. ReleaseBarrierSlots(sl) \in [Slot -> WarpSlot]
  BY DEF ReleaseBarrierSlots, WarpSlot, SlotStates
<1> QED BY <1>1, <1>2, <1>3, <1>4, <1>5

\* Reading and writing a stream keeps its element type.
LEMMA StreamOperators ==
    ASSUME NEW S, NEW q \in Seq(S)
    PROVE  /\ q # <<>> => Head(q) \in S /\ Tail(q) \in Seq(S)
           /\ \A e \in S : Append(q, e) \in Seq(S)
OBVIOUS

LEMMA TypeOKInit == Init => TypeOK
<1> SUFFICES ASSUME Init PROVE TypeOK
  OBVIOUS
<1> USE WarpSlotsAssumption, GpgpuTopAssumption
<1>1. HostType
  <2>1. 0 \in Launch
    BY DEF Launch
  <2>2. total_warps = 0 /\ program = <<>> /\ launches = 0
    BY DEF Init
  <2>3. start \in BOOLEAN
    BY DEF Init
  <2> HIDE WarpSlotsAssumption, GpgpuTopAssumption
  <2> QED BY <2>1, <2>2, <2>3 DEF HostType
<1>2. BarrierType
  <2>1. 0 \in CU
    BY DEF CU
  <2> HIDE WarpSlotsAssumption, GpgpuTopAssumption
  <2> QED BY <2>1 DEF Init, BarrierType
<1>3. LoaderType
  BY DEF Init, LoaderType, LoaderIdle, Word, NoInstr
<1>4. SchedType
  <2>1. NewSlot \in WarpSlot
    BY DEF NewSlot, WarpSlot, SlotStates
  <2> QED BY <2>1 DEF Init, SchedType, Launch
<1>5. ComputeType
  <2>1. NotExecuting \in Dispatch
    BY DEF NotExecuting, Dispatch, Slot
  <2> QED BY <2>1 DEF Init, ComputeType, NoLaunch, Launch
<1>6. StreamType
  BY DEF Init, StreamType
<1> QED BY <1>1, <1>2, <1>3, <1>4, <1>5, <1>6 DEF TypeOK

\* A process that an action leaves alone keeps its type.
LEMMA TypesUnchanged ==
    /\ HostType /\ UNCHANGED hostVars => HostType'
    /\ BarrierType /\ UNCHANGED barrierVars => BarrierType'
    /\ LoaderType /\ UNCHANGED loaderVars => LoaderType'
    /\ SchedType /\ UNCHANGED schedVars => SchedType'
    /\ ComputeType /\ UNCHANGED computeVars => ComputeType'
    /\ StreamType /\ UNCHANGED streamVars => StreamType'
<1>1. HostType /\ UNCHANGED hostVars => HostType'
  BY DEF HostType, hostVars
<1>2. BarrierType /\ UNCHANGED barrierVars => BarrierType'
  BY DEF BarrierType, barrierVars
<1>3. LoaderType /\ UNCHANGED loaderVars => LoaderType'
  BY DEF LoaderType, loaderVars
<1>4. SchedType /\ UNCHANGED schedVars => SchedType'
  BY DEF SchedType, schedVars
<1>5. ComputeType /\ UNCHANGED computeVars => ComputeType'
  BY DEF ComputeType, computeVars
<1>6. StreamType /\ UNCHANGED streamVars => StreamType'
  BY DEF StreamType, streamVars
<1> QED BY <1>1, <1>2, <1>3, <1>4, <1>5, <1>6

LEMMA TypeOKHost ==
    ASSUME TypeOK
    PROVE  /\ \A p \in Programs, t \in WarpCounts : HostStart(p, t) => TypeOK'
           /\ HostClear => TypeOK'
<1>1. ASSUME NEW p \in Programs, NEW t \in WarpCounts, HostStart(p, t) PROVE TypeOK'
  <2>1. HostType'
    BY <1>1, GpgpuTopAssumption DEF TypeOK, HostType, HostStart, Launch
  <2> QED BY <1>1, <2>1, TypesUnchanged DEF TypeOK, HostStart
<1>2. ASSUME HostClear PROVE TypeOK'
  <2>1. HostType'
    BY <1>2 DEF TypeOK, HostType, HostClear
  <2> QED BY <1>2, <2>1, TypesUnchanged DEF TypeOK, HostClear
<1> QED BY <1>1, <1>2

LEMMA TypeOKBarrier ==
    ASSUME TypeOK, BarrierCore
    PROVE  TypeOK'
<1> USE WarpSlotsAssumption
<1>0. ASSUME NEW loop \in {"poll", "release", "kernel_done"},
             NEW end \in {"ready", "complete", "poll"}, NextCU(loop, end)
      PROVE  /\ b_pc' \in {"poll", "ready", "release", "complete", "kernel_done"}
             /\ b_c' \in CU
  BY <1>0 DEF TypeOK, BarrierType, NextCU, CU
<1>1. CASE BarrierLaunch
  <2>1. BarrierType'
    BY <1>1 DEF TypeOK, BarrierType, HostType, BarrierLaunch, LaunchFault, CU
  <2> QED BY <1>1, <2>1, TypesUnchanged DEF TypeOK, BarrierLaunch
<1>2. CASE BarrierPollEvent
  <2>1. Head(barrier_events[b_c]) \in Event /\ Tail(barrier_events[b_c]) \in Seq(Event)
    BY <1>2, StreamOperators DEF TypeOK, BarrierType, StreamType, BarrierPollEvent
  <2>2. BarrierType'
    <3>1. b_pc' \in {"poll", "ready", "release", "complete", "kernel_done"} /\ b_c' \in CU
      BY <1>0, <1>2 DEF BarrierPollEvent
    <3>2. OnEvent(b_c, Head(barrier_events[b_c]))
          /\ UNCHANGED <<busy, done, fault>>
      BY <1>2 DEF BarrierPollEvent
    <3>3. <<b_c, Head(barrier_events[b_c]).slot_id>> \in CU \X Slot
      BY <2>1 DEF TypeOK, BarrierType, Event
    <3>4. arrived' \in SUBSET (CU \X Slot) /\ finished' \in SUBSET (CU \X Slot)
      BY <3>2, <3>3 DEF TypeOK, BarrierType, OnEvent
    <3>5. barrier' \in [total_warps: Nat, stalled_count: Nat, done_count: Nat]
      BY <3>2 DEF TypeOK, BarrierType, OnEvent
    <3> QED BY <3>1, <3>2, <3>4, <3>5 DEF TypeOK, BarrierType
  <2>3. StreamType'
    BY <1>2, <2>1 DEF TypeOK, StreamType, BarrierPollEvent
  <2> QED BY <1>2, <2>2, <2>3, TypesUnchanged DEF TypeOK, BarrierPollEvent
<1>3. CASE BarrierPollEmpty
  <2>1. BarrierType'
    BY <1>0, <1>3 DEF TypeOK, BarrierType, BarrierPollEmpty
  <2> QED BY <1>3, <2>1, TypesUnchanged DEF TypeOK, BarrierPollEmpty
<1>4. CASE BarrierTestRelease
  <2>1. BarrierType'
    BY <1>4 DEF TypeOK, BarrierType, BarrierTestRelease, AcknowledgeRelease
  <2> QED BY <1>4, <2>1, TypesUnchanged DEF TypeOK, BarrierTestRelease
<1>5. ASSUME NEW sig \in Signal, NEW end \in {"poll", "complete"},
             BarrierSignal(sig, end)
      PROVE  TypeOK'
  <2>1. BarrierType'
    BY <1>0, <1>5 DEF TypeOK, BarrierType, BarrierSignal, Signal
  <2>2. Append(barrier_signal[b_c], sig) \in Seq(Signal)
    BY StreamOperators DEF TypeOK, BarrierType, StreamType
  <2>3. StreamType'
    BY <1>5, <2>2 DEF TypeOK, StreamType, BarrierSignal
  <2> QED BY <1>5, <2>1, <2>3, TypesUnchanged DEF TypeOK, BarrierSignal
<1>6. CASE BarrierTestComplete
  <2>1. BarrierType'
    BY <1>6 DEF TypeOK, BarrierType, BarrierTestComplete
  <2> QED BY <1>6, <2>1, TypesUnchanged DEF TypeOK, BarrierTestComplete
<1> QED BY <1>1, <1>2, <1>3, <1>4, <1>5, <1>6 DEF BarrierCore, Signal

LEMMA TypeOKLoader ==
    ASSUME TypeOK, ProgramLoader
    PROVE  TypeOK'
<1>1. CASE LoaderReset
  <2>1. LoaderType'
    BY <1>1, WarpSlotsAssumption, GpgpuTopAssumption
       DEF TypeOK, LoaderType, LoaderReset, LoaderIdle, Word
  <2> QED BY <1>1, <2>1, TypesUnchanged DEF TypeOK, LoaderReset
<1>2. CASE LoaderWord
  <2>1. loader.load_idx < MAX_PROGRAM_LEN =>
            loader.load_idx + 1 \in 0 .. MAX_PROGRAM_LEN /\ loader.load_idx \in ProgramAddr
    BY GpgpuTopAssumption DEF TypeOK, LoaderType, ProgramAddr
  <2>2. loader' \in [loaded: BOOLEAN, load_idx: 0 .. MAX_PROGRAM_LEN,
                    regs_done: BOOLEAN, seed_c: 0 .. NUM_CUS,
                    seed_slot: 0 .. MAX_WARPS_PER_CU, seed_i: Word,
                    blocked: BOOLEAN]
    BY <1>2, <2>1 DEF TypeOK, LoaderType, LoaderWord
  <2>3. loader.load_idx < Len(program) => program[loader.load_idx + 1] \in Instr
    BY DEF TypeOK, HostType, LoaderType
  <2>4. program_store' \in [ProgramAddr -> Instr \cup {NoInstr}]
    BY <1>2, <2>1, <2>3 DEF TypeOK, LoaderType, LoaderWord
  <2>5. LoaderType'
    BY <2>2, <2>4 DEF LoaderType
  <2> QED BY <1>2, <2>5, TypesUnchanged DEF TypeOK, LoaderWord
<1>3. CASE LoaderSeed
  <2>0. /\ loader.seed_slot + 1 \in 0 .. MAX_WARPS_PER_CU /\ 0 \in Word
        /\ loader.seed_i + 1 < SEED_WORDS => loader.seed_i + 1 \in Word
    BY <1>3, WarpSlotsAssumption, GpgpuTopAssumption DEF TypeOK, LoaderType, LoaderSeed, Word
  <2>1. LoaderType'
    BY <1>3, <2>0 DEF TypeOK, LoaderType, LoaderSeed, AdvanceSeed
  <2>2. [slot_id |-> loader.seed_slot, word |-> loader.seed_i, value |-> launches] \in Seed
    BY <1>3, WarpSlotsAssumption DEF TypeOK, HostType, LoaderType, LoaderSeed, Seed, Slot
  <2>3. loader.seed_c \in CU
    BY <1>3, WarpSlotsAssumption DEF TypeOK, LoaderType, LoaderSeed, Seeding, CU
  <2>4. reg_seed' \in [CU -> Seq(Seed)]
    <3>1. Append(reg_seed[loader.seed_c],
                 [slot_id |-> loader.seed_slot, word |-> loader.seed_i, value |-> launches])
            \in Seq(Seed)
      BY <2>2, <2>3, StreamOperators DEF TypeOK, StreamType
    <3> QED BY <1>3, <2>3, <3>1 DEF TypeOK, StreamType, LoaderSeed
  <2>5. StreamType'
    BY <1>3, <2>4 DEF TypeOK, StreamType, LoaderSeed
  <2> QED BY <1>3, <2>1, <2>5, TypesUnchanged DEF TypeOK, LoaderSeed
<1>4. CASE LoaderToken
  <2>0. loader.seed_c \in CU /\ loader.seed_c + 1 \in 0 .. NUM_CUS /\ 0 \in 0 .. MAX_WARPS_PER_CU
    BY <1>4, WarpSlotsAssumption DEF TypeOK, LoaderType, LoaderToken, Seeding, CU
  <2>1. LoaderType'
    BY <1>4, <2>0 DEF TypeOK, LoaderType, LoaderToken
  <2>2. StreamType'
    BY <1>4, <2>0, StreamOperators DEF TypeOK, StreamType, LoaderToken
  <2> QED BY <1>4, <2>1, <2>2, TypesUnchanged DEF TypeOK, LoaderToken
<1>5. CASE LoaderFinish
  <2>0. 0 \in 0 .. NUM_CUS
    BY WarpSlotsAssumption
  <2>1. LoaderType'
    BY <1>5, <2>0 DEF TypeOK, LoaderType, LoaderFinish
  <2> QED BY <1>5, <2>1, TypesUnchanged DEF TypeOK, LoaderFinish
<1>6. CASE LoaderBlock
  <2>1. LoaderType'
    BY <1>6 DEF TypeOK, LoaderType, LoaderBlock
  <2> QED BY <1>6, <2>1, TypesUnchanged DEF TypeOK, LoaderBlock
<1> QED BY <1>1, <1>2, <1>3, <1>4, <1>5, <1>6 DEF ProgramLoader

LEMMA TypeOKScheduler ==
    ASSUME TypeOK, NEW c \in CU, SchedulerCore(c)
    PROVE  TypeOK'
<1>0. slots[c] \in [Slot -> WarpSlot]
  BY DEF TypeOK, SchedType
<1>1. CASE SchedLaunch(c)
  <2>1. SchedType'
    BY <1>0, <1>1, SlotOperatorsType DEF TypeOK, HostType, SchedType, SchedLaunch
  <2>2. StreamType'
    BY <1>1, StreamOperators DEF TypeOK, StreamType, SchedLaunch
  <2> QED BY <1>1, <2>1, <2>2, TypesUnchanged DEF TypeOK, SchedLaunch
<1>2. ASSUME NEW s \in Slot, SchedDispatch(c, s) PROVE TypeOK'
  <2>1. SchedType'
    BY <1>0, <1>2, SlotOperatorsType DEF TypeOK, SchedType, SchedDispatch
  <2>2. Append(dispatch_out[c], BuildDispatch(slots[c], s)) \in Seq(Dispatch)
    BY <1>0, <1>2, SlotOperatorsType, StreamOperators DEF TypeOK, StreamType
  <2>3. StreamType'
    BY <1>2, <2>2 DEF TypeOK, StreamType, SchedDispatch
  <2> QED BY <1>2, <2>1, <2>3, TypesUnchanged DEF TypeOK, SchedDispatch
<1>3. CASE SchedNoDispatch(c)
  <2>1. SchedType'
    BY <1>3 DEF TypeOK, SchedType, SchedNoDispatch
  <2> QED BY <1>3, <2>1, TypesUnchanged DEF TypeOK, SchedNoDispatch
<1>4. CASE SchedStatus(c)
  <2>1. Head(status_in[c]) \in Status /\ Tail(status_in[c]) \in Seq(Status)
    BY <1>4, StreamOperators DEF TypeOK, StreamType, SchedStatus
  <2>2. RecordResult(slots[c], Head(status_in[c])) \in [Slot -> WarpSlot]
    BY <1>0, <2>1, SlotOperatorsType
  <2>3. [code |-> Head(status_in[c]).code, slot_id |-> Head(status_in[c]).slot_id] \in Event
    BY <2>1 DEF Status, Event
  <2>4. SchedType'
    BY <1>4, <2>2 DEF TypeOK, SchedType, SchedStatus
  <2>5. StreamType'
    BY <1>4, <2>1, <2>3, StreamOperators DEF TypeOK, StreamType, SchedStatus
  <2> QED BY <1>4, <2>4, <2>5, TypesUnchanged DEF TypeOK, SchedStatus
<1>5. CASE SchedNoStatus(c)
  <2>1. SchedType'
    BY <1>5 DEF TypeOK, SchedType, SchedNoStatus
  <2> QED BY <1>5, <2>1, TypesUnchanged DEF TypeOK, SchedNoStatus
<1>6. CASE SchedSignal(c)
  <2>1. SchedType'
    BY <1>0, <1>6, SlotOperatorsType DEF TypeOK, SchedType, SchedSignal
  <2>2. StreamType'
    BY <1>6, StreamOperators DEF TypeOK, StreamType, SchedSignal
  <2> QED BY <1>6, <2>1, <2>2, TypesUnchanged DEF TypeOK, SchedSignal
<1>7. CASE SchedNoSignal(c)
  <2>1. SchedType'
    BY <1>7 DEF TypeOK, SchedType, SchedNoSignal
  <2> QED BY <1>7, <2>1, TypesUnchanged DEF TypeOK, SchedNoSignal
<1>8. CASE SchedSample(c)
  <2>1. SchedType'
    BY <1>8 DEF TypeOK, SchedType, SchedSample
  <2> QED BY <1>8, <2>1, TypesUnchanged DEF TypeOK, SchedSample
<1>9. CASE SchedNoToken(c)
  <2>1. SchedType'
    BY <1>9 DEF TypeOK, SchedType, SchedNoToken
  <2> QED BY <1>9, <2>1, TypesUnchanged DEF TypeOK, SchedNoToken
<1> QED BY <1>1, <1>2, <1>3, <1>4, <1>5, <1>6, <1>7, <1>8, <1>9 DEF SchedulerCore

\* executeOneWarp() reports on the slot it was given.
LEMMA ExecuteOneWarpType ==
    ASSUME NEW d \in Dispatch, NEW store, NEW len
    PROVE  ExecuteOneWarp(d, store, len) \subseteq Status
BY DEF ExecuteOneWarp, Dispatch, Status, ProgramAddr

LEMMA TypeOKCompute ==
    ASSUME TypeOK, NEW c \in CU, ComputePipeline(c)
    PROVE  TypeOK'
<1>1. CASE ComputeSeed(c)
  <2>1. Head(reg_seed[c]) \in Seed /\ Tail(reg_seed[c]) \in Seq(Seed)
    BY <1>1, StreamOperators DEF TypeOK, StreamType, ComputeSeed
  <2>2. ComputeType'
    BY <1>1, <2>1 DEF TypeOK, ComputeType, ComputeSeed, Seed
  <2>3. StreamType'
    BY <1>1, <2>1 DEF TypeOK, StreamType, ComputeSeed
  <2> QED BY <1>1, <2>2, <2>3, TypesUnchanged DEF TypeOK, ComputeSeed
<1>2. CASE ComputeNoSeed(c)
  <2>1. ComputeType'
    BY <1>2 DEF TypeOK, ComputeType, ComputeNoSeed
  <2> QED BY <1>2, <2>1, TypesUnchanged DEF TypeOK, ComputeNoSeed
<1>3. CASE ComputeAccept(c)
  <2>1. Head(dispatch_out[c]) \in Dispatch /\ Tail(dispatch_out[c]) \in Seq(Dispatch)
    BY <1>3, StreamOperators DEF TypeOK, StreamType, ComputeAccept
  <2>2. ComputeType'
    BY <1>3, <2>1 DEF TypeOK, ComputeType, ComputeAccept
  <2>3. StreamType'
    BY <1>3, <2>1 DEF TypeOK, StreamType, ComputeAccept
  <2> QED BY <1>3, <2>2, <2>3, TypesUnchanged DEF TypeOK, ComputeAccept
<1>4. CASE ComputeNoDispatch(c)
  <2>1. ComputeType'
    BY <1>4 DEF TypeOK, ComputeType, ComputeNoDispatch
  <2> QED BY <1>4, <2>1, TypesUnchanged DEF TypeOK, ComputeNoDispatch
<1>5. CASE ComputeExecute(c)
  <2>1. NotExecuting \in Dispatch
    BY WarpSlotsAssumption DEF NotExecuting, Dispatch, Slot
  <2>2. ComputeType'
    BY <1>5, <2>1 DEF TypeOK, ComputeType, ComputeExecute
  <2>3. PICK st \in ExecuteOneWarp(executing[c], program_store, Len(program)) :
            status_in' = [status_in EXCEPT ![c] = Append(@, st)]
    BY <1>5 DEF ComputeExecute
  <2>4. st \in Status
    BY <2>3, ExecuteOneWarpType DEF TypeOK, ComputeType
  <2>5. Append(status_in[c], st) \in Seq(Status)
    BY <2>4, StreamOperators DEF TypeOK, StreamType
  <2>6. StreamType'
    BY <1>5, <2>3, <2>5 DEF TypeOK, StreamType, ComputeExecute
  <2> QED BY <1>5, <2>2, <2>6, TypesUnchanged DEF TypeOK, ComputeExecute
<1> QED BY <1>1, <1>2, <1>3, <1>4, <1>5 DEF ComputePipeline

LEMMA TypeOKStep == TypeOK /\ [Next]_vars => TypeOK'
<1> SUFFICES ASSUME TypeOK, [Next]_vars PROVE TypeOK'
  OBVIOUS
<1>1. CASE UNCHANGED vars
  BY <1>1, TypesUnchanged DEF vars, TypeOK, hostVars, barrierVars, loaderVars,
     schedVars, computeVars, streamVars
<1> QED
  BY <1>1, TypeOKHost, TypeOKBarrier, TypeOKLoader, TypeOKScheduler, TypeOKCompute
     DEF Next

(***************************************************************************)
(* Every register, process state and stream of gpgpu_scheduler keeps its   *)
(* type, however often and whenever the host writes start.                 *)
(***************************************************************************)
THEOREM TypeCorrect == Spec => []TypeOK
BY TypeOKInit, TypeOKStep, PTL DEF Spec
-----------------------------------------------------------------------------
(***************************************************************************)
(* Streams, slots and counting                                             *)
(***************************************************************************)
LEMMA SingletonTail ==
    ASSUME NEW S, NEW q \in Seq(S), Len(q) = 1
    PROVE  Tail(q) = <<>>
<1>1. Tail(q) \in Seq(S) /\ Len(Tail(q)) = 0
  OBVIOUS
<1>2. \A r \in Seq(S) : Len(r) = 0 => r = <<>>
  OBVIOUS
<1> QED BY <1>1, <1>2

LEMMA AppendNonEmpty ==
    ASSUME NEW S, NEW q \in Seq(S), NEW e \in S
    PROVE  Append(q, e) # <<>>
<1>1. Len(Append(q, e)) = Len(q) + 1 /\ Len(q) \in Nat
  OBVIOUS
<1>2. Len(<<>>) = 0
  OBVIOUS
<1> QED BY <1>1, <1>2

LEMMA EmptyElements == Elements(<<>>) = {}
BY DEF Elements

LEMMA AppendElements ==
    ASSUME NEW S, NEW q \in Seq(S), NEW e \in S
    PROVE  Elements(Append(q, e)) = Elements(q) \cup {e}
<1>1. DOMAIN Append(q, e) = 1 .. Len(q) + 1 /\ DOMAIN q = 1 .. Len(q)
  OBVIOUS
<1>2. \A i \in 1 .. Len(q) : Append(q, e)[i] = q[i]
  OBVIOUS
<1>3. Append(q, e)[Len(q) + 1] = e
  OBVIOUS
<1>4. Len(q) \in Nat
  OBVIOUS
<1>5. Elements(Append(q, e)) \subseteq Elements(q) \cup {e}
  BY <1>1, <1>2, <1>3, <1>4 DEF Elements
<1>6. Elements(q) \subseteq Elements(Append(q, e))
  BY <1>1, <1>2, <1>4 DEF Elements
<1>7. e \in Elements(Append(q, e))
  BY <1>1, <1>3, <1>4 DEF Elements
<1> QED BY <1>5, <1>6, <1>7

LEMMA TailElements ==
    ASSUME NEW S, NEW q \in Seq(S), q # <<>>
    PROVE  Elements(q) = {Head(q)} \cup Elements(Tail(q))
<1>1. Len(q) \in Nat /\ Len(q) > 0
  OBVIOUS
<1>2. DOMAIN q = 1 .. Len(q) /\ DOMAIN Tail(q) = 1 .. Len(q) - 1
  BY <1>1
<1>3. Head(q) = q[1]
  OBVIOUS
<1>4. \A i \in 1 .. Len(q) - 1 : Tail(q)[i] = q[i + 1]
  BY <1>1
<1>5. \A i \in 1 .. Len(q) : i # 1 => i - 1 \in 1 .. Len(q) - 1 /\ Tail(q)[i - 1] = q[i]
  BY <1>1, <1>4
<1>6. Elements(q) \subseteq {Head(q)} \cup Elements(Tail(q))
  BY <1>2, <1>3, <1>5 DEF Elements
<1>7. Head(q) \in Elements(q)
  BY <1>1, <1>2, <1>3 DEF Elements
<1>8. Elements(Tail(q)) \subseteq Elements(q)
  <2>1. \A i \in 1 .. Len(q) - 1 : i + 1 \in 1 .. Len(q)
    BY <1>1
  <2> QED BY <1>2, <1>4, <2>1 DEF Elements
<1> QED BY <1>6, <1>7, <1>8

\* An event of a slot that has none in flight.
LEMMA AppendOncePerSlot ==
    ASSUME NEW q \in Seq(Event), NEW e \in Event, OncePerSlot(q),
           \A f \in Elements(q) : f.slot_id # e.slot_id
    PROVE  OncePerSlot(Append(q, e))
<1>1. DOMAIN Append(q, e) = 1 .. Len(q) + 1 /\ DOMAIN q = 1 .. Len(q) /\ Len(q) \in Nat
  OBVIOUS
<1>2. \A i \in 1 .. Len(q) : Append(q, e)[i] = q[i]
  OBVIOUS
<1>3. Append(q, e)[Len(q) + 1] = e
  OBVIOUS
<1>4. \A i \in 1 .. Len(q) : q[i].slot_id # e.slot_id
  BY <1>1 DEF Elements
<1> SUFFICES ASSUME NEW i \in 1 .. Len(q) + 1, NEW j \in 1 .. Len(q) + 1,
                    Append(q, e)[i].slot_id = Append(q, e)[j].slot_id
             PROVE  i = j
  BY <1>1 DEF OncePerSlot
<1>5. CASE i \in 1 .. Len(q) /\ j \in 1 .. Len(q)
  BY <1>1, <1>2, <1>5 DEF OncePerSlot
<1>6. CASE i = Len(q) + 1 /\ j \in 1 .. Len(q)
  BY <1>2, <1>3, <1>4, <1>6
<1>7. CASE j = Len(q) + 1 /\ i \in 1 .. Len(q)
  BY <1>2, <1>3, <1>4, <1>7
<1> QED BY <1>1, <1>5, <1>6, <1>7

LEMMA TailOncePerSlot ==
    ASSUME NEW q \in Seq(Event), q # <<>>, OncePerSlot(q)
    PROVE  /\ OncePerSlot(Tail(q))
           /\ \A f \in Elements(Tail(q)) : f.slot_id # Head(q).slot_id
<1>1. Len(q) \in Nat /\ Len(q) > 0
  OBVIOUS
<1>2. DOMAIN q = 1 .. Len(q) /\ DOMAIN Tail(q) = 1 .. Len(q) - 1
  BY <1>1
<1>3. Head(q) = q[1]
  OBVIOUS
<1>4. \A i \in 1 .. Len(q) - 1 : Tail(q)[i] = q[i + 1]
  BY <1>1
<1>5. \A i \in 1 .. Len(q) - 1 : i + 1 \in 1 .. Len(q) /\ i + 1 # 1 /\ 1 \in 1 .. Len(q)
  BY <1>1
<1>6. OncePerSlot(Tail(q))
  <2> SUFFICES ASSUME NEW i \in 1 .. Len(q) - 1, NEW j \in 1 .. Len(q) - 1,
                      Tail(q)[i].slot_id = Tail(q)[j].slot_id
               PROVE  i = j
    BY <1>2 DEF OncePerSlot
  <2>1. i + 1 = j + 1
    BY <1>2, <1>4, <1>5 DEF OncePerSlot
  <2> QED BY <1>1, <2>1
<1>7. \A i \in 1 .. Len(q) - 1 : Tail(q)[i].slot_id # Head(q).slot_id
  <2> TAKE i \in 1 .. Len(q) - 1
  <2> QED BY <1>2, <1>3, <1>4, <1>5 DEF OncePerSlot
<1> QED BY <1>2, <1>6, <1>7 DEF Elements

LEMMA AppendAtMostOneRelease ==
    ASSUME NEW q \in Seq(Signal), NEW sig \in Signal, AtMostOneRelease(q),
           sig = "release" => "release" \notin Elements(q)
    PROVE  AtMostOneRelease(Append(q, sig))
<1>1. DOMAIN Append(q, sig) = 1 .. Len(q) + 1 /\ DOMAIN q = 1 .. Len(q) /\ Len(q) \in Nat
  OBVIOUS
<1>2. \A i \in 1 .. Len(q) : Append(q, sig)[i] = q[i]
  OBVIOUS
<1>3. Append(q, sig)[Len(q) + 1] = sig
  OBVIOUS
<1>4. \A i \in 1 .. Len(q) : sig = "release" => q[i] # "release"
  BY <1>1 DEF Elements
<1> SUFFICES ASSUME NEW i \in 1 .. Len(q) + 1, NEW j \in 1 .. Len(q) + 1,
                    Append(q, sig)[i] = "release", Append(q, sig)[j] = "release"
             PROVE  i = j
  BY <1>1 DEF AtMostOneRelease
<1>5. CASE i \in 1 .. Len(q) /\ j \in 1 .. Len(q)
  BY <1>1, <1>2, <1>5 DEF AtMostOneRelease
<1>6. CASE i = Len(q) + 1 /\ j \in 1 .. Len(q)
  BY <1>2, <1>3, <1>4, <1>6
<1>7. CASE j = Len(q) + 1 /\ i \in 1 .. Len(q)
  BY <1>2, <1>3, <1>4, <1>7
<1> QED BY <1>1, <1>5, <1>6, <1>7

LEMMA TailAtMostOneRelease ==
    ASSUME NEW q \in Seq(Signal), q # <<>>, AtMostOneRelease(q)
    PROVE  /\ AtMostOneRelease(Tail(q))
           /\ Head(q) = "release" => "release" \notin Elements(Tail(q))
<1>1. Len(q) \in Nat /\ Len(q) > 0
  OBVIOUS
<1>2. DOMAIN q = 1 .. Len(q) /\ DOMAIN Tail(q) = 1 .. Len(q) - 1
  BY <1>1
<1>3. Head(q) = q[1]
  OBVIOUS
<1>4. \A i \in 1 .. Len(q) - 1 : Tail(q)[i] = q[i + 1]
  BY <1>1
<1>5. \A i \in 1 .. Len(q) - 1 : i + 1 \in 1 .. Len(q) /\ i + 1 # 1 /\ 1 \in 1 .. Len(q)
  BY <1>1
<1>6. AtMostOneRelease(Tail(q))
  <2> SUFFICES ASSUME NEW i \in 1 .. Len(q) - 1, NEW j \in 1 .. Len(q) - 1,
                      Tail(q)[i] = "release", Tail(q)[j] = "release"
               PROVE  i = j
    BY <1>2 DEF AtMostOneRelease
  <2>1. i + 1 = j + 1
    BY <1>2, <1>4, <1>5 DEF AtMostOneRelease
  <2> QED BY <1>1, <2>1
<1>7. ASSUME Head(q) = "release", NEW i \in 1 .. Len(q) - 1
      PROVE  Tail(q)[i] # "release"
  BY <1>2, <1>3, <1>4, <1>5, <1>7 DEF AtMostOneRelease
<1> QED BY <1>2, <1>6, <1>7 DEF Elements
-----------------------------------------------------------------------------
\* With enough values in cu_id_t, a warp has one slot and one CU.
LEMMA LocalWarpInjective ==
    ASSUME NUM_CUS <= CU_ID_VALUES,
           NEW c \in CU, NEW d \in CU, NEW s \in Slot, NEW r \in Slot,
           LocalWarp(c, s) = LocalWarp(d, r)
    PROVE  c = d /\ s = r
<1>1. c \in Nat /\ d \in Nat /\ s \in Nat /\ r \in Nat /\ NUM_CUS \in Nat /\ c < NUM_CUS /\ d < NUM_CUS
  BY WarpSlotsAssumption DEF CU, Slot
<1>2. CuId(c) = c /\ CuId(d) = d
  BY <1>1, WarpSlotsAssumption DEF CuId
<1>3. c + s * NUM_CUS = d + r * NUM_CUS
  BY <1>2 DEF LocalWarp
<1>4. ASSUME NEW a \in Nat, NEW b \in Nat, a < b PROVE a * NUM_CUS + NUM_CUS <= b * NUM_CUS
  <2>1. PICK k \in Nat : b = a + 1 + k
    <3>1. b - a - 1 \in Nat
      BY <1>4
    <3> QED BY <3>1
  <2>2. b * NUM_CUS = a * NUM_CUS + NUM_CUS + k * NUM_CUS
    BY <1>1, <2>1
  <2>3. k * NUM_CUS \in Nat /\ a * NUM_CUS \in Nat
    BY <1>1
  <2> QED BY <1>1, <2>2, <2>3
<1>5. s * NUM_CUS \in Nat /\ r * NUM_CUS \in Nat
  BY <1>1
<1>6. ~(s < r)
  BY <1>1, <1>3, <1>4, <1>5
<1>7. ~(r < s)
  BY <1>1, <1>3, <1>4, <1>5
<1>8. s = r
  BY <1>1, <1>6, <1>7
<1> QED BY <1>1, <1>3, <1>5, <1>8

\* A kernel of t warps occupies at most t slots.
LEMMA KernelSize ==
    ASSUME NUM_CUS <= CU_ID_VALUES, NEW t \in Nat
    PROVE  IsFiniteSet(WarpsOf(t)) /\ Cardinality(WarpsOf(t)) <= t
<1> DEFINE f == [w \in WarpsOf(t) |-> LocalWarp(w[1], w[2])]
<1>1. IsFiniteSet(0 .. t - 1) /\ Cardinality(0 .. t - 1) = t
  BY FS_Interval
<1>2. f \in [WarpsOf(t) -> 0 .. t - 1]
  BY LocalWarpType DEF WarpsOf
<1>3. \A w, v \in WarpsOf(t) : f[w] = f[v] => w = v
  <2> SUFFICES ASSUME NEW w \in WarpsOf(t), NEW v \in WarpsOf(t), f[w] = f[v]
               PROVE  w = v
    OBVIOUS
  <2>1. w \in CU \X Slot /\ v \in CU \X Slot
    BY DEF WarpsOf
  <2>2. LocalWarp(w[1], w[2]) = LocalWarp(v[1], v[2])
    OBVIOUS
  <2> HIDE DEF f
  <2>3. w[1] = v[1] /\ w[2] = v[2]
    BY <2>1, <2>2, LocalWarpInjective
  <2> QED BY <2>1, <2>3
<1>4. f \in Injection(WarpsOf(t), 0 .. t - 1)
  BY <1>2, <1>3 DEF Injection, IsInjective
<1> HIDE DEF f
<1> QED BY <1>1, <1>4, FS_Injection

\* A set of t warps of a kernel of t warps is the whole kernel.
LEMMA FullCount ==
    ASSUME NUM_CUS <= CU_ID_VALUES, NEW t \in Nat,
           NEW A \in SUBSET WarpsOf(t), Cardinality(A) = t
    PROVE  A = WarpsOf(t)
BY KernelSize, FS_Subset, FS_CardinalityType

\* The counters of barrierCore never run out of slots to count.
LEMMA SlotsFinite ==
    ASSUME NEW A \in SUBSET (CU \X Slot)
    PROVE  IsFiniteSet(A)
<1>1. IsFiniteSet(CU) /\ IsFiniteSet(Slot)
  BY WarpSlotsAssumption, FS_Interval DEF CU, Slot
<1>2. IsFiniteSet(CU \X Slot)
  BY <1>1, FS_Product
<1> QED BY <1>2, FS_Subset
-----------------------------------------------------------------------------
(***************************************************************************)
(* IInv.  The frame lemmas say on which part of the state each of its      *)
(* conjuncts depends; then there is one lemma per action.                  *)
(***************************************************************************)
\* A step that changes neither state nor resume_pc of any slot of CU c.
SameSlots(c) ==
    \A s \in Slot : /\ slots'[c][s].state = slots[c][s].state
                    /\ slots'[c][s].resume_pc = slots[c][s].resume_pc

LEMMA FrameSets ==
    ASSUME \A c \in CU : SameSlots(c),
           \A c \in CU : ReleasePending(c)' <=> ReleasePending(c)
    PROVE  Waiting' = Waiting /\ Finished' = Finished
<1>1. \A w \in CU \X Slot : SlotAt(w)'.state = SlotAt(w).state
  BY DEF SlotAt, SameSlots
<1> QED BY <1>1 DEF Waiting, Finished

\* Membership in the sets of warps, before and after a step.
LEMMA WarpSets ==
    /\ Waiting \subseteq CU \X Slot /\ Finished \subseteq CU \X Slot
    /\ Waiting' \subseteq CU \X Slot /\ Finished' \subseteq CU \X Slot
    /\ \A d \in CU, s \in Slot :
          /\ <<d, s>> \in Finished <=> slots[d][s].state = "DONE"
          /\ <<d, s>> \in Waiting <=> slots[d][s].state = "STALLED" /\ ~ReleasePending(d)
          /\ <<d, s>> \in Finished' <=> slots'[d][s].state = "DONE"
          /\ <<d, s>> \in Waiting' <=> slots'[d][s].state = "STALLED" /\ ~ReleasePending(d)'
<1>1. /\ Waiting \subseteq CU \X Slot /\ Finished \subseteq CU \X Slot
      /\ Waiting' \subseteq CU \X Slot /\ Finished' \subseteq CU \X Slot
  BY DEF Waiting, Finished
<1>2. ASSUME NEW d \in CU, NEW s \in Slot
      PROVE  /\ <<d, s>> \in Finished <=> slots[d][s].state = "DONE"
             /\ <<d, s>> \in Finished' <=> slots'[d][s].state = "DONE"
  BY DEF Finished, SlotAt
<1>3. ASSUME NEW d \in CU, NEW s \in Slot
      PROVE  /\ <<d, s>> \in Waiting <=> slots[d][s].state = "STALLED" /\ ~ReleasePending(d)
             /\ <<d, s>> \in Waiting' <=> slots'[d][s].state = "STALLED" /\ ~ReleasePending(d)'
  BY DEF Waiting, SlotAt
<1> QED BY <1>1, <1>2, <1>3

LEMMA SetsUnchanged ==
    ASSUME \A d \in CU, s \in Slot : /\ <<d, s>> \in Waiting' <=> <<d, s>> \in Waiting
                                     /\ <<d, s>> \in Finished' <=> <<d, s>> \in Finished
    PROVE  Waiting' = Waiting /\ Finished' = Finished
<1>1. ASSUME NEW w \in CU \X Slot
      PROVE  (w \in Waiting' <=> w \in Waiting) /\ (w \in Finished' <=> w \in Finished)
  <2>1. PICK d \in CU, s \in Slot : w = <<d, s>>
    OBVIOUS
  <2>2. /\ <<d, s>> \in Waiting' <=> <<d, s>> \in Waiting
        /\ <<d, s>> \in Finished' <=> <<d, s>> \in Finished
    OBVIOUS
  <2> QED BY <2>1, <2>2
<1>4. Waiting' = Waiting
  BY <1>1, WarpSets
<1>5. Finished' = Finished
  BY <1>1, WarpSets
<1> QED BY <1>4, <1>5

LEMMA FrameQuiet ==
    ASSUME UNCHANGED hostVars, QuietBeforeLaunch, launches # 0
    PROVE  QuietBeforeLaunch'
BY DEF QuietBeforeLaunch, hostVars

LEMMA FrameLoader ==
    ASSUME LoaderProgress, UNCHANGED <<hostVars, loaderVars>>,
           \A c \in CU : TokenSent(c)' => TokenSent(c)
    PROVE  LoaderProgress'
BY DEF LoaderProgress, StoreHolds, hostVars, loaderVars

LEMMA FrameShare ==
    ASSUME NEW c \in CU, ShareOf(c), SameSlots(c), total_warps' = total_warps,
           loaded_sig'[c] = loaded_sig[c], cu_launch'[c] = cu_launch[c],
           busy_cu_scheduler'[c] = busy_cu_scheduler[c]
    PROVE  ShareOf(c)'
BY DEF ShareOf, SameSlots, Kernel

LEMMA FramePipeline ==
    ASSUME NEW c \in CU, TypeOK, PipelineOf(c), SameSlots(c), program' = program,
           dispatch_out'[c] = dispatch_out[c], status_in'[c] = status_in[c],
           executing'[c] = executing[c], busy_cu'[c] = busy_cu[c],
           c_pc'[c] = "execute" <=> c_pc[c] = "execute",
           busy_cu[c] => busy_cu_scheduler'[c]
    PROVE  PipelineOf(c)'
<1>1. InFlight(c)' = InFlight(c)
  BY DEF InFlight
<1>2. ASSUME NEW d \in Dispatch, DispatchAgrees(c, d) PROVE DispatchAgrees(c, d)'
  BY <1>2 DEF DispatchAgrees, SameSlots, Dispatch
<1>3. ASSUME NEW st \in Status, StatusAgrees(c, st) PROVE StatusAgrees(c, st)'
  BY <1>3 DEF StatusAgrees, SameSlots, KernelStopsAt, Status
<1>4. executing[c] \in Dispatch
  BY DEF TypeOK, ComputeType
<1>5. dispatch_out[c] # <<>> => Head(dispatch_out[c]) \in Dispatch
  BY StreamOperators DEF TypeOK, StreamType
<1>6. status_in[c] # <<>> => Head(status_in[c]) \in Status
  BY StreamOperators DEF TypeOK, StreamType
<1>7. dispatch_out'[c] # <<>> => DispatchAgrees(c, Head(dispatch_out[c]))'
  BY <1>2, <1>5 DEF PipelineOf
<1>8. c_pc'[c] = "execute" => DispatchAgrees(c, executing[c])'
  BY <1>2, <1>4 DEF PipelineOf
<1>9. status_in'[c] # <<>> => StatusAgrees(c, Head(status_in[c]))'
  BY <1>3, <1>6 DEF PipelineOf
<1> QED BY <1>1, <1>7, <1>8, <1>9 DEF PipelineOf

LEMMA FrameEvents ==
    ASSUME EventsAgree, barrier_events' = barrier_events, Waiting' = Waiting,
           Finished' = Finished, arrived' = arrived, finished' = finished
    PROVE  EventsAgree'
BY DEF EventsAgree, EventAgrees, OncePerSlot, Elements

LEMMA FrameCounters ==
    ASSUME CountersAgree, barrier_events' = barrier_events, Waiting' = Waiting,
           Finished' = Finished, arrived' = arrived, finished' = finished,
           barrier' = barrier, done' = done
    PROVE  CountersAgree'
BY DEF CountersAgree, Reported, Elements

LEMMA FramePhase ==
    ASSUME BarrierPhase, UNCHANGED <<busy, done, fault, barrier, b_pc, b_c>>,
           UNCHANGED <<arrived, finished, total_warps>>, Finished' = Finished,
           done => barrier_events' = barrier_events
    PROVE  BarrierPhase'
BY DEF BarrierPhase, Kernel

LEMMA FrameSignals ==
    ASSUME SignalsAgree, UNCHANGED <<done, b_pc, b_c, barrier_signal, total_warps>>,
           \A c \in CU : SameSlots(c)
    PROVE  SignalsAgree'
BY DEF SignalsAgree, ReleaseOf, HasWarp, Kernel, ReleasePending, AtMostOneRelease,
       Elements, SameSlots

\* The same while barrierCore is outside its release broadcast.
LEMMA FrameNoRelease ==
    ASSUME SignalsAgree, UNCHANGED <<barrier_signal, total_warps>>,
           b_pc # "release", b_pc' # "release", done => done',
           \A c \in CU : SameSlots(c)
    PROVE  /\ SignalsAgree'
           /\ \A c \in CU : ReleasePending(c)' <=> ReleasePending(c)
<1>1. \A c \in CU : ReleasePending(c)' <=> ReleasePending(c)
  BY DEF ReleasePending, Elements
<1>2. \A c \in CU : ReleaseOf(c)'
  <2> SUFFICES ASSUME NEW c \in CU, HasWarp(c)'
               PROVE  /\ ReleasePending(c)' =>
                            \A s \in Slot : <<c, s>> \in Kernel' => slots'[c][s].state = "STALLED"
                      /\ AtMostOneRelease(barrier_signal'[c])
    BY DEF ReleaseOf
  <2>1. HasWarp(c) /\ ReleaseOf(c) /\ Kernel' = Kernel
    BY DEF HasWarp, Kernel, SignalsAgree
  <2> QED BY <1>1, <2>1 DEF ReleaseOf, SameSlots
<1>3. \A c \in CU : "kernel_done" \in Elements(barrier_signal'[c]) => done'
  BY DEF SignalsAgree
<1> QED BY <1>1, <1>2, <1>3 DEF SignalsAgree

LEMMA FrameWaves ==
    ASSUME WavesAgree, Waiting' = Waiting, UNCHANGED <<program, total_warps>>,
           \A c \in CU : SameSlots(c)
    PROVE  WavesAgree'
<1>1. Released' = Released /\ Released \subseteq CU \X Slot /\ Waiting \subseteq CU \X Slot
  BY DEF Released, Kernel, WarpsOf, Waiting
<1>2. \A w \in CU \X Slot : SlotAt(w)'.resume_pc = SlotAt(w).resume_pc
  BY DEF SlotAt, SameSlots
<1>3. ASSUME NEW pc, NEW i PROVE KernelStopsAt(pc, i)' <=> KernelStopsAt(pc, i)
  BY DEF KernelStopsAt
<1> QED BY <1>1, <1>2, <1>3 DEF WavesAgree, KernelStopsAt
-----------------------------------------------------------------------------
\* A slot that holds a warp belongs to a launched CU and to the kernel; no
\* release and no kernel_done can be under way while one is READY.
LEMMA SlotFacts ==
    ASSUME IInv
    PROVE  /\ Waiting \subseteq Kernel /\ Finished \subseteq Kernel
           /\ \A c \in CU, s \in Slot : slots[c][s].state # "EMPTY" =>
                 cu_launch[c] # 0 /\ <<c, s>> \in Kernel
           /\ \A c \in CU, s \in Slot : slots[c][s].state = "READY" =>
                 ~ReleasePending(c) /\ ~done
<1>1. ASSUME NEW c \in CU, NEW s \in Slot, slots[c][s].state # "EMPTY"
      PROVE  cu_launch[c] # 0 /\ <<c, s>> \in Kernel
  BY <1>1 DEF IInv, ShareOfKernel, ShareOf
<1>2. ASSUME NEW c \in CU, NEW s \in Slot, slots[c][s].state = "READY"
      PROVE  ~ReleasePending(c) /\ ~done
  <2>1. <<c, s>> \in Kernel
    BY <1>1, <1>2
  <2>2. ~ReleasePending(c)
    BY <1>2, <2>1 DEF IInv, SignalsAgree, ReleaseOf, HasWarp
  <2>3. ~done
    BY <1>2, <2>1 DEF IInv, BarrierPhase, Finished, SlotAt
  <2> QED BY <2>2, <2>3
<1>3. Waiting \subseteq Kernel
  <2> SUFFICES ASSUME NEW w \in Waiting PROVE w \in Kernel
    OBVIOUS
  <2>1. w \in CU \X Slot /\ slots[w[1]][w[2]].state = "STALLED"
    BY DEF Waiting, SlotAt
  <2>2. w[1] \in CU /\ w[2] \in Slot /\ w = <<w[1], w[2]>>
    BY <2>1
  <2> QED BY <1>1, <2>1, <2>2
<1>4. Finished \subseteq Kernel
  <2> SUFFICES ASSUME NEW w \in Finished PROVE w \in Kernel
    OBVIOUS
  <2>1. w \in CU \X Slot /\ slots[w[1]][w[2]].state = "DONE"
    BY DEF Finished, SlotAt
  <2>2. w[1] \in CU /\ w[2] \in Slot /\ w = <<w[1], w[2]>>
    BY <2>1
  <2> QED BY <1>1, <2>1, <2>2
<1> QED BY <1>1, <1>2, <1>3, <1>4

\* A step that touches no slot: the sets of warps stay as they are.
LEMMA SlotsUnchanged ==
    ASSUME UNCHANGED slots
    PROVE  \A c \in CU : SameSlots(c)
BY DEF SameSlots

\* Polls that find a stream empty, and seeding, leave IInv alone.
LEMMA QuietStep ==
    ASSUME IInv, TypeOK', StartsSeen', UNCHANGED <<hostVars, barrierVars, loaderVars>>,
           UNCHANGED <<slots, busy_cu_scheduler, busy_cu, cu_launch, executing>>,
           UNCHANGED <<dispatch_out, status_in, barrier_events, barrier_signal, loaded_sig>>,
           \A c \in CU : c_pc'[c] = "execute" <=> c_pc[c] = "execute"
    PROVE  IInv'
<1>1. \A c \in CU : SameSlots(c)
  BY SlotsUnchanged
<1>2. \A c \in CU : ReleasePending(c)' <=> ReleasePending(c)
  BY DEF ReleasePending, barrierVars, Elements
<1>3. Waiting' = Waiting /\ Finished' = Finished
  BY <1>1, <1>2, FrameSets
<1>4. \A c \in CU : TokenSent(c)' <=> TokenSent(c)
  BY DEF TokenSent
<1>5. QuietBeforeLaunch'
  BY <1>4 DEF IInv, QuietBeforeLaunch, hostVars, barrierVars, loaderVars
<1>6. LoaderProgress'
  BY <1>4, FrameLoader DEF IInv
<1>7. ShareOfKernel'
  BY <1>1, FrameShare DEF IInv, ShareOfKernel, hostVars
<1>8. PipelinesAgree'
  <2> SUFFICES ASSUME NEW c \in CU PROVE PipelineOf(c)'
    BY DEF PipelinesAgree
  <2>1. TypeOK /\ PipelineOf(c)
    BY DEF IInv, PipelinesAgree
  <2>2. busy_cu[c] => busy_cu_scheduler'[c]
    BY <2>1 DEF PipelineOf
  <2> QED BY <1>1, <2>1, <2>2, FramePipeline DEF hostVars
<1>9. EventsAgree' /\ CountersAgree' /\ BarrierPhase'
  BY <1>3, FrameEvents, FrameCounters, FramePhase DEF IInv, barrierVars, hostVars
<1>10. SignalsAgree' /\ WavesAgree'
  BY <1>1, <1>3, FrameSignals, FrameWaves DEF IInv, barrierVars, hostVars
<1> QED BY <1>5, <1>6, <1>7, <1>8, <1>9, <1>10 DEF IInv
-----------------------------------------------------------------------------
LEMMA InitIInv == Init => IInv
<1> SUFFICES ASSUME Init PROVE IInv
  OBVIOUS
<1>1. TypeOK
  BY TypeOKInit
<1>2. Kernel = {}
  <2>1. \A w \in CU \X Slot : LocalWarp(w[1], w[2]) \in Nat
    BY LocalWarpType
  <2> QED BY <2>1 DEF Init, Kernel, WarpsOf
<1>3. \A c \in CU, s \in Slot : slots[c][s].state = "EMPTY" /\ slots[c][s].resume_pc = 0
  BY DEF Init, NewSlot
<1>4. Waiting = {} /\ Finished = {}
  BY <1>3 DEF Waiting, Finished, SlotAt
<1>5. QuietBeforeLaunch
  BY DEF Init, QuietBeforeLaunch, TokenSent
<1>6. LoaderProgress
  <2>1. loader = LoaderIdle /\ \A c \in CU : ~TokenSent(c)
    BY DEF Init, TokenSent
  <2> QED BY <2>1 DEF LoaderProgress, LoaderIdle, ProgramAddr
<1>7. ShareOfKernel
  BY <1>3 DEF Init, ShareOfKernel, ShareOf
<1>8. PipelinesAgree
  BY DEF Init, PipelinesAgree, PipelineOf, InFlight
<1>9. EventsAgree /\ CountersAgree
  BY <1>4, EmptyElements, FS_EmptySet
     DEF Init, EventsAgree, OncePerSlot, CountersAgree, Reported
<1>10. BarrierPhase
  BY DEF Init, BarrierPhase
<1>11. SignalsAgree
  BY <1>2, EmptyElements DEF Init, SignalsAgree, ReleaseOf, HasWarp
<1>12. WavesAgree
  BY <1>2, <1>4 DEF WavesAgree, Released
<1>13. StartsSeen
  BY DEF Init, StartsSeen, StartSeen
<1> QED BY <1>1, <1>5, <1>6, <1>7, <1>8, <1>9, <1>10, <1>11, <1>12, <1>13 DEF IInv
-----------------------------------------------------------------------------
LEMMA HostStartIInv ==
    ASSUME MAX_LAUNCHES = 1, IInv, TypeOK', StartsSeen', NEW p \in Programs, NEW t \in WarpCounts,
           HostStart(p, t)
    PROVE  IInv'
<1>1. launches = 0 /\ launches' = 1
  BY DEF IInv, TypeOK, HostType, Launch, HostStart
<1>2. /\ loader = LoaderIdle /\ ~busy /\ ~done /\ ~fault
      /\ \A c \in CU : ~TokenSent(c) /\ barrier_signal[c] = <<>>
  BY <1>1 DEF IInv, QuietBeforeLaunch
<1>3. /\ UNCHANGED <<barrierVars, loaderVars, schedVars, computeVars, streamVars>>
  BY DEF HostStart
<1>4. /\ arrived = {} /\ finished = {} /\ b_pc = "poll"
  BY <1>2 DEF IInv, BarrierPhase
<1>5. \A c \in CU : /\ cu_launch[c] = 0 /\ loaded_sig[c] = <<>> /\ ~busy_cu_scheduler[c]
                    /\ \A s \in Slot : slots[c][s].state = "EMPTY" /\ slots[c][s].resume_pc = 0
  BY <1>2 DEF IInv, ShareOfKernel, ShareOf, TokenSent
<1>6. Waiting = {} /\ Finished = {} /\ Waiting' = {} /\ Finished' = {}
  BY <1>3, <1>5 DEF Waiting, Finished, SlotAt, schedVars
<1>7. QuietBeforeLaunch'
  BY <1>1 DEF QuietBeforeLaunch
<1>8. LoaderProgress'
  <2>1. loader' = LoaderIdle /\ \A c \in CU : ~TokenSent(c)'
    BY <1>2, <1>3 DEF TokenSent, loaderVars, schedVars, streamVars
  <2> QED BY <2>1 DEF LoaderProgress, LoaderIdle, ProgramAddr
<1>9. ShareOfKernel'
  BY <1>3, <1>5 DEF ShareOfKernel, ShareOf, schedVars, streamVars
<1>10. PipelinesAgree'
  <2> SUFFICES ASSUME NEW c \in CU PROVE PipelineOf(c)'
    BY DEF PipelinesAgree
  <2>1. PipelineOf(c) /\ ~busy_cu[c]
    BY <1>5 DEF IInv, PipelinesAgree, PipelineOf
  <2>2. dispatch_out[c] = <<>> /\ status_in[c] = <<>> /\ c_pc[c] # "execute"
    BY <2>1 DEF PipelineOf, InFlight, IInv, TypeOK, StreamType
  <2>3. UNCHANGED <<dispatch_out, status_in, c_pc, busy_cu, busy_cu_scheduler>>
    BY <1>3 DEF schedVars, computeVars, streamVars
  <2> QED BY <2>1, <2>2, <2>3 DEF PipelineOf, InFlight
<1>11. EventsAgree' /\ CountersAgree'
  <2>1. UNCHANGED <<barrier_events, arrived, finished, barrier, done>>
    BY <1>3 DEF barrierVars, streamVars
  <2> QED BY <1>6, <2>1, FrameEvents, FrameCounters DEF IInv
<1>12. BarrierPhase'
  BY <1>2, <1>3, <1>4 DEF IInv, BarrierPhase, barrierVars
<1>13. SignalsAgree'
  <2> SUFFICES ASSUME NEW c \in CU
               PROVE  ReleaseOf(c)' /\ ("kernel_done" \in Elements(barrier_signal[c]) => done)'
    BY DEF SignalsAgree
  <2>1. barrier_signal'[c] = <<>> /\ b_pc' = "poll"
    BY <1>2, <1>3, <1>4 DEF barrierVars, streamVars
  <2>2. Elements(barrier_signal'[c]) = {}
    BY <2>1, EmptyElements
  <2> QED BY <2>1, <2>2 DEF ReleaseOf, ReleasePending, AtMostOneRelease
<1>14. WavesAgree'
  <2>1. \A w \in CU \X Slot : SlotAt(w)'.resume_pc = 0
    BY <1>3, <1>5 DEF SlotAt, schedVars
  <2> QED BY <1>6, <2>1 DEF WavesAgree, Released, Kernel, WarpsOf
<1> QED BY <1>7, <1>8, <1>9, <1>10, <1>11, <1>12, <1>13, <1>14 DEF IInv

LEMMA HostClearIInv ==
    ASSUME IInv, TypeOK', StartsSeen', HostClear
    PROVE  IInv'
<1>1. /\ UNCHANGED <<total_warps, program, launches>>
      /\ UNCHANGED <<barrierVars, loaderVars, schedVars, computeVars, streamVars>>
      /\ start /\ start' = FALSE
  BY DEF HostClear
<1>2. \A c \in CU : SameSlots(c)
  BY <1>1, SlotsUnchanged DEF schedVars
<1>3. \A c \in CU : ReleasePending(c)' <=> ReleasePending(c)
  BY <1>1 DEF ReleasePending, barrierVars, streamVars, Elements
<1>4. Waiting' = Waiting /\ Finished' = Finished
  BY <1>2, <1>3, FrameSets
<1>5. \A c \in CU : TokenSent(c)' <=> TokenSent(c)
  BY <1>1 DEF TokenSent, schedVars, streamVars
<1>6. QuietBeforeLaunch'
  BY <1>1 DEF IInv, QuietBeforeLaunch
<1>7. LoaderProgress'
  <2>1. LoaderProgress
    BY DEF IInv
  <2> QED BY <1>1, <1>5, <2>1 DEF LoaderProgress, StoreHolds, loaderVars
<1>8. ShareOfKernel'
  BY <1>1, <1>2, FrameShare DEF IInv, ShareOfKernel, schedVars, streamVars
<1>9. PipelinesAgree'
  <2> SUFFICES ASSUME NEW c \in CU PROVE PipelineOf(c)'
    BY DEF PipelinesAgree
  <2>1. TypeOK /\ PipelineOf(c)
    BY DEF IInv, PipelinesAgree
  <2> QED BY <1>1, <1>2, <2>1, FramePipeline
             DEF PipelineOf, schedVars, computeVars, streamVars
<1>10. EventsAgree' /\ CountersAgree' /\ BarrierPhase'
  BY <1>1, <1>4, FrameEvents, FrameCounters, FramePhase DEF IInv, barrierVars, streamVars
<1>11. SignalsAgree' /\ WavesAgree'
  BY <1>1, <1>2, <1>4, FrameSignals, FrameWaves DEF IInv, barrierVars, streamVars
<1> QED BY <1>6, <1>7, <1>8, <1>9, <1>10, <1>11 DEF IInv
-----------------------------------------------------------------------------
\* Only the loader, its store, the seed streams and the tokens change.
LEMMA LoaderFrame ==
    ASSUME IInv, TypeOK', StartsSeen', UNCHANGED <<hostVars, barrierVars, schedVars, computeVars>>,
           UNCHANGED <<dispatch_out, status_in, barrier_events, barrier_signal>>,
           launches = 1, LoaderProgress', ShareOfKernel'
    PROVE  IInv'
<1>1. \A c \in CU : SameSlots(c)
  BY SlotsUnchanged DEF schedVars
<1>2. \A c \in CU : ReleasePending(c)' <=> ReleasePending(c)
  BY DEF ReleasePending, barrierVars, Elements
<1>3. Waiting' = Waiting /\ Finished' = Finished
  BY <1>1, <1>2, FrameSets
<1>4. QuietBeforeLaunch'
  BY FrameQuiet DEF IInv
<1>5. PipelinesAgree'
  <2> SUFFICES ASSUME NEW c \in CU PROVE PipelineOf(c)'
    BY DEF PipelinesAgree
  <2>1. TypeOK /\ PipelineOf(c)
    BY DEF IInv, PipelinesAgree
  <2> QED BY <1>1, <2>1, FramePipeline DEF PipelineOf, hostVars, schedVars, computeVars
<1>6. EventsAgree' /\ CountersAgree' /\ BarrierPhase'
  BY <1>3, FrameEvents, FrameCounters, FramePhase DEF IInv, barrierVars, hostVars
<1>7. SignalsAgree' /\ WavesAgree'
  BY <1>1, <1>3, FrameSignals, FrameWaves DEF IInv, barrierVars, hostVars
<1> QED BY <1>4, <1>5, <1>6, <1>7 DEF IInv

LEMMA LoaderIInv ==
    ASSUME IInv, TypeOK', StartsSeen', ProgramLoader
    PROVE  IInv'
<1> USE DEF IInv
<1>0. /\ UNCHANGED <<hostVars, barrierVars, schedVars, computeVars>>
      /\ UNCHANGED <<dispatch_out, status_in, barrier_events, barrier_signal>>
  BY DEF ProgramLoader, LoaderReset, LoaderWord, LoaderBlock, LoaderSeed, LoaderToken,
         LoaderFinish, streamVars
<1>1. launches = 1
  <2>1. start => launches = 1
    BY DEF QuietBeforeLaunch
  <2>2. loader # LoaderIdle => launches = 1
    BY DEF LoaderProgress
  <2>3. start \/ loader # LoaderIdle
    <3>1. CASE LoaderToken \/ LoaderSeed
      <4>1. loader.loaded /\ LoaderIdle.loaded = FALSE
        BY <3>1 DEF LoaderToken, LoaderSeed, Seeding, LoaderIdle
      <4> QED BY <4>1
    <3> QED BY <3>1 DEF ProgramLoader, LoaderReset, LoaderWord, LoaderBlock, LoaderFinish
  <2> QED BY <2>1, <2>2, <2>3
<1>2. UNCHANGED loaded_sig => ShareOfKernel'
  BY <1>0, SlotsUnchanged, FrameShare DEF ShareOfKernel, schedVars, hostVars
<1>3. UNCHANGED loaded_sig => \A c \in CU : TokenSent(c)' <=> TokenSent(c)
  BY <1>0 DEF TokenSent, schedVars
<1>4. UNCHANGED <<start, program, launches>>
  BY <1>0 DEF hostVars
<1> HIDE DEF IInv
<1>5. LoaderProgress /\ TypeOK
  BY DEF IInv
<1>6. CASE LoaderReset
  <2>1. loader' = LoaderIdle /\ UNCHANGED program_store /\ ~start /\ UNCHANGED loaded_sig
    BY <1>6 DEF LoaderReset, streamVars
  <2>2. /\ loader'.loaded = FALSE /\ loader'.load_idx = 0 /\ loader'.seed_slot = 0
        /\ loader'.blocked = FALSE
    BY <2>1 DEF LoaderIdle
  <2>3. 0 < MAX_WARPS_PER_CU
    BY WarpSlotsAssumption
  <2>4. LoaderProgress'
    BY <1>3, <1>4, <1>5, <2>1, <2>2, <2>3 DEF LoaderProgress, StoreHolds, ProgramAddr
  <2> QED BY <1>0, <1>1, <1>2, <2>1, <2>4, LoaderFrame
<1>7. CASE LoaderWord
  <2>1. UNCHANGED loaded_sig
    BY <1>7 DEF LoaderWord, streamVars
  <2>2. /\ loader'.loaded => loader'.load_idx = MAX_PROGRAM_LEN
        /\ loader'.seed_slot = loader.seed_slot /\ loader'.seed_c = loader.seed_c
        /\ loader'.regs_done = loader.regs_done
        /\ loader'.load_idx \in {loader.load_idx, loader.load_idx + 1}
    <3>1. /\ ~loader.loaded /\ loader.load_idx \in 0 .. MAX_PROGRAM_LEN
          /\ loader \in [loaded: BOOLEAN, load_idx: 0 .. MAX_PROGRAM_LEN,
                         regs_done: BOOLEAN, seed_c: 0 .. NUM_CUS,
                         seed_slot: 0 .. MAX_WARPS_PER_CU, seed_i: Word,
                         blocked: BOOLEAN]
      BY <1>5, <1>7 DEF LoaderWord, TypeOK, LoaderType
    <3>2. CASE loader.load_idx < MAX_PROGRAM_LEN
      <4>1. loader' = [loader EXCEPT !.load_idx = @ + 1]
        BY <1>7, <3>2 DEF LoaderWord
      <4> QED BY <3>1, <4>1
    <3>3. CASE ~(loader.load_idx < MAX_PROGRAM_LEN)
      <4>1. loader' = [loader EXCEPT !.loaded = TRUE]
        BY <1>7, <3>3 DEF LoaderWord
      <4>2. loader.load_idx = MAX_PROGRAM_LEN
        BY <3>1, <3>3, GpgpuTopAssumption
      <4> QED BY <3>1, <4>1, <4>2
    <3> QED BY <3>2, <3>3
  <2>3. ASSUME NEW i \in ProgramAddr, StoreHolds(i) \/ i = loader.load_idx
        PROVE  StoreHolds(i)' \/ loader'.load_idx = loader.load_idx
    BY <1>4, <1>5, <1>7, <2>3 DEF LoaderWord, StoreHolds, TypeOK, LoaderType
  <2>4. ASSUME NEW i \in ProgramAddr, StoreHolds(i) PROVE StoreHolds(i)'
    BY <1>4, <1>5, <1>7, <2>4 DEF LoaderWord, StoreHolds, TypeOK, LoaderType
  <2>5. ASSUME NEW i \in ProgramAddr, i < loader'.load_idx PROVE StoreHolds(i)'
    <3>1. i < loader.load_idx \/ i = loader.load_idx
      BY <1>5, <2>2, <2>5 DEF TypeOK, LoaderType, ProgramAddr
    <3>2. CASE i < loader.load_idx
      BY <1>5, <2>4, <3>2 DEF LoaderProgress
    <3>3. CASE i = loader.load_idx
      BY <1>5, <2>3, <2>5, <3>3 DEF TypeOK, LoaderType, ProgramAddr
    <3> QED BY <3>1, <3>2, <3>3
  <2>6. start
    BY <1>7 DEF LoaderWord
  <2>7. LoaderProgress'
    BY <1>1, <1>3, <1>4, <1>5, <2>1, <2>2, <2>4, <2>5, <2>6 DEF LoaderProgress
  <2> QED BY <1>0, <1>1, <1>2, <2>1, <2>7, LoaderFrame
<1>8. CASE LoaderBlock \/ LoaderSeed
  <2>1. /\ start \/ loader.blocked
        /\ UNCHANGED <<loaded_sig, program_store>>
        /\ loader'.loaded = loader.loaded /\ loader'.load_idx = loader.load_idx
        /\ loader'.regs_done = loader.regs_done /\ loader'.seed_c = loader.seed_c
    BY <1>5, <1>8 DEF LoaderBlock, LoaderSeed, AdvanceSeed, TypeOK, LoaderType, streamVars
  <2>2. LoaderProgress'
    BY <1>1, <1>3, <1>4, <1>5, <2>1 DEF LoaderProgress, StoreHolds
  <2> QED BY <1>0, <1>1, <1>2, <2>1, <2>2, LoaderFrame
<1>9. CASE LoaderToken
  <2> DEFINE k == loader.seed_c
  <2>1. /\ UNCHANGED program_store /\ loader.loaded /\ ~loader.regs_done
        /\ loader.seed_slot = MAX_WARPS_PER_CU /\ k \in CU
        /\ loaded_sig' = [loaded_sig EXCEPT ![k] = Append(@, TRUE)]
    BY <1>5, <1>9, WarpSlotsAssumption DEF LoaderToken, Seeding, TypeOK, LoaderType, CU
  <2>2. /\ loader'.loaded = loader.loaded /\ loader'.load_idx = loader.load_idx
        /\ loader'.seed_c = k + 1 /\ k \in Nat
    BY <1>5, <1>9, WarpSlotsAssumption DEF LoaderToken, TypeOK, LoaderType
  <2>3. ~TokenSent(k)
    BY <1>5, <2>1, WarpSlotsAssumption DEF LoaderProgress, CU
  <2>4. cu_launch[k] = 0 /\ loaded_sig[k] = <<>>
    BY <2>3 DEF TokenSent
  <2>5. \A i \in ProgramAddr : StoreHolds(i)
    BY <1>5, <2>1, GpgpuTopAssumption DEF LoaderProgress, ProgramAddr
  <2>6. \A c \in CU : c # k => (TokenSent(c)' <=> TokenSent(c))
    BY <1>0, <1>5, <2>1 DEF TokenSent, schedVars, TypeOK, StreamType
  <2>7. LoaderProgress'
    <3>1. ASSUME NEW c \in CU, TokenSent(c)' PROVE loader'.seed_c > c
      <4>1. CASE c = k
        BY <2>2, <4>1
      <4>2. CASE c # k
        BY <1>5, <2>1, <2>2, <2>6, <3>1, <4>2, WarpSlotsAssumption DEF LoaderProgress, CU
      <4> QED BY <4>1, <4>2
    <3>2. \A i \in ProgramAddr : StoreHolds(i)'
      BY <1>4, <2>1, <2>5 DEF StoreHolds
    <3> QED BY <1>1, <1>4, <1>5, <2>2, <3>1, <3>2 DEF LoaderProgress
  <2>8. ShareOfKernel'
    <3> SUFFICES ASSUME NEW c \in CU PROVE ShareOf(c)'
      BY DEF ShareOfKernel
    <3>1. ShareOf(c) /\ SameSlots(c)
      BY <1>0, SlotsUnchanged DEF IInv, ShareOfKernel, schedVars
    <3>2. CASE c # k
      <4>1. loaded_sig'[c] = loaded_sig[c]
        BY <1>5, <2>1, <3>2 DEF TypeOK, StreamType
      <4> QED BY <1>0, <3>1, <4>1, FrameShare DEF schedVars, hostVars
    <3>3. CASE c = k
      <4>1. loaded_sig'[k] = Append(<<>>, TRUE)
        BY <1>5, <2>1, <2>4 DEF TypeOK, StreamType
      <4>2. Len(loaded_sig'[k]) = 1
        BY <4>1
      <4> QED BY <1>0, <2>4, <3>1, <3>3, <4>2 DEF ShareOf, SameSlots, schedVars
    <3> QED BY <3>2, <3>3
  <2> QED BY <1>0, <1>1, <2>7, <2>8, LoaderFrame
<1>10. CASE LoaderFinish
  <2>1. /\ UNCHANGED <<loaded_sig, program_store>>
        /\ loader'.loaded = loader.loaded /\ loader'.load_idx = loader.load_idx
        /\ loader'.regs_done
    BY <1>5, <1>10 DEF LoaderFinish, TypeOK, LoaderType, streamVars
  <2>2. LoaderProgress'
    BY <1>1, <1>3, <1>4, <1>5, <2>1 DEF LoaderProgress, StoreHolds
  <2> QED BY <1>0, <1>1, <1>2, <2>1, <2>2, LoaderFrame
<1> QED BY <1>6, <1>7, <1>8, <1>9, <1>10 DEF ProgramLoader
-----------------------------------------------------------------------------
\* barrierCore changes nothing of the host, the loader and the CUs.
LEMMA BarrierFrame ==
    ASSUME IInv, TypeOK', StartsSeen', UNCHANGED <<hostVars, loaderVars, schedVars, computeVars>>,
           UNCHANGED <<dispatch_out, status_in, loaded_sig>>, launches # 0,
           EventsAgree', CountersAgree', BarrierPhase', SignalsAgree', WavesAgree'
    PROVE  IInv'
<1>1. \A c \in CU : SameSlots(c)
  BY SlotsUnchanged DEF schedVars
<1>2. QuietBeforeLaunch'
  BY FrameQuiet DEF IInv
<1>3. LoaderProgress'
  <2>1. \A c \in CU : TokenSent(c)' <=> TokenSent(c)
    BY DEF TokenSent, schedVars
  <2> QED BY <2>1, FrameLoader DEF IInv
<1>4. ShareOfKernel'
  BY <1>1, FrameShare DEF IInv, ShareOfKernel, schedVars, hostVars
<1>5. PipelinesAgree'
  <2> SUFFICES ASSUME NEW c \in CU PROVE PipelineOf(c)'
    BY DEF PipelinesAgree
  <2>1. TypeOK /\ PipelineOf(c)
    BY DEF IInv, PipelinesAgree
  <2> QED BY <1>1, <2>1, FramePipeline DEF PipelineOf, hostVars, schedVars, computeVars
<1> QED BY <1>2, <1>3, <1>4, <1>5 DEF IInv

\* barrierCore is only active once the host has started the device.
LEMMA BarrierLaunched ==
    ASSUME IInv, BarrierCore
    PROVE  launches # 0
<1>1. start \/ busy \/ done
  <2>1. b_pc \in {"ready", "release", "complete"} => busy
    BY DEF IInv, BarrierPhase
  <2>2. b_pc = "kernel_done" => done
    BY DEF IInv, BarrierPhase
  <2> QED BY <2>1, <2>2 DEF BarrierCore, BarrierLaunch, BarrierPollEvent, BarrierPollEmpty,
               BarrierTestRelease, BarrierSignal, BarrierTestComplete
<1> QED BY <1>1 DEF IInv, QuietBeforeLaunch

LEMMA BarrierLaunchIInv ==
    ASSUME IInv, TypeOK', StartsSeen', BarrierLaunch
    PROVE  IInv'
<1>1. /\ UNCHANGED <<hostVars, loaderVars, schedVars, computeVars, streamVars>>
      /\ UNCHANGED <<done, b_pc>> /\ b_pc = "poll" /\ ~busy
      /\ arrived' = {} /\ finished' = {} /\ b_c' = 0
      /\ barrier' = [total_warps |-> total_warps, stalled_count |-> 0, done_count |-> 0]
      /\ busy' = ~LaunchFault(total_warps)
      /\ fault' = (fault \/ LaunchFault(total_warps))
  BY DEF BarrierLaunch
<1>2. \A c \in CU : SameSlots(c)
  BY <1>1, SlotsUnchanged DEF schedVars
<1>3. \A c \in CU : ReleasePending(c)' <=> ReleasePending(c)
  BY <1>1 DEF ReleasePending, streamVars, Elements
<1>4. Waiting' = Waiting /\ Finished' = Finished
  BY <1>2, <1>3, FrameSets
<1>5. UNCHANGED <<barrier_events, barrier_signal, total_warps, program>>
  BY <1>1 DEF streamVars, hostVars
<1>6. ~done => arrived = {} /\ finished = {}
  BY <1>1 DEF IInv, BarrierPhase
<1>7. EventsAgree'
  BY <1>1, <1>4, <1>5 DEF IInv, EventsAgree, EventAgrees, OncePerSlot, Elements
<1>8. CountersAgree'
  <2>1. barrier'.stalled_count = 0 /\ barrier'.done_count = 0
    BY <1>1
  <2>2. Reported("STALLED_AT_BARRIER")' = Reported("STALLED_AT_BARRIER")
        /\ Reported("COMPLETE")' = Reported("COMPLETE")
    BY <1>5 DEF Reported, Elements
  <2> QED BY <1>1, <1>4, <1>6, <2>1, <2>2, FS_EmptySet DEF IInv, CountersAgree
<1>9. BarrierPhase'
  <2>1. busy' <=> ~LaunchFault(total_warps)
    BY <1>1
  <2>2. fault' <=> fault \/ LaunchFault(total_warps)
    BY <1>1
  <2>3. LaunchFault(total_warps)' <=> LaunchFault(total_warps)
    BY <1>5 DEF LaunchFault
  <2>4. barrier'.total_warps = total_warps
    BY <1>1
  <2> QED BY <1>1, <1>4, <1>5, <2>1, <2>2, <2>3, <2>4 DEF IInv, BarrierPhase, Kernel
<1>10. SignalsAgree'
  BY <1>1, <1>2, <1>5, FrameNoRelease DEF IInv
<1>11. WavesAgree'
  BY <1>2, <1>4, <1>5, FrameWaves DEF IInv
<1>12. launches # 0
  BY BarrierLaunched DEF BarrierCore
<1> QED BY <1>1, <1>7, <1>8, <1>9, <1>10, <1>11, <1>12, BarrierFrame DEF streamVars

LEMMA BarrierPollIInv ==
    ASSUME IInv, TypeOK', StartsSeen', BarrierPollEvent \/ BarrierPollEmpty
    PROVE  IInv'
<1>1. /\ UNCHANGED <<hostVars, loaderVars, schedVars, computeVars>>
      /\ UNCHANGED <<busy, done, fault, dispatch_out, status_in, barrier_signal, loaded_sig>>
      /\ busy /\ b_pc = "poll" /\ b_pc' \in {"poll", "ready"}
      /\ b_pc' = "ready" => b_c' = 0
  BY DEF BarrierPollEvent, BarrierPollEmpty, NextCU, streamVars
<1>2. \A c \in CU : SameSlots(c)
  BY <1>1, SlotsUnchanged DEF schedVars
<1>3. \A c \in CU : ReleasePending(c)' <=> ReleasePending(c)
  BY <1>1 DEF ReleasePending, Elements
<1>4. Waiting' = Waiting /\ Finished' = Finished
  BY <1>2, <1>3, FrameSets
<1>5. UNCHANGED <<total_warps, program>> /\ launches # 0
  BY <1>1, BarrierLaunched DEF hostVars, BarrierCore
<1>6. SignalsAgree'
  BY <1>1, <1>2, <1>5, FrameNoRelease DEF IInv
<1>7. WavesAgree'
  BY <1>2, <1>4, <1>5, FrameWaves DEF IInv
<1>8. CASE BarrierPollEmpty
  <2>1. UNCHANGED <<barrier, arrived, finished, barrier_events>>
    BY <1>8 DEF BarrierPollEmpty, streamVars
  <2>2. EventsAgree' /\ CountersAgree'
    BY <1>1, <1>4, <2>1, FrameEvents, FrameCounters DEF IInv
  <2>3. BarrierPhase'
    BY <1>1, <1>4, <1>5, <2>1 DEF IInv, BarrierPhase, Kernel
  <2> QED BY <1>1, <1>5, <1>6, <1>7, <2>2, <2>3, BarrierFrame
<1>9. CASE BarrierPollEvent
  <2> DEFINE q == barrier_events[b_c]
             e == Head(q)
             w == <<b_c, e.slot_id>>
  <2>1. /\ q # <<>> /\ OnEvent(b_c, e)
        /\ barrier_events' = [barrier_events EXCEPT ![b_c] = Tail(q)]
    BY <1>9 DEF BarrierPollEvent
  <2>2. b_c \in CU /\ q \in Seq(Event)
    BY DEF IInv, TypeOK, BarrierType, StreamType
  <2>3. e \in Event /\ Tail(q) \in Seq(Event)
    BY <2>1, <2>2, StreamOperators
  <2>4. barrier_events'[b_c] = Tail(q)
        /\ \A c \in CU : c # b_c => barrier_events'[c] = barrier_events[c]
    BY <2>1, <2>2 DEF IInv, TypeOK, StreamType
  <2> HIDE DEF q, e
  <2>5. Elements(q) = {e} \cup Elements(Tail(q))
    BY <2>1, <2>2, TailElements DEF e
  <2>6. /\ OncePerSlot(q) /\ \A f \in Elements(q) : EventAgrees(b_c, f)
    BY <2>2 DEF IInv, EventsAgree, q
  <2>7. /\ OncePerSlot(Tail(q))
        /\ \A f \in Elements(Tail(q)) : f.slot_id # e.slot_id
    BY <2>1, <2>2, <2>6, TailOncePerSlot DEF e
  <2>8. ~done
    BY <2>1, <2>2 DEF IInv, BarrierPhase, q
  <2>9. EventAgrees(b_c, e)
    BY <2>5, <2>6
  <2>10. w \in CU \X Slot
    BY <2>2, <2>3 DEF Event
  <2>11. IsFiniteSet(arrived) /\ IsFiniteSet(finished)
    BY SlotsFinite DEF IInv, TypeOK, BarrierType
  <2>12. \A c \in CU, f \in Event :
            f \in Elements(barrier_events'[c]) =>
               f \in Elements(barrier_events[c]) /\ <<c, f.slot_id>> # w
    <3> SUFFICES ASSUME NEW c \in CU, NEW f \in Event, f \in Elements(barrier_events'[c])
                 PROVE  f \in Elements(barrier_events[c]) /\ <<c, f.slot_id>> # w
      OBVIOUS
    <3>1. CASE c = b_c
      BY <2>4, <2>5, <2>7, <3>1 DEF q
    <3>2. CASE c # b_c
      BY <2>4, <3>2
    <3> QED BY <3>1, <3>2
  <2>13. \A c \in CU, f \in Event :
            f \in Elements(barrier_events[c]) =>
               f \in Elements(barrier_events'[c]) \/ (c = b_c /\ f = e)
    <3> SUFFICES ASSUME NEW c \in CU, NEW f \in Event, f \in Elements(barrier_events[c])
                 PROVE  f \in Elements(barrier_events'[c]) \/ (c = b_c /\ f = e)
      OBVIOUS
    <3>1. CASE c = b_c
      BY <2>4, <2>5, <3>1 DEF q
    <3>2. CASE c # b_c
      BY <2>4, <3>2
    <3> QED BY <3>1, <3>2
  <2>14. \A c \in CU : /\ Elements(barrier_events[c]) \subseteq Event
                       /\ Elements(barrier_events'[c]) \subseteq Event
    BY DEF IInv, TypeOK, StreamType, Elements
  <2>15. \A code \in {"COMPLETE", "STALLED_AT_BARRIER"} :
            Reported(code) \subseteq Reported(code)' \cup (IF e.code = code THEN {w} ELSE {})
    <3> SUFFICES ASSUME NEW code \in {"COMPLETE", "STALLED_AT_BARRIER"},
                        NEW v \in Reported(code)
                 PROVE  v \in Reported(code)' \/ (e.code = code /\ v = w)
      OBVIOUS
    <3>1. v \in CU \X Slot /\ v[1] \in CU /\ v = <<v[1], v[2]>>
      BY DEF Reported
    <3>2. PICK f \in Elements(barrier_events[v[1]]) : f.code = code /\ f.slot_id = v[2]
      BY DEF Reported
    <3>3. CASE f \in Elements(barrier_events'[v[1]])
      BY <3>1, <3>2, <3>3 DEF Reported
    <3>4. CASE v[1] = b_c /\ f = e
      BY <3>1, <3>2, <3>4
    <3> QED BY <2>13, <2>14, <3>1, <3>2, <3>3, <3>4
  <2>16. \A c \in CU : OncePerSlot(barrier_events'[c])
    BY <2>4, <2>7 DEF IInv, EventsAgree
  <2>17. CASE e.code = "COMPLETE"
    <3>1. /\ barrier' = [barrier EXCEPT !.done_count = @ + 1]
          /\ finished' = finished \cup {w} /\ arrived' = arrived
      BY <2>1, <2>17 DEF OnEvent
    <3>2. w \in Finished /\ w \notin finished
      BY <2>9, <2>17 DEF EventAgrees
    <3>3. EventsAgree'
      <4> SUFFICES ASSUME NEW c \in CU, NEW f \in Elements(barrier_events'[c])
                   PROVE  EventAgrees(c, f)'
        BY <2>16 DEF EventsAgree
      <4>1. EventAgrees(c, f) /\ <<c, f.slot_id>> # w
        BY <2>12, <2>14 DEF IInv, EventsAgree
      <4> QED BY <1>4, <3>1, <4>1 DEF EventAgrees
    <3>4. CountersAgree'
      <4>1. Cardinality(finished') = Cardinality(finished) + 1
        BY <2>11, <3>1, <3>2, FS_AddElement
      <4>2. /\ barrier'.done_count = barrier.done_count + 1
            /\ barrier'.stalled_count = barrier.stalled_count
        BY <3>1 DEF IInv, TypeOK, BarrierType
      <4>3. Reported("STALLED_AT_BARRIER") \subseteq Reported("STALLED_AT_BARRIER")'
        BY <2>15, <2>17
      <4>4. Reported("COMPLETE") \subseteq Reported("COMPLETE")' \cup {w}
        BY <2>15, <2>17
      <4> QED BY <1>1, <1>4, <3>1, <3>2, <4>1, <4>2, <4>3, <4>4 DEF IInv, CountersAgree
    <3>5. BarrierPhase'
      <4>1. barrier'.total_warps = barrier.total_warps
        BY <3>1 DEF IInv, TypeOK, BarrierType
      <4> QED BY <1>1, <1>4, <1>5, <2>8, <4>1 DEF IInv, BarrierPhase
    <3> QED BY <1>1, <1>5, <1>6, <1>7, <3>3, <3>4, <3>5, BarrierFrame
  <2>18. CASE e.code # "COMPLETE"
    <3>0. e.code = "STALLED_AT_BARRIER"
      BY <2>3, <2>18 DEF Event
    <3>1. /\ barrier' = [barrier EXCEPT !.stalled_count = @ + 1]
          /\ arrived' = arrived \cup {w} /\ finished' = finished
      BY <2>1, <2>18 DEF OnEvent
    <3>2. w \in Waiting /\ w \notin arrived
      BY <2>9, <2>18 DEF EventAgrees
    <3>3. EventsAgree'
      <4> SUFFICES ASSUME NEW c \in CU, NEW f \in Elements(barrier_events'[c])
                   PROVE  EventAgrees(c, f)'
        BY <2>16 DEF EventsAgree
      <4>1. EventAgrees(c, f) /\ <<c, f.slot_id>> # w
        BY <2>12, <2>14 DEF IInv, EventsAgree
      <4> QED BY <1>4, <3>1, <4>1 DEF EventAgrees
    <3>4. CountersAgree'
      <4>1. Cardinality(arrived') = Cardinality(arrived) + 1
        BY <2>11, <3>1, <3>2, FS_AddElement
      <4>2. /\ barrier'.stalled_count = barrier.stalled_count + 1
            /\ barrier'.done_count = barrier.done_count
        BY <3>1 DEF IInv, TypeOK, BarrierType
      <4>3. Reported("COMPLETE") \subseteq Reported("COMPLETE")'
        BY <2>15, <2>18
      <4>4. Reported("STALLED_AT_BARRIER") \subseteq Reported("STALLED_AT_BARRIER")' \cup {w}
        BY <2>15, <3>0
      <4> QED BY <1>1, <1>4, <3>1, <3>2, <4>1, <4>2, <4>3, <4>4 DEF IInv, CountersAgree
    <3>5. BarrierPhase'
      <4>1. barrier'.total_warps = barrier.total_warps
        BY <3>1 DEF IInv, TypeOK, BarrierType
      <4> QED BY <1>1, <1>4, <1>5, <2>8, <4>1 DEF IInv, BarrierPhase
    <3> QED BY <1>1, <1>5, <1>6, <1>7, <3>3, <3>4, <3>5, BarrierFrame
  <2> QED BY <2>17, <2>18
<1> QED BY <1>8, <1>9

LEMMA BarrierTestReleaseIInv ==
    ASSUME NUM_CUS <= CU_ID_VALUES, IInv, TypeOK', StartsSeen', BarrierTestRelease
    PROVE  /\ IInv'
           /\ ~ReleaseReady => Waiting' = Waiting /\ Finished' = Finished
           /\ ReleaseReady => /\ Kernel # {} /\ Waiting = Kernel
                              /\ Waiting' = {} /\ Finished' = Finished
<1>1. /\ UNCHANGED <<hostVars, loaderVars, schedVars, computeVars, streamVars>>
      /\ UNCHANGED <<busy, done, fault, b_c, finished>> /\ b_pc = "ready"
  BY DEF BarrierTestRelease
<1>2. \A c \in CU : SameSlots(c)
  BY <1>1, SlotsUnchanged DEF schedVars
<1>3. /\ UNCHANGED <<total_warps, program, barrier_events, barrier_signal>>
      /\ UNCHANGED <<dispatch_out, status_in, loaded_sig>> /\ launches # 0
  BY <1>1, BarrierLaunched DEF hostVars, streamVars, BarrierCore
<1>4. busy /\ b_c = 0 /\ barrier.total_warps = total_warps
  BY <1>1 DEF IInv, BarrierPhase
<1>5. CASE ~ReleaseReady
  <2>1. b_pc' = "complete" /\ UNCHANGED <<barrier, arrived>>
    BY <1>5 DEF BarrierTestRelease
  <2>2. SignalsAgree' /\ \A c \in CU : ReleasePending(c)' <=> ReleasePending(c)
    BY <1>1, <1>2, <1>3, <2>1, FrameNoRelease DEF IInv
  <2>3. Waiting' = Waiting /\ Finished' = Finished
    BY <1>2, <2>2, FrameSets
  <2>4. EventsAgree' /\ CountersAgree' /\ WavesAgree'
    BY <1>1, <1>2, <1>3, <2>1, <2>3, FrameEvents, FrameCounters, FrameWaves DEF IInv
  <2>5. BarrierPhase'
    BY <1>1, <1>3, <1>4, <2>1, <2>3 DEF IInv, BarrierPhase, Kernel
  <2> QED BY <1>1, <1>3, <1>5, <2>2, <2>3, <2>4, <2>5, BarrierFrame
<1>6. CASE ReleaseReady
  <2>1. /\ b_pc' = "release" /\ arrived' = {}
        /\ barrier' = [barrier EXCEPT !.stalled_count = 0]
    BY <1>6 DEF BarrierTestRelease, AcknowledgeRelease
  <2>2. total_warps \in Nat /\ total_warps # 0 /\ Cardinality(arrived) = total_warps
    BY <1>4, <1>6 DEF ReleaseReady, IInv, CountersAgree, TypeOK, HostType
  <2>3. arrived = Kernel /\ Waiting = Kernel
    <3>1. arrived \subseteq Waiting /\ Waiting \subseteq Kernel
      BY SlotFacts DEF IInv, CountersAgree
    <3>2. arrived = Kernel
      BY <2>2, <3>1, FullCount DEF Kernel
    <3> QED BY <3>1, <3>2
  <2>4. Kernel # {}
    BY <2>2, <2>3, FS_EmptySet
  <2>5. \A w \in Kernel : SlotAt(w).state = "STALLED" /\ ~ReleasePending(w[1])
    BY <2>3 DEF Waiting
  <2>6. ~done
    <3> SUFFICES ASSUME done PROVE FALSE
      OBVIOUS
    <3>1. Finished = Kernel
      BY DEF IInv, BarrierPhase
    <3> QED BY <2>4, <2>5, <3>1 DEF Finished
  <2>7. \A c \in CU : Elements(barrier_events[c]) = {}
    <3> SUFFICES ASSUME NEW c \in CU, NEW e \in Elements(barrier_events[c]) PROVE FALSE
      OBVIOUS
    <3>1. EventAgrees(c, e)
      BY DEF IInv, EventsAgree
    <3>2. Finished \subseteq Kernel
      BY SlotFacts
    <3>3. CASE e.code = "COMPLETE"
      BY <2>5, <3>1, <3>2, <3>3 DEF EventAgrees, Finished
    <3>4. CASE e.code # "COMPLETE"
      BY <2>3, <3>1, <3>4 DEF EventAgrees
    <3> QED BY <3>3, <3>4
  <2>8. \A c \in CU : ReleasePending(c)'
    <3>1. \A c \in CU : 0 <= c
      BY WarpSlotsAssumption DEF CU
    <3> QED BY <1>1, <1>4, <2>1, <3>1 DEF ReleasePending
  <2>9. Waiting' = {} /\ Finished' = Finished
    <3>1. \A w \in CU \X Slot : SlotAt(w)'.state = SlotAt(w).state
      BY <1>2 DEF SlotAt, SameSlots
    <3>2. Finished' = Finished
      BY <3>1 DEF Finished
    <3>3. \A w \in CU \X Slot : ReleasePending(w[1])'
      BY <2>8
    <3> QED BY <3>2, <3>3 DEF Waiting
  <2>10. EventsAgree'
    BY <1>3, <2>7 DEF IInv, EventsAgree
  <2>11. CountersAgree'
    <3>1. /\ barrier'.stalled_count = 0 /\ barrier'.done_count = barrier.done_count
      BY <2>1 DEF IInv, TypeOK, BarrierType
    <3>2. Reported("COMPLETE")' = Reported("COMPLETE")
      BY <1>3 DEF Reported, Elements
    <3> QED BY <1>1, <2>1, <2>9, <3>1, <3>2, FS_EmptySet DEF IInv, CountersAgree
  <2>12. BarrierPhase'
    <3>1. barrier'.total_warps = barrier.total_warps
      BY <2>1 DEF IInv, TypeOK, BarrierType
    <3> QED BY <1>1, <1>3, <1>4, <2>1, <2>6, <3>1 DEF IInv, BarrierPhase
  <2>13. SignalsAgree'
    <3> SUFFICES ASSUME NEW c \in CU
                 PROVE  ReleaseOf(c)' /\ ("kernel_done" \in Elements(barrier_signal'[c]) => done')
      BY DEF SignalsAgree
    <3>1. "kernel_done" \in Elements(barrier_signal'[c]) => done'
      BY <1>1, <1>3 DEF IInv, SignalsAgree
    <3>2. ReleaseOf(c)'
      <4> SUFFICES ASSUME HasWarp(c)'
                   PROVE  /\ \A s \in Slot : <<c, s>> \in Kernel => slots'[c][s].state = "STALLED"
                          /\ AtMostOneRelease(barrier_signal'[c])
                          /\ "release" \notin Elements(barrier_signal'[c])
        BY <1>3 DEF ReleaseOf, Kernel
      <4>1. PICK s \in Slot : <<c, s>> \in Kernel
        BY <1>3 DEF HasWarp, Kernel
      <4>2. ~ReleasePending(c)
        BY <2>5, <4>1
      <4>3. HasWarp(c)
        BY <4>1 DEF HasWarp
      <4>4. AtMostOneRelease(barrier_signal'[c])
        BY <1>3, <4>3 DEF IInv, SignalsAgree, ReleaseOf
      <4>5. \A r \in Slot : <<c, r>> \in Kernel => slots'[c][r].state = "STALLED"
        BY <1>2, <2>5 DEF SlotAt, SameSlots
      <4> QED BY <1>3, <4>2, <4>4, <4>5 DEF ReleasePending
    <3> QED BY <3>1, <3>2
  <2>14. WavesAgree'
    <3>1. Released' = Kernel /\ Kernel \subseteq CU \X Slot
      BY <1>3, <2>9 DEF Released, Kernel, WarpsOf
    <3>2. \A w \in CU \X Slot : SlotAt(w)'.resume_pc = SlotAt(w).resume_pc
      BY <1>2 DEF SlotAt, SameSlots
    <3>3. \A w, v \in Kernel : SlotAt(w).resume_pc = SlotAt(v).resume_pc
      BY <2>3 DEF IInv, WavesAgree
    <3> QED BY <2>9, <3>1, <3>2, <3>3 DEF WavesAgree
  <2>15. IInv'
    BY <1>1, <1>3, <2>10, <2>11, <2>12, <2>13, <2>14, BarrierFrame
  <2> QED BY <1>6, <2>3, <2>4, <2>9, <2>15
<1> QED BY <1>5, <1>6

LEMMA BarrierTestCompleteIInv ==
    ASSUME NUM_CUS <= CU_ID_VALUES, IInv, TypeOK', StartsSeen', BarrierTestComplete
    PROVE  IInv' /\ Waiting' = Waiting /\ Finished' = Finished
<1>1. /\ UNCHANGED <<hostVars, loaderVars, schedVars, computeVars, streamVars>>
      /\ UNCHANGED <<fault, barrier, b_c, arrived, finished>> /\ b_pc = "complete"
      /\ b_pc' \in {"kernel_done", "poll"} /\ (done => done')
  BY DEF BarrierTestComplete
<1>2. \A c \in CU : SameSlots(c)
  BY <1>1, SlotsUnchanged DEF schedVars
<1>3. /\ UNCHANGED <<total_warps, program, barrier_events, barrier_signal>>
      /\ UNCHANGED <<dispatch_out, status_in, loaded_sig>> /\ launches # 0
  BY <1>1, BarrierLaunched DEF hostVars, streamVars, BarrierCore
<1>4. busy /\ b_c = 0 /\ barrier.total_warps = total_warps /\ ~LaunchFault(total_warps)
  BY <1>1 DEF IInv, BarrierPhase
<1>5. SignalsAgree' /\ \A c \in CU : ReleasePending(c)' <=> ReleasePending(c)
  BY <1>1, <1>2, <1>3, FrameNoRelease DEF IInv
<1>6. Waiting' = Waiting /\ Finished' = Finished
  BY <1>2, <1>5, FrameSets
<1>7. EventsAgree' /\ WavesAgree'
  BY <1>1, <1>2, <1>3, <1>6, FrameEvents, FrameWaves DEF IInv
<1>8. CountersAgree'
  <2>1. /\ Reported("STALLED_AT_BARRIER")' = Reported("STALLED_AT_BARRIER")
        /\ Reported("COMPLETE")' = Reported("COMPLETE")
    BY <1>3 DEF Reported, Elements
  <2> QED BY <1>1, <1>6, <2>1 DEF IInv, CountersAgree
<1>9. BarrierPhase'
  <2>1. CASE ~KernelComplete
    <3>1. b_pc' = "poll" /\ UNCHANGED <<busy, done>>
      BY <2>1 DEF BarrierTestComplete
    <3> QED BY <1>1, <1>3, <1>4, <1>6, <3>1 DEF IInv, BarrierPhase, Kernel
  <2>2. CASE KernelComplete
    <3>1. ~busy' /\ done' /\ b_pc' = "kernel_done"
      BY <2>2 DEF BarrierTestComplete
    <3>2. total_warps \in Nat /\ total_warps # 0 /\ Cardinality(finished) = total_warps
      BY <1>4, <2>2 DEF KernelComplete, IInv, CountersAgree, TypeOK, HostType
    <3>3. finished \subseteq Finished /\ Finished \subseteq Kernel /\ Waiting \subseteq Kernel
      BY SlotFacts DEF IInv, CountersAgree
    <3>4. finished = Kernel
      BY <3>2, <3>3, FullCount DEF Kernel
    <3>5. \A c \in CU : Elements(barrier_events[c]) = {}
      <4> SUFFICES ASSUME NEW c \in CU, NEW e \in Elements(barrier_events[c]) PROVE FALSE
        OBVIOUS
      <4>1. EventAgrees(c, e)
        BY DEF IInv, EventsAgree
      <4>2. CASE e.code = "COMPLETE"
        BY <3>3, <3>4, <4>1, <4>2 DEF EventAgrees
      <4>3. CASE e.code # "COMPLETE"
        BY <3>3, <3>4, <4>1, <4>3 DEF EventAgrees, Waiting, Finished
      <4> QED BY <4>2, <4>3
    <3>6. \A c \in CU : barrier_events[c] = <<>>
      <4> SUFFICES ASSUME NEW c \in CU, barrier_events[c] # <<>> PROVE FALSE
        OBVIOUS
      <4>1. barrier_events[c] \in Seq(Event)
        BY DEF IInv, TypeOK, StreamType
      <4> QED BY <3>5, <4>1, TailElements
    <3>7. Finished' = Kernel' /\ Kernel' = Kernel
      BY <1>3, <1>6, <3>3, <3>4 DEF Kernel
    <3>8. ~LaunchFault(total_warps)'
      BY <1>3, <1>4 DEF LaunchFault
    <3>9. fault' => LaunchFault(total_warps)'
      BY <1>1, <1>3 DEF IInv, BarrierPhase, LaunchFault
    <3> QED BY <1>3, <3>1, <3>2, <3>6, <3>7, <3>8, <3>9 DEF BarrierPhase
  <2> QED BY <2>1, <2>2
<1> QED BY <1>1, <1>3, <1>5, <1>6, <1>7, <1>8, <1>9, BarrierFrame

LEMMA BarrierSignalIInv ==
    ASSUME IInv, TypeOK', StartsSeen',
           BarrierSignal("release", "complete") \/ BarrierSignal("kernel_done", "poll")
    PROVE  IInv' /\ Waiting' = Waiting /\ Finished' = Finished
<1>1. PICK sig \in Signal :
          /\ b_pc = sig /\ NextCU(sig, IF sig = "release" THEN "complete" ELSE "poll")
          /\ barrier_signal' = [barrier_signal EXCEPT ![b_c] = Append(@, sig)]
  BY DEF BarrierSignal, Signal
<1>2. /\ UNCHANGED <<hostVars, loaderVars, schedVars, computeVars>>
      /\ UNCHANGED <<busy, done, fault, barrier, arrived, finished>>
      /\ UNCHANGED <<dispatch_out, status_in, barrier_events, loaded_sig>>
  BY DEF BarrierSignal
<1>3. \A c \in CU : SameSlots(c)
  BY <1>2, SlotsUnchanged DEF schedVars
<1>4. UNCHANGED <<total_warps, program>> /\ launches # 0
  BY <1>2, BarrierLaunched DEF hostVars, BarrierCore
<1>5. b_c \in CU /\ b_c \in Nat /\ barrier_signal[b_c] \in Seq(Signal) /\ CU \subseteq Nat
  BY WarpSlotsAssumption DEF IInv, TypeOK, BarrierType, StreamType, CU
<1>6. /\ barrier_signal'[b_c] = Append(barrier_signal[b_c], sig)
      /\ \A c \in CU : c # b_c => barrier_signal'[c] = barrier_signal[c]
  BY <1>1, <1>5 DEF IInv, TypeOK, StreamType
<1>7. Elements(barrier_signal'[b_c]) = Elements(barrier_signal[b_c]) \cup {sig}
  BY <1>5, <1>6, AppendElements
<1>8. \/ b_c' = b_c + 1 /\ b_pc' = sig
      \/ b_c' = 0 /\ b_c + 1 = NUM_CUS /\ b_pc' = IF sig = "release" THEN "complete" ELSE "poll"
  BY <1>1, <1>5, WarpSlotsAssumption DEF NextCU, CU
<1>9. \A c \in CU : ReleasePending(c)' <=> ReleasePending(c)
  <2> SUFFICES ASSUME NEW c \in CU PROVE ReleasePending(c)' <=> ReleasePending(c)
    OBVIOUS
  <2>1. CASE sig = "release"
    <3>1. CASE c = b_c
      BY <1>1, <1>5, <1>7, <2>1, <3>1 DEF ReleasePending
    <3>2. CASE c # b_c
      <4>1. c \in Nat /\ c < NUM_CUS
        BY WarpSlotsAssumption DEF CU
      <4>2. (b_pc' = "release" /\ b_c' <= c) <=> (b_pc = "release" /\ b_c <= c)
        BY <1>1, <1>5, <1>8, <2>1, <3>2, <4>1, WarpSlotsAssumption
      <4> QED BY <1>6, <3>2, <4>2 DEF ReleasePending
    <3> QED BY <3>1, <3>2
  <2>2. CASE sig = "kernel_done"
    <3>1. b_pc # "release" /\ b_pc' # "release"
      BY <1>1, <1>8, <2>2
    <3>2. "release" \in Elements(barrier_signal'[c]) <=> "release" \in Elements(barrier_signal[c])
      <4>1. CASE c = b_c
        BY <1>7, <2>2, <4>1
      <4>2. CASE c # b_c
        BY <1>6, <4>2
      <4> QED BY <4>1, <4>2
    <3> QED BY <3>1, <3>2 DEF ReleasePending
  <2> QED BY <2>1, <2>2 DEF Signal
<1>10. Waiting' = Waiting /\ Finished' = Finished
  BY <1>3, <1>9, FrameSets
<1>11. EventsAgree' /\ CountersAgree' /\ WavesAgree'
  BY <1>2, <1>3, <1>4, <1>10, FrameEvents, FrameCounters, FrameWaves DEF IInv
<1>12. BarrierPhase'
  <2>1. CASE sig = "release"
    <3>1. busy /\ ~done /\ b_pc' \in {"release", "complete"} /\ (b_pc' = "complete" => b_c' = 0)
      BY <1>1, <1>8, <2>1 DEF IInv, BarrierPhase
    <3> QED BY <1>2, <1>4, <3>1 DEF IInv, BarrierPhase
  <2>2. CASE sig = "kernel_done"
    <3>1. ~busy /\ done /\ b_pc' \in {"kernel_done", "poll"} /\ (b_pc' = "poll" => b_c' = 0)
      BY <1>1, <1>8, <2>2 DEF IInv, BarrierPhase
    <3> QED BY <1>2, <1>4, <1>10, <3>1 DEF IInv, BarrierPhase, Kernel
  <2> QED BY <2>1, <2>2 DEF Signal
<1>13. SignalsAgree'
  <2> SUFFICES ASSUME NEW c \in CU
               PROVE  ReleaseOf(c)' /\ ("kernel_done" \in Elements(barrier_signal'[c]) => done')
    BY DEF SignalsAgree
  <2>1. "kernel_done" \in Elements(barrier_signal'[c]) => done'
    <3>1. sig = "kernel_done" => done
      BY <1>1 DEF IInv, BarrierPhase
    <3> QED BY <1>2, <1>6, <1>7, <3>1 DEF IInv, SignalsAgree
  <2>2. ReleaseOf(c)'
    <3> SUFFICES ASSUME HasWarp(c)'
                 PROVE  /\ ReleasePending(c)' =>
                              \A s \in Slot : <<c, s>> \in Kernel => slots'[c][s].state = "STALLED"
                        /\ AtMostOneRelease(barrier_signal'[c])
                        /\ b_pc' = "release" /\ b_c' <= c =>
                              "release" \notin Elements(barrier_signal'[c])
      <4>1. Kernel' = Kernel
        BY <1>4 DEF Kernel
      <4> QED BY <4>1 DEF ReleaseOf
    <3>1. HasWarp(c) /\ ReleaseOf(c)
      BY <1>4 DEF HasWarp, Kernel, IInv, SignalsAgree
    <3>2. ReleasePending(c)' =>
              \A s \in Slot : <<c, s>> \in Kernel => slots'[c][s].state = "STALLED"
      BY <1>3, <1>9, <3>1 DEF ReleaseOf, SameSlots
    <3>3. CASE c # b_c
      <4>1. c \in Nat /\ c < NUM_CUS
        BY WarpSlotsAssumption DEF CU
      <4>2. b_pc' = "release" /\ b_c' <= c => b_pc = "release" /\ b_c <= c
        BY <1>1, <1>5, <1>8, <3>3, <4>1, WarpSlotsAssumption
      <4> QED BY <1>6, <3>1, <3>2, <3>3, <4>2 DEF ReleaseOf
    <3>4. CASE c = b_c
      <4>1. sig = "release" => "release" \notin Elements(barrier_signal[c])
        BY <1>1, <1>5, <3>1, <3>4 DEF ReleaseOf
      <4>2. AtMostOneRelease(barrier_signal'[c])
        BY <1>5, <1>6, <3>1, <3>4, <4>1, AppendAtMostOneRelease DEF ReleaseOf
      <4>3. ~(b_pc' = "release" /\ b_c' <= c)
        BY <1>1, <1>5, <1>8, <3>4
      <4> QED BY <3>2, <4>2, <4>3
    <3> QED BY <3>3, <3>4
  <2> QED BY <2>1, <2>2
<1> QED BY <1>2, <1>4, <1>10, <1>11, <1>12, <1>13, BarrierFrame
-----------------------------------------------------------------------------
\* A step of CU c leaves every other CU alone.
LEMMA OtherCU ==
    ASSUME NEW c \in CU, NEW d \in CU, d # c, IInv,
           UNCHANGED <<hostVars, barrierVars>>,
           slots'[d] = slots[d], busy_cu'[d] = busy_cu[d], cu_launch'[d] = cu_launch[d],
           busy_cu_scheduler'[d] = busy_cu_scheduler[d], executing'[d] = executing[d],
           c_pc'[d] = c_pc[d], dispatch_out'[d] = dispatch_out[d],
           status_in'[d] = status_in[d], loaded_sig'[d] = loaded_sig[d]
    PROVE  ShareOf(d)' /\ PipelineOf(d)' /\ SameSlots(d)
<1>1. SameSlots(d)
  BY DEF SameSlots
<1>2. TypeOK /\ ShareOf(d) /\ PipelineOf(d) /\ total_warps' = total_warps /\ program' = program
  BY DEF IInv, ShareOfKernel, PipelinesAgree, hostVars
<1>3. ShareOf(d)'
  BY <1>1, <1>2, FrameShare
<1>4. PipelineOf(d)'
  BY <1>1, <1>2, FramePipeline DEF PipelineOf
<1> QED BY <1>1, <1>3, <1>4

\* A busy scheduler has been launched.
LEMMA BusyLaunched ==
    ASSUME IInv, NEW c \in CU, busy_cu_scheduler[c]
    PROVE  cu_launch[c] # 0 /\ launches # 0 /\ TokenSent(c)
<1>1. cu_launch[c] # 0
  BY DEF IInv, ShareOfKernel, ShareOf
<1>2. TokenSent(c)
  BY <1>1 DEF TokenSent
<1> QED BY <1>1, <1>2 DEF IInv, QuietBeforeLaunch

LEMMA SchedLaunchIInv ==
    ASSUME IInv, TypeOK', StartsSeen', NEW c \in CU, SchedLaunch(c)
    PROVE  IInv' /\ Waiting' = Waiting /\ Finished' = Finished
<1>1. /\ UNCHANGED <<hostVars, barrierVars, loaderVars, computeVars>>
      /\ UNCHANGED <<dispatch_out, status_in, barrier_events, barrier_signal>>
      /\ s_pc[c] = "token" /\ loaded_sig[c] # <<>>
      /\ loaded_sig' = [loaded_sig EXCEPT ![c] = Tail(@)]
      /\ slots' = [slots EXCEPT ![c] = LaunchSlots(@, c, total_warps)]
      /\ busy_cu' = [busy_cu EXCEPT ![c] = FALSE]
      /\ busy_cu_scheduler' = [busy_cu_scheduler EXCEPT ![c] = TRUE]
      /\ cu_launch' = [cu_launch EXCEPT ![c] = launches]
  BY DEF SchedLaunch
<1>2. UNCHANGED <<total_warps, program, done, b_pc, b_c, arrived, finished, barrier>>
  BY <1>1 DEF hostVars, barrierVars
<1>3. launches = 1 /\ ~LaunchFault(total_warps) /\ ~busy_cu_scheduler[c]
  BY <1>1 DEF IInv, StartsSeen, StartSeen
<1>4. \A d \in CU \ {c} : ShareOf(d)' /\ PipelineOf(d)' /\ SameSlots(d)
  <2> SUFFICES ASSUME NEW d \in CU, d # c
               PROVE  ShareOf(d)' /\ PipelineOf(d)' /\ SameSlots(d)
    OBVIOUS
  <2>1. /\ slots'[d] = slots[d] /\ busy_cu'[d] = busy_cu[d] /\ cu_launch'[d] = cu_launch[d]
        /\ busy_cu_scheduler'[d] = busy_cu_scheduler[d] /\ loaded_sig'[d] = loaded_sig[d]
    BY <1>1 DEF IInv, TypeOK, SchedType, StreamType
  <2>2. /\ executing'[d] = executing[d] /\ c_pc'[d] = c_pc[d]
        /\ dispatch_out'[d] = dispatch_out[d] /\ status_in'[d] = status_in[d]
    BY <1>1 DEF computeVars
  <2> QED BY <1>1, <2>1, <2>2, OtherCU
<1>5. /\ loaded_sig'[c] = Tail(loaded_sig[c]) /\ busy_cu'[c] = FALSE
      /\ busy_cu_scheduler'[c] = TRUE /\ cu_launch'[c] = 1
      /\ \A s \in Slot : slots'[c][s] = AssignSlot(slots[c][s], s, c, total_warps)
  BY <1>1, <1>3 DEF IInv, TypeOK, SchedType, StreamType, LaunchSlots
<1>6. /\ cu_launch[c] = 0 /\ Len(loaded_sig[c]) = 1
      /\ \A s \in Slot : slots[c][s].state = "EMPTY" /\ slots[c][s].resume_pc = 0
  BY <1>1 DEF IInv, ShareOfKernel, ShareOf
<1>7. loaded_sig'[c] = <<>>
  <2>1. loaded_sig[c] \in Seq(BOOLEAN)
    BY DEF IInv, TypeOK, StreamType
  <2> QED BY <1>5, <1>6, <2>1, SingletonTail
<1>8. \A s \in Slot : /\ slots'[c][s].resume_pc = 0
                      /\ slots'[c][s].state = IF <<c, s>> \in Kernel THEN "READY" ELSE "EMPTY"
  <2> SUFFICES ASSUME NEW s \in Slot
               PROVE  /\ slots'[c][s].resume_pc = 0
                      /\ slots'[c][s].state = IF <<c, s>> \in Kernel THEN "READY" ELSE "EMPTY"
    OBVIOUS
  <2>1. <<c, s>> \in Kernel <=> LocalWarp(c, s) < total_warps
    BY DEF Kernel, WarpsOf
  <2>2. slots[c][s] \in WarpSlot
    BY DEF IInv, TypeOK, SchedType
  <2>3. CASE LocalWarp(c, s) < total_warps
    <3>1. slots'[c][s] = [state |-> "READY", warp_id |-> LocalWarp(c, s),
                          resume_pc |-> 0, fresh |-> TRUE]
      BY <1>5, <2>3 DEF AssignSlot
    <3> QED BY <2>1, <2>3, <3>1
  <2>4. CASE ~(LocalWarp(c, s) < total_warps)
    <3>1. slots'[c][s] = [slots[c][s] EXCEPT !.state = "EMPTY"]
      BY <1>5, <2>4 DEF AssignSlot
    <3>2. slots'[c][s].state = "EMPTY" /\ slots'[c][s].resume_pc = slots[c][s].resume_pc
      BY <2>2, <3>1 DEF WarpSlot
    <3> QED BY <1>6, <2>1, <2>4, <3>2
  <2> QED BY <2>3, <2>4
<1>9. ~busy_cu[c] /\ dispatch_out[c] = <<>> /\ status_in[c] = <<>> /\ c_pc[c] # "execute"
  <2>1. PipelineOf(c) /\ ~busy_cu[c]
    BY <1>1, <1>3 DEF IInv, PipelinesAgree, PipelineOf
  <2> QED BY <2>1 DEF PipelineOf, InFlight, IInv, TypeOK, StreamType
<1>10. \A d \in CU : ReleasePending(d)' <=> ReleasePending(d)
  BY <1>1, <1>2 DEF ReleasePending, Elements
<1>11. Waiting' = Waiting /\ Finished' = Finished
  <2>1. ASSUME NEW d \in CU, NEW s \in Slot
        PROVE  /\ slots'[d][s].state = "STALLED" <=> slots[d][s].state = "STALLED"
               /\ slots'[d][s].state = "DONE" <=> slots[d][s].state = "DONE"
    <3>1. CASE d = c
      BY <1>6, <1>8, <3>1
    <3>2. CASE d # c
      BY <1>4, <3>2 DEF SameSlots
    <3> QED BY <3>1, <3>2
  <2>2. \A d \in CU, s \in Slot : /\ <<d, s>> \in Waiting' <=> <<d, s>> \in Waiting
                                  /\ <<d, s>> \in Finished' <=> <<d, s>> \in Finished
    BY <1>10, <2>1, WarpSets
  <2> QED BY <2>2, SetsUnchanged
<1>12. QuietBeforeLaunch'
  BY <1>1, <1>3, FrameQuiet DEF IInv
<1>13. LoaderProgress'
  <2>1. \A d \in CU : TokenSent(d)' => TokenSent(d)
    BY <1>1, <1>4 DEF TokenSent, IInv, TypeOK, SchedType, StreamType
  <2> QED BY <1>1, <2>1, FrameLoader DEF IInv
<1>14. ShareOfKernel'
  <2>1. ShareOf(c)'
    BY <1>1, <1>2, <1>3, <1>5, <1>7, <1>8 DEF ShareOf, Kernel, LaunchFault
  <2> QED BY <1>4, <2>1 DEF ShareOfKernel
<1>15. PipelinesAgree'
  <2>1. PipelineOf(c)'
    BY <1>1, <1>5, <1>9 DEF PipelineOf, InFlight, computeVars
  <2> QED BY <1>4, <2>1 DEF PipelinesAgree
<1>16. EventsAgree' /\ CountersAgree' /\ BarrierPhase'
  BY <1>1, <1>2, <1>11, FrameEvents, FrameCounters, FramePhase DEF IInv, barrierVars
<1>17. SignalsAgree'
  <2> SUFFICES ASSUME NEW d \in CU, HasWarp(d)' PROVE ReleaseOf(d)'
    BY <1>1, <1>2 DEF IInv, SignalsAgree, ReleaseOf
  <2>1. HasWarp(d) /\ ReleaseOf(d) /\ Kernel' = Kernel
    BY <1>2 DEF HasWarp, Kernel, IInv, SignalsAgree
  <2>2. CASE d # c
    <3>1. SameSlots(d)
      BY <1>4, <2>2
    <3> QED BY <1>1, <1>2, <1>10, <2>1, <3>1 DEF ReleaseOf, SameSlots
  <2>3. CASE d = c
    <3>1. ~ReleasePending(c)
      BY <1>6, <2>1, <2>3 DEF ReleaseOf, HasWarp
    <3> QED BY <1>1, <1>2, <1>10, <2>1, <2>3, <3>1 DEF ReleaseOf
  <2> QED BY <2>2, <2>3
<1>18. WavesAgree'
  <2>1. Released' = Released /\ Released \subseteq CU \X Slot /\ Waiting \subseteq CU \X Slot
    BY <1>2, <1>11 DEF Released, Kernel, WarpsOf, Waiting
  <2>2. \A w \in CU \X Slot : SlotAt(w)'.resume_pc = SlotAt(w).resume_pc
    <3> TAKE w \in CU \X Slot
    <3>1. w[1] \in CU /\ w[2] \in Slot
      OBVIOUS
    <3>2. CASE w[1] = c
      BY <1>6, <1>8, <3>1, <3>2 DEF SlotAt
    <3>3. CASE w[1] # c
      BY <1>4, <3>1, <3>3 DEF SlotAt, SameSlots
    <3> QED BY <3>2, <3>3
  <2>3. ASSUME NEW pc, NEW k PROVE KernelStopsAt(pc, k)' <=> KernelStopsAt(pc, k)
    BY <1>2 DEF KernelStopsAt
  <2> QED BY <1>2, <1>11, <2>1, <2>2, <2>3 DEF IInv, WavesAgree, KernelStopsAt
<1> QED BY <1>11, <1>12, <1>13, <1>14, <1>15, <1>16, <1>17, <1>18 DEF IInv

LEMMA SchedDispatchIInv ==
    ASSUME IInv, TypeOK', StartsSeen', NEW c \in CU, NEW s \in Slot, SchedDispatch(c, s)
    PROVE  IInv'
<1>1. /\ UNCHANGED <<hostVars, barrierVars, loaderVars, computeVars>>
      /\ UNCHANGED <<busy_cu_scheduler, cu_launch>>
      /\ UNCHANGED <<status_in, barrier_events, barrier_signal, loaded_sig>>
      /\ busy_cu_scheduler[c] /\ ~busy_cu[c] /\ slots[c][s].state = "READY"
      /\ dispatch_out' = [dispatch_out EXCEPT ![c] = Append(@, BuildDispatch(slots[c], s))]
      /\ slots' = [slots EXCEPT ![c] = ClearFresh(@, s)]
      /\ busy_cu' = [busy_cu EXCEPT ![c] = TRUE]
  BY DEF SchedDispatch, CanDispatch, IsNextReadySlot
<1>2. UNCHANGED <<total_warps, program, done, b_pc, b_c, arrived, finished, barrier>>
  BY <1>1 DEF hostVars, barrierVars
<1>3. \A d \in CU : SameSlots(d)
  BY <1>1 DEF SameSlots, ClearFresh, IInv, TypeOK, SchedType, WarpSlot
<1>4. \A d \in CU : ReleasePending(d)' <=> ReleasePending(d)
  BY <1>1, <1>2 DEF ReleasePending, Elements
<1>5. Waiting' = Waiting /\ Finished' = Finished
  BY <1>3, <1>4, FrameSets
<1>6. launches # 0
  BY <1>1, BusyLaunched
<1>7. QuietBeforeLaunch'
  BY <1>1, <1>6, FrameQuiet DEF IInv
<1>8. LoaderProgress'
  <2>1. \A d \in CU : TokenSent(d)' <=> TokenSent(d)
    BY <1>1 DEF TokenSent
  <2> QED BY <1>1, <2>1, FrameLoader DEF IInv
<1>9. ShareOfKernel'
  BY <1>1, <1>2, <1>3, FrameShare DEF IInv, ShareOfKernel
<1>10. PipelinesAgree'
  <2>1. ASSUME NEW d \in CU, d # c PROVE PipelineOf(d)'
    <3>1. TypeOK /\ PipelineOf(d)
      BY DEF IInv, PipelinesAgree
    <3>2. dispatch_out'[d] = dispatch_out[d] /\ busy_cu'[d] = busy_cu[d]
      BY <1>1, <2>1 DEF IInv, TypeOK, SchedType, StreamType
    <3> QED BY <1>1, <1>2, <1>3, <3>1, <3>2, FramePipeline DEF PipelineOf, computeVars
  <2>2. PipelineOf(c)'
    <3>0. PICK b \in Dispatch : b = BuildDispatch(slots[c], s)
      BY SlotOperatorsType DEF IInv, TypeOK, SchedType
    <3>1. PipelineOf(c) /\ ~busy_cu[c]
      BY <1>1 DEF IInv, PipelinesAgree
    <3>2. dispatch_out[c] = <<>> /\ status_in[c] = <<>> /\ c_pc[c] # "execute"
      BY <3>1 DEF PipelineOf, InFlight, IInv, TypeOK, StreamType
    <3>3. dispatch_out'[c] = Append(<<>>, b) /\ busy_cu'[c] = TRUE
      BY <1>1, <3>0, <3>2 DEF IInv, TypeOK, SchedType, StreamType
    <3>4. Len(dispatch_out'[c]) = 1 /\ Head(dispatch_out'[c]) = b
      BY <3>3
    <3>5. b.slot_id = s /\ b.resume_pc = slots[c][s].resume_pc
      BY <3>0 DEF BuildDispatch
    <3>6. DispatchAgrees(c, b)'
      BY <1>1, <1>3, <3>5 DEF DispatchAgrees, SameSlots
    <3>7. status_in'[c] = <<>> /\ c_pc'[c] # "execute" /\ busy_cu_scheduler'[c]
      BY <1>1, <3>2 DEF computeVars
    <3>8. InFlight(c)' = 1
      BY <3>4, <3>7 DEF InFlight
    <3>9. DispatchAgrees(c, Head(dispatch_out[c]))'
      BY <3>4, <3>6 DEF DispatchAgrees
    <3> QED BY <3>3, <3>7, <3>8, <3>9 DEF PipelineOf
  <2> QED BY <2>1, <2>2 DEF PipelinesAgree
<1>11. EventsAgree' /\ CountersAgree' /\ BarrierPhase'
  BY <1>1, <1>2, <1>5, FrameEvents, FrameCounters, FramePhase DEF IInv, barrierVars
<1>12. SignalsAgree' /\ WavesAgree'
  BY <1>1, <1>2, <1>3, <1>5, FrameSignals, FrameWaves DEF IInv
<1> QED BY <1>7, <1>8, <1>9, <1>10, <1>11, <1>12 DEF IInv
-----------------------------------------------------------------------------
\* A step that only moves a warp through its compute pipeline.
LEMMA PipelineStep ==
    ASSUME IInv, TypeOK', StartsSeen', UNCHANGED <<hostVars, barrierVars, loaderVars, schedVars>>,
           UNCHANGED <<barrier_events, barrier_signal, loaded_sig>>, PipelinesAgree'
    PROVE  IInv'
<1>0. UNCHANGED <<slots, busy_cu_scheduler, busy_cu, cu_launch, total_warps, program>>
  BY DEF schedVars, hostVars
<1>1. \A c \in CU : SameSlots(c)
  BY <1>0, SlotsUnchanged
<1>2. \A c \in CU : ReleasePending(c)' <=> ReleasePending(c)
  BY DEF ReleasePending, barrierVars, Elements
<1>3. Waiting' = Waiting /\ Finished' = Finished
  BY <1>1, <1>2, FrameSets
<1>4. \A c \in CU : TokenSent(c)' <=> TokenSent(c)
  BY <1>0 DEF TokenSent
<1>5. QuietBeforeLaunch'
  BY <1>4 DEF IInv, QuietBeforeLaunch, hostVars, barrierVars, loaderVars
<1>6. LoaderProgress'
  BY <1>4, FrameLoader DEF IInv
<1>7. ShareOfKernel'
  BY <1>0, <1>1, FrameShare DEF IInv, ShareOfKernel
<1>8. EventsAgree' /\ CountersAgree' /\ BarrierPhase'
  BY <1>0, <1>3, FrameEvents, FrameCounters, FramePhase DEF IInv, barrierVars
<1>9. SignalsAgree' /\ WavesAgree'
  BY <1>0, <1>1, <1>3, FrameSignals, FrameWaves DEF IInv, barrierVars
<1> QED BY <1>5, <1>6, <1>7, <1>8, <1>9 DEF IInv

LEMMA OneOfThree ==
    ASSUME NEW a \in Nat, NEW b \in Nat, NEW k \in 0 .. 1, NEW n \in 0 .. 1, a + b + k = n
    PROVE  /\ k = 1 => n = 1 /\ a = 0 /\ b = 0
           /\ a # 0 => n = 1 /\ a = 1 /\ b = 0 /\ k = 0
           /\ b # 0 => n = 1 /\ b = 1 /\ a = 0 /\ k = 0
OBVIOUS

\* Where the one warp in flight can be.
LEMMA PipelinePlaces ==
    ASSUME IInv, NEW c \in CU
    PROVE  /\ c_pc[c] = "execute" => busy_cu[c] /\ dispatch_out[c] = <<>> /\ status_in[c] = <<>>
           /\ dispatch_out[c] # <<>> =>
                 /\ busy_cu[c] /\ status_in[c] = <<>> /\ c_pc[c] # "execute"
                 /\ Len(dispatch_out[c]) = 1
           /\ status_in[c] # <<>> =>
                 /\ busy_cu[c] /\ dispatch_out[c] = <<>> /\ c_pc[c] # "execute"
                 /\ Len(status_in[c]) = 1
<1>1. dispatch_out[c] \in Seq(Dispatch) /\ status_in[c] \in Seq(Status)
  BY DEF IInv, TypeOK, StreamType
<1>2. PICK a \in Nat : a = Len(dispatch_out[c])
  BY <1>1
<1>3. PICK b \in Nat : b = Len(status_in[c])
  BY <1>1
<1>4. PICK k \in 0 .. 1 : k = IF c_pc[c] = "execute" THEN 1 ELSE 0
  OBVIOUS
<1>5. PICK n \in 0 .. 1 : n = IF busy_cu[c] THEN 1 ELSE 0
  OBVIOUS
<1>6. a + b + k = n
  BY <1>2, <1>3, <1>4, <1>5 DEF IInv, PipelinesAgree, PipelineOf, InFlight
<1>7. /\ k = 1 => n = 1 /\ a = 0 /\ b = 0
      /\ a # 0 => n = 1 /\ a = 1 /\ b = 0 /\ k = 0
      /\ b # 0 => n = 1 /\ b = 1 /\ a = 0 /\ k = 0
  BY <1>6, OneOfThree
<1>8. /\ dispatch_out[c] = <<>> <=> a = 0
      /\ status_in[c] = <<>> <=> b = 0
  BY <1>1, <1>2, <1>3
<1>9. n = 1 <=> busy_cu[c]
  BY <1>5
<1>10. k = 1 <=> c_pc[c] = "execute"
  BY <1>4
<1>11. c_pc[c] = "execute" => busy_cu[c] /\ dispatch_out[c] = <<>> /\ status_in[c] = <<>>
  BY <1>7, <1>8, <1>9, <1>10
<1>12. dispatch_out[c] # <<>> =>
          /\ busy_cu[c] /\ status_in[c] = <<>> /\ c_pc[c] # "execute"
          /\ Len(dispatch_out[c]) = 1
  BY <1>2, <1>7, <1>8, <1>9, <1>10
<1>13. status_in[c] # <<>> =>
          /\ busy_cu[c] /\ dispatch_out[c] = <<>> /\ c_pc[c] # "execute"
          /\ Len(status_in[c]) = 1
  BY <1>3, <1>7, <1>8, <1>9, <1>10
<1> QED BY <1>11, <1>12, <1>13

LEMMA ComputeAcceptIInv ==
    ASSUME IInv, TypeOK', StartsSeen', NEW c \in CU, ComputeAccept(c)
    PROVE  IInv'
<1>1. /\ UNCHANGED <<hostVars, barrierVars, loaderVars, schedVars>>
      /\ UNCHANGED <<status_in, barrier_events, barrier_signal, loaded_sig>>
      /\ c_pc[c] = "dispatch" /\ dispatch_out[c] # <<>>
      /\ executing' = [executing EXCEPT ![c] = Head(dispatch_out[c])]
      /\ dispatch_out' = [dispatch_out EXCEPT ![c] = Tail(@)]
      /\ c_pc' = [c_pc EXCEPT ![c] = "execute"]
  BY DEF ComputeAccept
<1>2. UNCHANGED <<slots, busy_cu_scheduler, busy_cu, program>>
  BY <1>1 DEF schedVars, hostVars
<1>3. ASSUME NEW d \in CU, d # c PROVE PipelineOf(d)'
  <2>1. TypeOK /\ PipelineOf(d) /\ SameSlots(d)
    BY <1>2, SlotsUnchanged DEF IInv, PipelinesAgree
  <2>2. /\ dispatch_out'[d] = dispatch_out[d] /\ executing'[d] = executing[d]
        /\ c_pc'[d] = c_pc[d]
    BY <1>1, <1>3 DEF IInv, TypeOK, ComputeType, StreamType
  <2> QED BY <1>1, <1>2, <2>1, <2>2, FramePipeline DEF PipelineOf
<1>4. PipelineOf(c)'
  <2>0. PICK h \in Dispatch : h = Head(dispatch_out[c])
    BY <1>1, StreamOperators DEF IInv, TypeOK, StreamType
  <2>1. PipelineOf(c) /\ dispatch_out[c] \in Seq(Dispatch) /\ status_in[c] \in Seq(Status)
    BY DEF IInv, PipelinesAgree, TypeOK, StreamType
  <2>2. DispatchAgrees(c, h)
    BY <1>1, <2>0, <2>1 DEF PipelineOf
  <2>3. Len(dispatch_out[c]) = 1 /\ status_in[c] = <<>> /\ busy_cu[c]
    BY <1>1, PipelinePlaces
  <2>4. status_in[c] = <<>> /\ Tail(dispatch_out[c]) = <<>>
    BY <2>1, <2>3, SingletonTail
  <2>5. /\ dispatch_out'[c] = <<>> /\ executing'[c] = h /\ c_pc'[c] = "execute"
        /\ status_in'[c] = <<>> /\ busy_cu'[c] = busy_cu[c]
    BY <1>1, <1>2, <2>0, <2>4 DEF IInv, TypeOK, ComputeType, StreamType
  <2>6. DispatchAgrees(c, h)'
    BY <1>2, <2>2 DEF DispatchAgrees
  <2>7. DispatchAgrees(c, executing[c])'
    BY <2>5, <2>6 DEF DispatchAgrees
  <2>8. InFlight(c)' = 1
    BY <2>5 DEF InFlight
  <2>9. busy_cu_scheduler'[c]
    BY <1>2, <2>1, <2>3 DEF PipelineOf
  <2> QED BY <2>3, <2>5, <2>7, <2>8, <2>9 DEF PipelineOf
<1> QED BY <1>1, <1>3, <1>4, PipelineStep DEF PipelinesAgree

\* With the program in the store, executeOneWarp() stops where the kernel does.
LEMMA StopsAgree ==
    ASSUME TypeOK, \A i \in ProgramAddr : StoreHolds(i), NEW pc \in Nat,
           NEW i \in ProgramAddr, StopsAtBarrier(program_store, Len(program), pc, i)
    PROVE  KernelStopsAt(pc, i)
<1>1. pc <= i /\ i < Len(program) /\ program_store[i] = "BARRIER"
  BY DEF StopsAtBarrier
<1>2. program[i + 1] = "BARRIER"
  BY <1>1 DEF StoreHolds
<1>3. ASSUME NEW j \in ProgramAddr, pc <= j, j < i
      PROVE  program[j + 1] \notin {"BARRIER", "HALT"}
  <2>1. program_store[j] \notin {"BARRIER", "HALT"}
    BY <1>3 DEF StopsAtBarrier
  <2>2. Len(program) \in Nat /\ j \in Nat /\ i \in Nat
    BY DEF TypeOK, HostType, ProgramAddr
  <2>3. j < Len(program)
    BY <1>1, <1>3, <2>2
  <2> QED BY <2>1, <2>3 DEF StoreHolds
<1> QED BY <1>1, <1>2, <1>3 DEF KernelStopsAt

LEMMA ComputeExecuteIInv ==
    ASSUME IInv, TypeOK', StartsSeen', NEW c \in CU, ComputeExecute(c)
    PROVE  IInv'
<1>1. /\ UNCHANGED <<hostVars, barrierVars, loaderVars, schedVars>>
      /\ UNCHANGED <<dispatch_out, barrier_events, barrier_signal, loaded_sig>>
      /\ c_pc[c] = "execute"
      /\ executing' = [executing EXCEPT ![c] = NotExecuting]
      /\ c_pc' = [c_pc EXCEPT ![c] = "seed"]
  BY DEF ComputeExecute
<1>2. UNCHANGED <<slots, busy_cu_scheduler, busy_cu, program>>
  BY <1>1 DEF schedVars, hostVars
<1>3. PICK st \in ExecuteOneWarp(executing[c], program_store, Len(program)) :
          status_in' = [status_in EXCEPT ![c] = Append(@, st)]
  BY DEF ComputeExecute
<1>4. ASSUME NEW d \in CU, d # c PROVE PipelineOf(d)'
  <2>1. TypeOK /\ PipelineOf(d) /\ SameSlots(d)
    BY <1>2, SlotsUnchanged DEF IInv, PipelinesAgree
  <2>2. /\ status_in'[d] = status_in[d] /\ executing'[d] = executing[d]
        /\ c_pc'[d] = c_pc[d]
    BY <1>1, <1>3, <1>4 DEF IInv, TypeOK, ComputeType, StreamType
  <2> QED BY <1>1, <1>2, <2>1, <2>2, FramePipeline DEF PipelineOf
<1>5. PipelineOf(c)'
  <2>1. PipelineOf(c) /\ dispatch_out[c] \in Seq(Dispatch) /\ status_in[c] \in Seq(Status)
    BY DEF IInv, PipelinesAgree, TypeOK, StreamType
  <2>2. DispatchAgrees(c, executing[c]) /\ executing[c] \in Dispatch
    BY <1>1, <2>1 DEF PipelineOf, IInv, TypeOK, ComputeType
  <2>3. status_in[c] = <<>> /\ dispatch_out[c] = <<>> /\ busy_cu[c]
    BY <1>1, PipelinePlaces
  <2>5. /\ status_in'[c] = Append(<<>>, st) /\ c_pc'[c] = "seed"
        /\ dispatch_out'[c] = <<>> /\ busy_cu'[c] = busy_cu[c]
    BY <1>1, <1>2, <1>3, <2>3 DEF IInv, TypeOK, ComputeType, StreamType
  <2>6. Len(status_in'[c]) = 1 /\ Head(status_in'[c]) = st
    BY <2>5
  <2>7. st.slot_id = executing[c].slot_id
    BY <1>3 DEF ExecuteOneWarp
  <2>8. ASSUME st.code = "STALLED_AT_BARRIER"
        PROVE  KernelStopsAt(executing[c].resume_pc, st.resume_pc - 1)
    <3>1. PICK i \in ProgramAddr :
              /\ StopsAtBarrier(program_store, Len(program), executing[c].resume_pc, i)
              /\ st.resume_pc = i + 1
      BY <1>3, <2>8 DEF ExecuteOneWarp
    <3>2. busy_cu_scheduler[c]
      BY <2>1, <2>3 DEF PipelineOf
    <3>3. \A k \in ProgramAddr : StoreHolds(k)
      BY <3>2, BusyLaunched DEF IInv, LoaderProgress
    <3>4. st.resume_pc - 1 = i
      BY <3>1 DEF ProgramAddr
    <3>5. executing[c].resume_pc \in Nat
      BY <2>2 DEF Dispatch
    <3> QED BY <3>1, <3>3, <3>4, <3>5, StopsAgree DEF IInv
  <2>9. StatusAgrees(c, st)'
    BY <1>2, <2>2, <2>7, <2>8 DEF StatusAgrees, DispatchAgrees, KernelStopsAt
  <2>10. StatusAgrees(c, Head(status_in[c]))'
    BY <2>6, <2>9 DEF StatusAgrees, KernelStopsAt
  <2>11. InFlight(c)' = 1
    BY <2>5, <2>6 DEF InFlight
  <2>12. busy_cu_scheduler'[c]
    BY <1>2, <2>1, <2>3 DEF PipelineOf
  <2> QED BY <2>3, <2>5, <2>10, <2>11, <2>12 DEF PipelineOf
<1> QED BY <1>1, <1>4, <1>5, PipelineStep DEF PipelinesAgree
-----------------------------------------------------------------------------
\* The warp in flight holds a READY slot.
LEMMA BusyReady ==
    ASSUME IInv, NEW c \in CU, busy_cu[c]
    PROVE  \E s \in Slot : slots[c][s].state = "READY"
<1>1. PipelineOf(c) /\ InFlight(c) = 1
  BY DEF IInv, PipelinesAgree, PipelineOf
<1>2. dispatch_out[c] # <<>> \/ status_in[c] # <<>> \/ c_pc[c] = "execute"
  <2> SUFFICES ASSUME dispatch_out[c] = <<>>, status_in[c] = <<>>, c_pc[c] # "execute"
               PROVE  FALSE
    OBVIOUS
  <2>1. InFlight(c) = 0
    BY DEF InFlight
  <2> QED BY <1>1, <2>1
<1>3. CASE dispatch_out[c] # <<>>
  <2>1. Head(dispatch_out[c]) \in Dispatch
    BY <1>3, StreamOperators DEF IInv, TypeOK, StreamType
  <2> QED BY <1>1, <1>3, <2>1 DEF PipelineOf, DispatchAgrees, Dispatch
<1>4. CASE status_in[c] # <<>>
  <2>1. Head(status_in[c]) \in Status
    BY <1>4, StreamOperators DEF IInv, TypeOK, StreamType
  <2> QED BY <1>1, <1>4, <2>1 DEF PipelineOf, StatusAgrees, Status
<1>5. CASE c_pc[c] = "execute"
  <2>1. executing[c] \in Dispatch
    BY DEF IInv, TypeOK, ComputeType
  <2> QED BY <1>1, <1>5, <2>1 DEF PipelineOf, DispatchAgrees, Dispatch
<1> QED BY <1>2, <1>3, <1>4, <1>5

\* What is left of IInv' when a signal has been consumed.
LEMMA SignalConsumed ==
    ASSUME IInv, TypeOK', StartsSeen', NEW c \in CU, busy_cu_scheduler[c], ~busy_cu[c],
           UNCHANGED <<hostVars, barrierVars, loaderVars, computeVars>>,
           UNCHANGED <<busy_cu, cu_launch, dispatch_out, status_in>>,
           UNCHANGED <<barrier_events, loaded_sig>>,
           \A d \in CU : d # c => /\ slots'[d] = slots[d]
                                  /\ barrier_signal'[d] = barrier_signal[d]
                                  /\ busy_cu_scheduler'[d] = busy_cu_scheduler[d],
           \A s \in Slot : /\ slots'[c][s].resume_pc = slots[c][s].resume_pc
                           /\ slots'[c][s].state = "EMPTY" <=> slots[c][s].state = "EMPTY"
                           /\ <<c, s>> \in Waiting' <=> <<c, s>> \in Waiting
                           /\ <<c, s>> \in Finished' <=> <<c, s>> \in Finished,
           ReleaseOf(c)', "kernel_done" \in Elements(barrier_signal'[c]) => done'
    PROVE  IInv' /\ Waiting' = Waiting /\ Finished' = Finished
<1>1. UNCHANGED <<total_warps, program, done, b_pc, b_c, arrived, finished, barrier, c_pc>>
  BY DEF hostVars, barrierVars, computeVars
<1>2. \A d \in CU \ {c} : ShareOf(d)' /\ PipelineOf(d)' /\ SameSlots(d)
  <2> SUFFICES ASSUME NEW d \in CU, d # c PROVE ShareOf(d)' /\ PipelineOf(d)' /\ SameSlots(d)
    OBVIOUS
  <2> QED BY OtherCU DEF computeVars
<1>3. \A d \in CU \ {c} : ReleasePending(d)' <=> ReleasePending(d)
  BY <1>1 DEF ReleasePending, Elements
<1>4. Waiting' = Waiting /\ Finished' = Finished
  <2>1. \A d \in CU, s \in Slot : /\ <<d, s>> \in Waiting' <=> <<d, s>> \in Waiting
                                  /\ <<d, s>> \in Finished' <=> <<d, s>> \in Finished
    <3> SUFFICES ASSUME NEW d \in CU, NEW s \in Slot, d # c
                 PROVE  /\ <<d, s>> \in Waiting' <=> <<d, s>> \in Waiting
                        /\ <<d, s>> \in Finished' <=> <<d, s>> \in Finished
      OBVIOUS
    <3> QED BY <1>2, <1>3, WarpSets DEF SameSlots
  <2> QED BY <2>1, SetsUnchanged
<1>5. cu_launch[c] # 0 /\ launches # 0
  BY BusyLaunched
<1>6. QuietBeforeLaunch'
  BY <1>5, FrameQuiet DEF IInv
<1>7. LoaderProgress'
  <2>1. \A d \in CU : TokenSent(d)' <=> TokenSent(d)
    BY DEF TokenSent
  <2> QED BY <2>1, FrameLoader DEF IInv
<1>8. ShareOfKernel'
  <2>1. ShareOf(c)'
    BY <1>1, <1>5 DEF IInv, ShareOfKernel, ShareOf, Kernel
  <2> QED BY <1>2, <2>1 DEF ShareOfKernel
<1>9. PipelinesAgree'
  <2>1. dispatch_out[c] = <<>> /\ status_in[c] = <<>> /\ c_pc[c] # "execute"
    BY PipelinePlaces
  <2>2. PipelineOf(c)'
    BY <1>1, <2>1 DEF PipelineOf, InFlight
  <2> QED BY <1>2, <2>2 DEF PipelinesAgree
<1>10. EventsAgree' /\ CountersAgree' /\ BarrierPhase'
  BY <1>1, <1>4, FrameEvents, FrameCounters, FramePhase DEF IInv, barrierVars
<1>11. SignalsAgree'
  <2> SUFFICES ASSUME NEW d \in CU, d # c
               PROVE  ReleaseOf(d)' /\ ("kernel_done" \in Elements(barrier_signal'[d]) => done')
    BY DEF SignalsAgree
  <2>1. ReleaseOf(d) /\ ("kernel_done" \in Elements(barrier_signal[d]) => done)
    BY DEF IInv, SignalsAgree
  <2>2. Kernel' = Kernel /\ SameSlots(d)
    BY <1>1, <1>2 DEF Kernel
  <2>3. ReleaseOf(d)'
    BY <1>1, <1>3, <2>1, <2>2 DEF ReleaseOf, HasWarp, SameSlots
  <2> QED BY <1>1, <2>1, <2>3
<1>12. WavesAgree'
  <2>1. Released' = Released /\ Released \subseteq CU \X Slot /\ Waiting \subseteq CU \X Slot
    BY <1>1, <1>4 DEF Released, Kernel, WarpsOf, Waiting
  <2>2. \A w \in CU \X Slot : SlotAt(w)'.resume_pc = SlotAt(w).resume_pc
    <3> TAKE w \in CU \X Slot
    <3>1. w[1] \in CU /\ w[2] \in Slot
      OBVIOUS
    <3>2. CASE w[1] = c
      BY <3>1, <3>2 DEF SlotAt
    <3>3. CASE w[1] # c
      BY <1>2, <3>1, <3>3 DEF SlotAt, SameSlots
    <3> QED BY <3>2, <3>3
  <2>3. ASSUME NEW pc, NEW k PROVE KernelStopsAt(pc, k)' <=> KernelStopsAt(pc, k)
    BY <1>1 DEF KernelStopsAt
  <2> QED BY <1>1, <1>4, <2>1, <2>2, <2>3 DEF IInv, WavesAgree, KernelStopsAt
<1> QED BY <1>4, <1>6, <1>7, <1>8, <1>9, <1>10, <1>11, <1>12 DEF IInv

LEMMA SchedSignalIInv ==
    ASSUME IInv, TypeOK', StartsSeen', NEW c \in CU, SchedSignal(c)
    PROVE  IInv' /\ Waiting' = Waiting /\ Finished' = Finished
<1>1. /\ UNCHANGED <<hostVars, barrierVars, loaderVars, computeVars>>
      /\ UNCHANGED <<busy_cu, cu_launch, dispatch_out, status_in>>
      /\ UNCHANGED <<barrier_events, loaded_sig>>
      /\ busy_cu_scheduler[c] /\ barrier_signal[c] # <<>>
      /\ barrier_signal' = [barrier_signal EXCEPT ![c] = Tail(@)]
  BY DEF SchedSignal
<1>2. UNCHANGED <<total_warps, done, b_pc, b_c>>
  BY <1>1 DEF hostVars, barrierVars
<1>3. PICK q \in Seq(Signal) : q = barrier_signal[c]
  BY DEF IInv, TypeOK, StreamType
<1>4. PICK h \in Signal : h = Head(q)
  BY <1>1, <1>3, StreamOperators
<1>5. barrier_signal'[c] = Tail(q) /\ \A d \in CU : d # c => barrier_signal'[d] = barrier_signal[d]
  BY <1>1, <1>3 DEF IInv, TypeOK, StreamType
<1>6. Elements(q) = {h} \cup Elements(Tail(q))
  BY <1>1, <1>3, <1>4, TailElements
<1>7. "kernel_done" \in Elements(barrier_signal'[c]) => done'
  BY <1>2, <1>3, <1>5, <1>6 DEF IInv, SignalsAgree
<1>8. HasWarp(c)' = HasWarp(c) /\ Kernel' = Kernel
  BY <1>2 DEF HasWarp, Kernel
<1>9. ASSUME HasWarp(c)
      PROVE  AtMostOneRelease(Tail(q)) /\ (h = "release" => "release" \notin Elements(Tail(q)))
  <2>1. AtMostOneRelease(q)
    BY <1>3, <1>9 DEF IInv, SignalsAgree, ReleaseOf
  <2> QED BY <1>1, <1>3, <1>4, <2>1, TailAtMostOneRelease
<1>10. cu_launch[c] # 0
  BY <1>1, BusyLaunched
<1>11. CASE h = "release"
  <2>1. slots' = [slots EXCEPT ![c] = ReleaseBarrierSlots(@)] /\ UNCHANGED busy_cu_scheduler
    BY <1>3, <1>4, <1>11 DEF SchedSignal
  <2>2. ReleasePending(c)
    BY <1>3, <1>6, <1>11 DEF ReleasePending
  <2>3. \A s \in Slot : slots[c][s].state \in {"EMPTY", "STALLED"}
    <3> TAKE s \in Slot
    <3>1. <<c, s>> \in Kernel => slots[c][s].state = "STALLED"
      BY <2>2 DEF IInv, SignalsAgree, ReleaseOf, HasWarp
    <3>2. <<c, s>> \notin Kernel => slots[c][s].state = "EMPTY"
      BY SlotFacts
    <3> QED BY <3>1, <3>2
  <2>4. ~busy_cu[c]
    BY <2>3, BusyReady
  <2>5. /\ \A s \in Slot : slots'[c][s] = IF slots[c][s].state = "STALLED"
                                            THEN [slots[c][s] EXCEPT !.state = "READY"]
                                            ELSE slots[c][s]
        /\ \A d \in CU : d # c => slots'[d] = slots[d]
    BY <2>1 DEF ReleaseBarrierSlots, IInv, TypeOK, SchedType
  <2>6. \A s \in Slot : /\ slots'[c][s].resume_pc = slots[c][s].resume_pc
                        /\ slots[c][s].state = "STALLED" => slots'[c][s].state = "READY"
                        /\ slots[c][s].state = "EMPTY" => slots'[c][s].state = "EMPTY"
    <3> TAKE s \in Slot
    <3>1. slots[c][s] \in WarpSlot
      BY DEF IInv, TypeOK, SchedType
    <3> QED BY <2>5, <3>1 DEF WarpSlot
  <2>7. \A s \in Slot : /\ slots'[c][s].state = "EMPTY" <=> slots[c][s].state = "EMPTY"
                        /\ <<c, s>> \in Waiting' <=> <<c, s>> \in Waiting
                        /\ <<c, s>> \in Finished' <=> <<c, s>> \in Finished
    <3> TAKE s \in Slot
    <3>1. slots'[c][s].state \in {"EMPTY", "READY"}
      BY <2>3, <2>6
    <3>2. slots'[c][s].state = "EMPTY" <=> slots[c][s].state = "EMPTY"
      BY <2>3, <2>6
    <3>3. <<c, s>> \notin Waiting' /\ <<c, s>> \notin Waiting
      BY <2>2, <3>1, WarpSets
    <3>4. <<c, s>> \notin Finished' /\ <<c, s>> \notin Finished
      BY <2>3, <3>1, WarpSets
    <3> QED BY <3>2, <3>3, <3>4
  <2>8. ReleaseOf(c)'
    <3> SUFFICES ASSUME HasWarp(c)
                 PROVE  ~ReleasePending(c)' /\ AtMostOneRelease(barrier_signal'[c])
      <4>1. ReleasePending(c)' <=> (b_pc' = "release" /\ b_c' <= c)
                                   \/ "release" \in Elements(barrier_signal'[c])
        BY DEF ReleasePending
      <4> QED BY <1>8, <4>1 DEF ReleaseOf
    <3>1. ~(b_pc = "release" /\ b_c <= c)
      BY <1>3, <1>6, <1>11 DEF IInv, SignalsAgree, ReleaseOf
    <3>2. "release" \notin Elements(barrier_signal'[c])
      BY <1>5, <1>9, <1>11
    <3>3. ~ReleasePending(c)'
      BY <1>2, <3>1, <3>2 DEF ReleasePending
    <3> QED BY <1>5, <1>9, <3>3
  <2> QED BY <1>1, <1>5, <1>7, <2>1, <2>4, <2>5, <2>6, <2>7, <2>8, SignalConsumed
<1>12. CASE h = "kernel_done"
  <2>1. UNCHANGED slots /\ busy_cu_scheduler' = [busy_cu_scheduler EXCEPT ![c] = FALSE]
    BY <1>3, <1>4, <1>12 DEF SchedSignal
  <2>2. done
    BY <1>3, <1>6, <1>12 DEF IInv, SignalsAgree
  <2>3. ~busy_cu[c]
    BY <2>2, BusyReady, SlotFacts
  <2>4. \A d \in CU : d # c => busy_cu_scheduler'[d] = busy_cu_scheduler[d]
    BY <2>1 DEF IInv, TypeOK, SchedType
  <2>5. "release" \in Elements(barrier_signal'[c]) <=> "release" \in Elements(barrier_signal[c])
    BY <1>3, <1>5, <1>6, <1>12
  <2>6. ReleasePending(c)' <=> ReleasePending(c)
    BY <1>2, <2>5 DEF ReleasePending
  <2>7. \A s \in Slot : /\ <<c, s>> \in Waiting' <=> <<c, s>> \in Waiting
                        /\ <<c, s>> \in Finished' <=> <<c, s>> \in Finished
    BY <2>1, <2>6, WarpSets
  <2>8. ReleaseOf(c)'
    <3> SUFFICES ASSUME HasWarp(c)
                 PROVE  /\ ReleasePending(c)' =>
                              \A s \in Slot : <<c, s>> \in Kernel => slots'[c][s].state = "STALLED"
                        /\ AtMostOneRelease(barrier_signal'[c])
                        /\ b_pc' = "release" /\ b_c' <= c =>
                              "release" \notin Elements(barrier_signal'[c])
      BY <1>8 DEF ReleaseOf
    <3>1. ReleaseOf(c)
      BY DEF IInv, SignalsAgree
    <3>2. AtMostOneRelease(barrier_signal'[c])
      BY <1>5, <1>9
    <3>3. \A s \in Slot : slots'[c][s].state = slots[c][s].state
      BY <2>1
    <3> QED BY <1>2, <2>5, <2>6, <3>1, <3>2, <3>3 DEF ReleaseOf
  <2> QED BY <1>1, <1>5, <1>7, <2>1, <2>3, <2>4, <2>7, <2>8, SignalConsumed
<1> QED BY <1>11, <1>12 DEF Signal
-----------------------------------------------------------------------------
\* A straight-line kernel has one next barrier.
LEMMA StopUnique ==
    ASSUME NEW pc, NEW i, NEW k, KernelStopsAt(pc, i), KernelStopsAt(pc, k)
    PROVE  i = k
<1>1. i \in ProgramAddr /\ k \in ProgramAddr /\ i \in Int /\ k \in Int
  BY DEF KernelStopsAt, ProgramAddr
<1>2. ~(i < k)
  BY <1>1 DEF KernelStopsAt
<1>3. ~(k < i)
  BY <1>1 DEF KernelStopsAt
<1> QED BY <1>1, <1>2, <1>3

\* A warp that reports has been released and has no event in flight yet.
LEMMA ReportFacts ==
    ASSUME IInv, NEW c \in CU, NEW s \in Slot, slots[c][s].state = "READY"
    PROVE  /\ <<c, s>> \in Released /\ cu_launch[c] # 0 /\ launches # 0 /\ ~done
           /\ ~ReleasePending(c)
           /\ <<c, s>> \notin Waiting /\ <<c, s>> \notin Finished
           /\ <<c, s>> \notin arrived /\ <<c, s>> \notin finished
           /\ \A f \in Elements(barrier_events[c]) : f.slot_id # s
<1>1. <<c, s>> \in Kernel /\ cu_launch[c] # 0 /\ ~ReleasePending(c) /\ ~done
  BY SlotFacts
<1>2. <<c, s>> \notin Waiting /\ <<c, s>> \notin Finished
  BY WarpSets
<1>3. <<c, s>> \notin arrived /\ <<c, s>> \notin finished
  BY <1>2 DEF IInv, CountersAgree
<1>4. ASSUME NEW f \in Elements(barrier_events[c]) PROVE f.slot_id # s
  <2>1. EventAgrees(c, f)
    BY DEF IInv, EventsAgree
  <2> QED BY <1>2, <2>1 DEF EventAgrees
<1>5. launches # 0
  BY <1>1 DEF IInv, QuietBeforeLaunch, TokenSent
<1> QED BY <1>1, <1>2, <1>3, <1>4, <1>5 DEF Released

\* What a scheduler has seen of start stays true while it polls its token.
LEMMA StartsSeenStep ==
    ASSUME MAX_LAUNCHES = 1, IInv, [Next]_vars
    PROVE  StartsSeen'
<1> SUFFICES ASSUME NEW c \in CU, s_pc'[c] = "token"
             PROVE  launches' = 1 /\ ~LaunchFault(total_warps') /\ ~busy_cu_scheduler'[c]
  BY Zenon DEF StartsSeen, StartSeen, LaunchFault
<1>1. s_pc[c] = "token" => launches = 1 /\ ~LaunchFault(total_warps) /\ ~busy_cu_scheduler[c]
  BY DEF IInv, StartsSeen, StartSeen
<1>2. /\ s_pc \in [CU -> {"dispatch", "token", "status", "signal"}]
      /\ busy_cu_scheduler \in [CU -> BOOLEAN]
  BY DEF IInv, TypeOK, SchedType
<1>3. CASE UNCHANGED <<hostVars, s_pc, busy_cu_scheduler>>
  BY <1>1, <1>3 DEF hostVars, LaunchFault
<1>4. ASSUME NEW p \in Programs, NEW t \in WarpCounts, HostStart(p, t) PROVE FALSE
  BY <1>1, <1>4 DEF HostStart, schedVars
<1>5. CASE HostClear
  BY <1>1, <1>5 DEF HostClear, schedVars, LaunchFault
<1>6. CASE BarrierCore
  BY <1>3, <1>6 DEF BarrierCore, BarrierLaunch, BarrierPollEvent, BarrierPollEmpty,
     BarrierTestRelease, BarrierSignal, BarrierTestComplete, schedVars
<1>7. CASE ProgramLoader
  BY <1>3, <1>7 DEF ProgramLoader, LoaderReset, LoaderWord, LoaderBlock, LoaderSeed,
     LoaderToken, LoaderFinish, schedVars
<1>8. ASSUME NEW d \in CU, ComputePipeline(d) PROVE UNCHANGED <<hostVars, s_pc, busy_cu_scheduler>>
  BY <1>8 DEF ComputePipeline, ComputeSeed, ComputeNoSeed, ComputeAccept, ComputeNoDispatch,
     ComputeExecute, schedVars
<1>9. ASSUME NEW d \in CU, SchedulerCore(d)
      PROVE  launches' = 1 /\ ~LaunchFault(total_warps') /\ ~busy_cu_scheduler'[c]
  <2>1. UNCHANGED hostVars
    BY <1>9 DEF SchedulerCore, SchedSample, SchedNoToken, SchedLaunch, SchedDispatch,
       SchedNoDispatch, SchedStatus, SchedNoStatus, SchedSignal, SchedNoSignal
  <2>2. CASE SchedSample(d)
    <3>1. UNCHANGED busy_cu_scheduler
      BY <2>2 DEF SchedSample
    <3>2. CASE d = c
      <4>1. start /\ ~LaunchFault(total_warps) /\ ~busy_cu_scheduler[c]
        BY <2>2, <3>2 DEF SchedSample
      <4>2. launches = 1
        BY <4>1 DEF IInv, QuietBeforeLaunch
      <4> QED BY <2>1, <3>1, <4>1, <4>2 DEF hostVars, LaunchFault
    <3>3. CASE d # c
      <4>1. s_pc[c] = "token"
        BY <1>2, <2>2, <3>3 DEF SchedSample
      <4> QED BY <1>1, <2>1, <3>1, <4>1 DEF hostVars, LaunchFault
    <3> QED BY <3>2, <3>3
  <2>3. CASE ~SchedSample(d)
    <3>1. s_pc'[d] # "token"
      BY <1>2, <1>9, <2>3 DEF SchedulerCore, SchedNoToken, SchedLaunch, SchedDispatch,
         SchedNoDispatch, SchedStatus, SchedNoStatus, SchedSignal, SchedNoSignal
    <3>2. s_pc'[c] = s_pc[c] /\ busy_cu_scheduler'[c] = busy_cu_scheduler[c]
      BY <1>2, <1>9, <2>3, <3>1 DEF SchedulerCore, SchedNoToken, SchedLaunch, SchedDispatch,
         SchedNoDispatch, SchedStatus, SchedNoStatus, SchedSignal, SchedNoSignal
    <3> QED BY <1>1, <2>1, <3>2 DEF hostVars, LaunchFault
  <2> QED BY <2>2, <2>3
<1>10. CASE UNCHANGED vars
  BY <1>3, <1>10 DEF vars, hostVars
<1> QED BY <1>3, <1>4, <1>5, <1>6, <1>7, <1>8, <1>9, <1>10 DEF Next

LEMMA SchedStatusIInv ==
    ASSUME IInv, TypeOK', StartsSeen', NEW c \in CU, SchedStatus(c)
    PROVE  /\ IInv'
           /\ \E s \in Slot :
                 /\ <<c, s>> \in Kernel \ (Waiting \cup Finished)
                 /\ \/ Waiting' = Waiting \cup {<<c, s>>} /\ Finished' = Finished
                    \/ Finished' = Finished \cup {<<c, s>>} /\ Waiting' = Waiting
<1>1. /\ UNCHANGED <<hostVars, barrierVars, loaderVars, computeVars>>
      /\ UNCHANGED <<busy_cu_scheduler, cu_launch, dispatch_out, barrier_signal, loaded_sig>>
      /\ busy_cu_scheduler[c] /\ status_in[c] # <<>>
      /\ slots' = [slots EXCEPT ![c] = RecordResult(@, Head(status_in[c]))]
      /\ barrier_events' = [barrier_events EXCEPT ![c] =
            Append(@, [code |-> Head(status_in[c]).code,
                       slot_id |-> Head(status_in[c]).slot_id])]
      /\ status_in' = [status_in EXCEPT ![c] = Tail(@)]
      /\ busy_cu' = [busy_cu EXCEPT ![c] = FALSE]
  BY DEF SchedStatus
<1>2. UNCHANGED <<total_warps, program, done, b_pc, b_c, arrived, finished, barrier, c_pc>>
  BY <1>1 DEF hostVars, barrierVars, computeVars
<1>3. PICK st \in Status : st = Head(status_in[c])
  BY <1>1, StreamOperators DEF IInv, TypeOK, StreamType
<1>4. PICK s \in Slot : s = st.slot_id
  BY DEF Status
<1>5. PICK e \in Event : e = [code |-> st.code, slot_id |-> s]
  BY DEF Status, Event
<1>6. e.code = st.code /\ e.slot_id = s
  BY <1>5
<1>7. /\ slots[c][s].state = "READY"
      /\ st.code = "STALLED_AT_BARRIER" => KernelStopsAt(slots[c][s].resume_pc, st.resume_pc - 1)
  BY <1>1, <1>3, <1>4 DEF IInv, PipelinesAgree, PipelineOf, StatusAgrees
<1>8. /\ <<c, s>> \in Released /\ cu_launch[c] # 0 /\ launches # 0 /\ ~done
      /\ ~ReleasePending(c)
      /\ <<c, s>> \notin Waiting /\ <<c, s>> \notin Finished
      /\ <<c, s>> \notin arrived /\ <<c, s>> \notin finished
      /\ \A f \in Elements(barrier_events[c]) : f.slot_id # s
  BY <1>7, ReportFacts
<1>9. st.code \in {"COMPLETE", "STALLED_AT_BARRIER"} /\ st.resume_pc \in Nat
  BY DEF Status
<1>10. /\ \A r \in Slot : r # s => slots'[c][r] = slots[c][r]
       /\ slots'[c][s].state = IF st.code = "COMPLETE" THEN "DONE" ELSE "STALLED"
       /\ slots'[c][s].resume_pc =
             IF st.code = "COMPLETE" THEN slots[c][s].resume_pc ELSE st.resume_pc
       /\ \A d \in CU : d # c => slots'[d] = slots[d]
  <2>1. /\ slots'[c] = RecordResult(slots[c], st)
        /\ \A d \in CU : d # c => slots'[d] = slots[d]
    BY <1>1, <1>3 DEF IInv, TypeOK, SchedType
  <2>2. slots[c] \in [Slot -> WarpSlot] /\ slots[c][s] \in WarpSlot
    BY DEF IInv, TypeOK, SchedType
  <2>3. CASE st.code = "COMPLETE"
    <3>1. slots'[c] = [slots[c] EXCEPT ![s].state = "DONE"]
      BY <1>4, <2>1, <2>3 DEF RecordResult
    <3> QED BY <2>1, <2>2, <2>3, <3>1 DEF WarpSlot
  <2>4. CASE st.code # "COMPLETE"
    <3>1. slots'[c] = [slots[c] EXCEPT ![s].state = "STALLED", ![s].resume_pc = st.resume_pc]
      BY <1>4, <2>1, <2>4 DEF RecordResult
    <3> QED BY <2>1, <2>2, <2>4, <3>1 DEF WarpSlot
  <2> QED BY <2>3, <2>4
<1>11. /\ barrier_events'[c] = Append(barrier_events[c], e)
       /\ \A d \in CU : d # c => barrier_events'[d] = barrier_events[d]
       /\ barrier_events[c] \in Seq(Event)
  BY <1>1, <1>3, <1>4, <1>5 DEF IInv, TypeOK, StreamType
<1>12. Elements(barrier_events'[c]) = Elements(barrier_events[c]) \cup {e}
  BY <1>11, AppendElements
<1>13. /\ status_in'[c] = <<>> /\ busy_cu'[c] = FALSE /\ dispatch_out[c] = <<>>
       /\ c_pc[c] # "execute"
  <2>1. Len(status_in[c]) = 1 /\ dispatch_out[c] = <<>> /\ c_pc[c] # "execute"
    BY <1>1, PipelinePlaces
  <2>2. status_in[c] \in Seq(Status)
    BY DEF IInv, TypeOK, StreamType
  <2>3. Tail(status_in[c]) = <<>>
    BY <2>1, <2>2, SingletonTail
  <2>4. status_in'[c] = Tail(status_in[c]) /\ busy_cu'[c] = FALSE
    BY <1>1 DEF IInv, TypeOK, StreamType, SchedType
  <2> QED BY <2>1, <2>3, <2>4
<1>14. \A d \in CU \ {c} : ShareOf(d)' /\ PipelineOf(d)' /\ SameSlots(d)
  <2> SUFFICES ASSUME NEW d \in CU, d # c PROVE ShareOf(d)' /\ PipelineOf(d)' /\ SameSlots(d)
    OBVIOUS
  <2>1. status_in'[d] = status_in[d] /\ busy_cu'[d] = busy_cu[d]
    BY <1>1 DEF IInv, TypeOK, StreamType, SchedType
  <2> QED BY <1>1, <1>10, <2>1, OtherCU DEF computeVars
<1>15. \A d \in CU : ReleasePending(d)' <=> ReleasePending(d)
  BY <1>1, <1>2 DEF ReleasePending, Elements
<1>16. \A d \in CU, r \in Slot :
          /\ <<d, r>> \in Finished' <=>
                <<d, r>> \in Finished \/ (st.code = "COMPLETE" /\ d = c /\ r = s)
          /\ <<d, r>> \in Waiting' <=>
                <<d, r>> \in Waiting \/ (st.code # "COMPLETE" /\ d = c /\ r = s)
  <2> TAKE d \in CU, r \in Slot
  <2>1. CASE d = c /\ r = s
    BY <1>8, <1>10, <1>15, <2>1, WarpSets
  <2>2. CASE ~(d = c /\ r = s)
    <3>1. slots'[d][r] = slots[d][r]
      BY <1>10, <2>2
    <3> QED BY <1>15, <2>2, <3>1, WarpSets
  <2> QED BY <2>1, <2>2
<1>17. Finished \subseteq Finished' /\ Waiting \subseteq Waiting'
  <2>1. ASSUME NEW w \in CU \X Slot
        PROVE  (w \in Waiting => w \in Waiting') /\ (w \in Finished => w \in Finished')
    <3>1. PICK d \in CU, r \in Slot : w = <<d, r>>
      OBVIOUS
    <3> QED BY <1>16, <3>1
  <2> QED BY <2>1, WarpSets
<1>18. QuietBeforeLaunch'
  BY <1>1, <1>8, FrameQuiet DEF IInv
<1>19. LoaderProgress'
  <2>1. \A d \in CU : TokenSent(d)' <=> TokenSent(d)
    BY <1>1 DEF TokenSent
  <2> QED BY <1>1, <2>1, FrameLoader DEF IInv
<1>20. ShareOfKernel'
  <2>1. \A r \in Slot : slots'[c][r].state = "EMPTY" <=> slots[c][r].state = "EMPTY"
    BY <1>7, <1>10
  <2>2. ShareOf(c)'
    BY <1>1, <1>2, <1>8, <2>1 DEF IInv, ShareOfKernel, ShareOf, Kernel
  <2> QED BY <1>14, <2>2 DEF ShareOfKernel
<1>21. PipelinesAgree'
  <2>1. /\ dispatch_out'[c] = <<>> /\ status_in'[c] = <<>> /\ c_pc'[c] # "execute"
        /\ ~busy_cu'[c]
    BY <1>1, <1>2, <1>13
  <2>2. InFlight(c)' = 0
    BY <2>1 DEF InFlight
  <2>3. PipelineOf(c)'
    BY <2>1, <2>2 DEF PipelineOf
  <2> QED BY <1>14, <2>3 DEF PipelinesAgree
<1>22. EventsAgree'
  <2> SUFFICES ASSUME NEW d \in CU
               PROVE  /\ OncePerSlot(barrier_events'[d])
                      /\ \A f \in Elements(barrier_events'[d]) : EventAgrees(d, f)'
    BY DEF EventsAgree, OncePerSlot, EventAgrees
  <2>1. /\ OncePerSlot(barrier_events[d])
        /\ \A f \in Elements(barrier_events[d]) : EventAgrees(d, f)
    BY DEF IInv, EventsAgree
  <2>2. ASSUME NEW f, EventAgrees(d, f) PROVE EventAgrees(d, f)'
    BY <1>2, <1>17, <2>2 DEF EventAgrees
  <2>3. CASE d # c
    BY <1>11, <2>1, <2>2, <2>3
  <2>4. CASE d = c
    <3>1. OncePerSlot(barrier_events'[d])
      BY <1>6, <1>8, <1>11, <2>1, <2>4, AppendOncePerSlot
    <3>2. EventAgrees(c, e)'
      BY <1>2, <1>6, <1>8, <1>9, <1>16 DEF EventAgrees
    <3> QED BY <1>12, <2>1, <2>2, <2>4, <3>1, <3>2
  <2> QED BY <2>3, <2>4
<1>23. CountersAgree'
  <2>1. ASSUME NEW k PROVE Reported(k) \subseteq Reported(k)'
    <3>1. \A d \in CU : Elements(barrier_events[d]) \subseteq Elements(barrier_events'[d])
      BY <1>11, <1>12
    <3> QED BY <3>1 DEF Reported
  <2>2. <<c, s>> \in Reported(st.code)'
    BY <1>6, <1>12 DEF Reported
  <2>3. ASSUME NEW w \in Waiting' PROVE w \in arrived' \cup Reported("STALLED_AT_BARRIER")'
    <3>1. PICK d \in CU, r \in Slot : w = <<d, r>>
      BY WarpSets
    <3>2. Waiting \subseteq arrived \cup Reported("STALLED_AT_BARRIER")
      BY <1>8 DEF IInv, CountersAgree
    <3> QED BY <1>2, <1>9, <1>16, <2>1, <2>2, <3>1, <3>2
  <2>4. ASSUME NEW w \in Finished' PROVE w \in finished' \cup Reported("COMPLETE")'
    <3>1. PICK d \in CU, r \in Slot : w = <<d, r>>
      BY WarpSets
    <3>2. Finished \subseteq finished \cup Reported("COMPLETE")
      BY <1>8 DEF IInv, CountersAgree
    <3> QED BY <1>2, <1>16, <2>1, <2>2, <3>1, <3>2
  <2> QED BY <1>2, <1>17, <2>3, <2>4 DEF IInv, CountersAgree
<1>24. BarrierPhase'
  BY <1>1, <1>2, <1>8 DEF IInv, BarrierPhase, barrierVars, LaunchFault
<1>25. SignalsAgree'
  <2> SUFFICES ASSUME NEW d \in CU PROVE ReleaseOf(d)'
    BY <1>1, <1>2 DEF IInv, SignalsAgree
  <2>1. ReleaseOf(d) /\ Kernel' = Kernel
    BY <1>2 DEF Kernel, IInv, SignalsAgree
  <2>2. CASE d # c
    <3>1. SameSlots(d)
      BY <1>14, <2>2
    <3> QED BY <1>1, <1>2, <1>15, <2>1, <3>1 DEF ReleaseOf, HasWarp, SameSlots
  <2>3. CASE d = c
    BY <1>1, <1>2, <1>8, <1>15, <2>1, <2>3 DEF ReleaseOf, HasWarp
  <2> QED BY <2>2, <2>3
<1>26. WavesAgree'
  <2>1. Kernel' = Kernel /\ Kernel \subseteq CU \X Slot
    BY <1>2 DEF Kernel, WarpsOf
  <2>2. ASSUME NEW pc, NEW k PROVE KernelStopsAt(pc, k)' <=> KernelStopsAt(pc, k)
    BY <1>2 DEF KernelStopsAt
  <2>3. ASSUME NEW w \in CU \X Slot, w # <<c, s>>
        PROVE  /\ slots'[w[1]][w[2]] = slots[w[1]][w[2]]
               /\ w \in Waiting' <=> w \in Waiting
    <3>1. PICK d \in CU, r \in Slot : w = <<d, r>>
      OBVIOUS
    <3>2. ~(d = c /\ r = s)
      BY <2>3, <3>1
    <3>3. slots'[d][r] = slots[d][r]
      BY <1>10, <3>2
    <3> QED BY <1>16, <3>1, <3>2, <3>3
  <2>4. CASE st.code = "COMPLETE"
    <3>1. Waiting' = Waiting
      <4>1. \A w \in CU \X Slot : w \in Waiting' <=> w \in Waiting
        <5> TAKE w \in CU \X Slot
        <5>1. PICK d \in CU, r \in Slot : w = <<d, r>>
          OBVIOUS
        <5> QED BY <1>16, <2>4, <5>1
      <4> QED BY <4>1, WarpSets
    <3>2. \A d \in CU : slots'[d] = slots[d] \/ d = c
      BY <1>10
    <3>3. \A d \in CU, r \in Slot : slots'[d][r].resume_pc = slots[d][r].resume_pc
      BY <1>10, <2>4
    <3>4. \A w \in CU \X Slot : SlotAt(w)'.resume_pc = SlotAt(w).resume_pc
      BY <3>3 DEF SlotAt
    <3>5. Released' = Released /\ Released \subseteq CU \X Slot /\ Waiting \subseteq CU \X Slot
      BY <2>1, <3>1, WarpSets DEF Released
    <3> QED BY <2>2, <3>1, <3>4, <3>5 DEF IInv, WavesAgree
  <2>5. CASE st.code # "COMPLETE"
    <3>1. PICK m \in Nat : m = st.resume_pc
      BY <1>9
    <3>2. PICK p : p = slots[c][s].resume_pc
      OBVIOUS
    <3>3. KernelStopsAt(p, m - 1)
      BY <1>7, <1>9, <2>5, <3>1, <3>2
    <3>4. ASSUME NEW w \in Released' PROVE w \in Released /\ slots'[w[1]][w[2]].resume_pc = p
      <4>1. w \in Kernel /\ w \notin Waiting' /\ w \in CU \X Slot
        BY <2>1 DEF Released
      <4>2. w # <<c, s>>
        BY <1>16, <2>5, <4>1
      <4>3. w \in Released /\ slots'[w[1]][w[2]] = slots[w[1]][w[2]]
        BY <2>3, <4>1, <4>2 DEF Released
      <4>4. slots[w[1]][w[2]].resume_pc = p
        BY <1>8, <3>2, <4>3 DEF IInv, WavesAgree, SlotAt
      <4> QED BY <4>3, <4>4
    <3>5. ASSUME NEW w \in Waiting' PROVE slots'[w[1]][w[2]].resume_pc = m
      <4>1. w \in CU \X Slot
        BY WarpSets
      <4>2. CASE w = <<c, s>>
        BY <1>10, <2>5, <3>1, <4>2
      <4>3. CASE w # <<c, s>>
        <5>1. w \in Waiting /\ slots'[w[1]][w[2]] = slots[w[1]][w[2]]
          BY <2>3, <4>1, <4>3
        <5>2. KernelStopsAt(p, slots[w[1]][w[2]].resume_pc - 1)
          BY <1>8, <3>2, <5>1 DEF IInv, WavesAgree, SlotAt
        <5>3. slots[w[1]][w[2]].resume_pc - 1 = m - 1
          BY <3>3, <5>2, StopUnique
        <5>4. slots[w[1]][w[2]].resume_pc \in Nat
          BY <4>1 DEF IInv, TypeOK, SchedType, WarpSlot
        <5> QED BY <5>1, <5>3, <5>4
      <4> QED BY <4>2, <4>3
    <3>6. KernelStopsAt(p, m - 1)'
      BY <2>2, <3>3
    <3> QED BY <3>4, <3>5, <3>6 DEF WavesAgree, SlotAt, KernelStopsAt
  <2> QED BY <2>4, <2>5
<1>27. <<c, s>> \in Kernel \ (Waiting \cup Finished)
  BY <1>8 DEF Released
<1>28. \/ Waiting' = Waiting \cup {<<c, s>>} /\ Finished' = Finished
       \/ Finished' = Finished \cup {<<c, s>>} /\ Waiting' = Waiting
  <2>1. ASSUME NEW w \in CU \X Slot
        PROVE  /\ w \in Finished' <=> w \in Finished \/ (st.code = "COMPLETE" /\ w = <<c, s>>)
               /\ w \in Waiting' <=> w \in Waiting \/ (st.code # "COMPLETE" /\ w = <<c, s>>)
    <3>1. PICK d \in CU, r \in Slot : w = <<d, r>>
      OBVIOUS
    <3> QED BY <1>16, <3>1
  <2>2. <<c, s>> \in CU \X Slot
    OBVIOUS
  <2> QED BY <2>1, <2>2, WarpSets
<1>29. IInv'
  BY <1>18, <1>19, <1>20, <1>21, <1>22, <1>23, <1>24, <1>25, <1>26 DEF IInv
<1> QED BY <1>27, <1>28, <1>29
-----------------------------------------------------------------------------
(***************************************************************************)
(* Every step preserves IInv.                                              *)
(***************************************************************************)
LEMMA NextIInv ==
    ASSUME MAX_LAUNCHES = 1, NUM_CUS <= CU_ID_VALUES
    PROVE  IInv /\ [Next]_vars => IInv'
<1> SUFFICES ASSUME IInv, [Next]_vars PROVE IInv'
  OBVIOUS
<1>1. TypeOK' /\ StartsSeen'
  BY TypeOKStep, StartsSeenStep DEF IInv
<1>2. CASE UNCHANGED vars
  BY <1>1, <1>2, QuietStep DEF vars, hostVars, barrierVars, loaderVars
<1>3. ASSUME NEW p \in Programs, NEW t \in WarpCounts, HostStart(p, t) PROVE IInv'
  BY <1>1, <1>3, HostStartIInv
<1>4. CASE HostClear
  BY <1>1, <1>4, HostClearIInv
<1>5. CASE BarrierCore
  BY <1>1, <1>5, BarrierLaunchIInv, BarrierPollIInv, BarrierTestReleaseIInv,
     BarrierTestCompleteIInv, BarrierSignalIInv DEF BarrierCore
<1>6. CASE ProgramLoader
  BY <1>1, <1>6, LoaderIInv
<1>7. ASSUME NEW c \in CU, SchedulerCore(c) PROVE IInv'
  <2>1. CASE \/ SchedSample(c) \/ SchedNoToken(c)
             \/ SchedNoDispatch(c) \/ SchedNoStatus(c) \/ SchedNoSignal(c)
    BY <1>1, <2>1, QuietStep
       DEF SchedSample, SchedNoToken, SchedNoDispatch, SchedNoStatus, SchedNoSignal,
           computeVars, streamVars
  <2>2. CASE SchedLaunch(c)
    BY <1>1, <2>2, SchedLaunchIInv
  <2>3. ASSUME NEW s \in Slot, SchedDispatch(c, s) PROVE IInv'
    BY <1>1, <2>3, SchedDispatchIInv
  <2>4. CASE SchedStatus(c)
    BY <1>1, <2>4, SchedStatusIInv
  <2>5. CASE SchedSignal(c)
    BY <1>1, <2>5, SchedSignalIInv
  <2> QED BY <1>7, <2>1, <2>2, <2>3, <2>4, <2>5 DEF SchedulerCore
<1>8. ASSUME NEW c \in CU, ComputePipeline(c) PROVE IInv'
  <2>1. CASE ComputeSeed(c)
    BY <1>1, <2>1, QuietStep DEF ComputeSeed, schedVars
  <2>2. CASE ComputeNoSeed(c) \/ ComputeNoDispatch(c)
    <3>1. \A d \in CU : c_pc'[d] = "execute" <=> c_pc[d] = "execute"
      BY <2>2 DEF ComputeNoSeed, ComputeNoDispatch, IInv, TypeOK, ComputeType
    <3> QED BY <1>1, <2>2, <3>1, QuietStep
               DEF ComputeNoSeed, ComputeNoDispatch, schedVars, streamVars
  <2>3. CASE ComputeAccept(c)
    BY <1>1, <2>3, ComputeAcceptIInv
  <2>4. CASE ComputeExecute(c)
    BY <1>1, <2>4, ComputeExecuteIInv
  <2> QED BY <1>8, <2>1, <2>2, <2>3, <2>4 DEF ComputePipeline
<1> QED BY <1>2, <1>3, <1>4, <1>5, <1>6, <1>7, <1>8 DEF Next

(***************************************************************************)
(* On a device whose compute units fit in a cu_id_t, started once after    *)
(* reset, the inductive invariant holds in every reachable state.          *)
(***************************************************************************)
THEOREM Invariant ==
    ASSUME MAX_LAUNCHES = 1, NUM_CUS <= CU_ID_VALUES
    PROVE  Spec => []IInv
BY InitIInv, NextIInv, PTL DEF Spec
-----------------------------------------------------------------------------
(***************************************************************************)
(* No arrival and no completion is lost or counted twice between a CU's    *)
(* recordResult() and barrierCore's counters, for every number of CUs,     *)
(* slots, warps and barriers.                                              *)
(***************************************************************************)
THEOREM ArrivalsProof ==
    ASSUME MAX_LAUNCHES = 1, NUM_CUS <= CU_ID_VALUES
    PROVE  Spec => []ArrivalsAccountedFor
<1>1. IInv => ArrivalsAccountedFor
  <2> SUFFICES ASSUME IInv, ~done PROVE ArrivalsAccountedFor
    BY DEF ArrivalsAccountedFor
  <2>1. CountersAgree
    BY DEF IInv
  <2>2. ASSUME NEW w \in Reported("STALLED_AT_BARRIER")
        PROVE  w \in Waiting /\ w \notin arrived
    <3>1. PICK c \in CU, s \in Slot : w = <<c, s>>
      BY DEF Reported
    <3>2. PICK e \in Elements(barrier_events[c]) : e.code = "STALLED_AT_BARRIER" /\ e.slot_id = s
      BY <3>1 DEF Reported
    <3>3. EventAgrees(c, e)
      BY DEF IInv, EventsAgree
    <3> QED BY <3>1, <3>2, <3>3 DEF EventAgrees
  <2>3. ASSUME NEW w \in Reported("COMPLETE")
        PROVE  w \in Finished /\ w \notin finished
    <3>1. PICK c \in CU, s \in Slot : w = <<c, s>>
      BY DEF Reported
    <3>2. PICK e \in Elements(barrier_events[c]) : e.code = "COMPLETE" /\ e.slot_id = s
      BY <3>1 DEF Reported
    <3>3. EventAgrees(c, e)
      BY DEF IInv, EventsAgree
    <3> QED BY <3>1, <3>2, <3>3 DEF EventAgrees
  <2> QED BY <2>1, <2>2, <2>3 DEF ArrivalsAccountedFor, CountersAgree
<1> QED BY <1>1, Invariant, PTL

(***************************************************************************)
(* No warp runs beyond a barrier that another warp of the kernel has not   *)
(* reached (barrierReleaseReady() over all CUs), for every kernel.         *)
(***************************************************************************)
THEOREM BarrierProof ==
    ASSUME MAX_LAUNCHES = 1, NUM_CUS <= CU_ID_VALUES
    PROVE  Spec => []NoWarpOvertakesBarrier
<1>1. IInv => NoWarpOvertakesBarrier
  <2> SUFFICES ASSUME IInv, NEW w \in Kernel, NEW v \in Kernel,
                      SlotAt(w).state \in {"READY", "DONE"}
               PROVE  SlotAt(v).resume_pc >= SlotAt(w).resume_pc
    BY DEF NoWarpOvertakesBarrier
  <2>1. w \in CU \X Slot /\ v \in CU \X Slot
    BY DEF Kernel, WarpsOf
  <2>2. SlotAt(w).resume_pc \in Nat /\ SlotAt(v).resume_pc \in Nat
    BY <2>1 DEF SlotAt, IInv, TypeOK, SchedType, WarpSlot
  <2>3. w \in Released
    BY DEF Released, Waiting
  <2>4. CASE v \in Released
    BY <2>2, <2>3, <2>4 DEF IInv, WavesAgree
  <2>5. CASE v \in Waiting
    <3>1. KernelStopsAt(SlotAt(w).resume_pc, SlotAt(v).resume_pc - 1)
      BY <2>3, <2>5 DEF IInv, WavesAgree
    <3>2. SlotAt(w).resume_pc <= SlotAt(v).resume_pc - 1
      BY <3>1 DEF KernelStopsAt
    <3> QED BY <2>2, <3>2
  <2> QED BY <2>4, <2>5 DEF Released
<1> QED BY <1>1, Invariant, PTL

(***************************************************************************)
(* busy_cu is exactly "one dispatched warp of this CU has not reported     *)
(* yet", for every depth of the dispatch and status streams.               *)
(***************************************************************************)
THEOREM InFlightProof ==
    ASSUME MAX_LAUNCHES = 1, NUM_CUS <= CU_ID_VALUES
    PROVE  Spec => []OneWarpInFlight
<1>1. IInv => OneWarpInFlight
  BY DEF IInv, PipelinesAgree, PipelineOf, InFlight, OneWarpInFlight
<1> QED BY <1>1, Invariant, PTL

(***************************************************************************)
(* status.done means that every warp of the kernel has run to completion   *)
(* and that nothing of it is still moving.                                 *)
(***************************************************************************)
THEOREM DoneProof ==
    ASSUME MAX_LAUNCHES = 1, NUM_CUS <= CU_ID_VALUES
    PROVE  Spec => []DoneMeansFinished
<1>1. IInv => DoneMeansFinished
  <2> SUFFICES ASSUME IInv, done PROVE DoneMeansFinished
    BY DEF DoneMeansFinished
  <2>1. Finished = Kernel /\ \A c \in CU : barrier_events[c] = <<>>
    BY DEF IInv, BarrierPhase
  <2>2. ASSUME NEW c \in CU PROVE AllSlotsDone(slots[c])
    <3>1. ASSUME NEW s \in Slot PROVE slots[c][s].state \notin {"READY", "STALLED"}
      BY <2>1, SlotFacts, WarpSets
    <3> QED BY <3>1 DEF AllSlotsDone
  <2>3. ASSUME NEW c \in CU PROVE ~busy_cu[c]
    BY BusyReady, SlotFacts
  <2> QED BY <2>1, <2>2, <2>3 DEF DoneMeansFinished
<1> QED BY <1>1, Invariant, PTL

(***************************************************************************)
(* A launch above the resident capacity raises fault and runs nothing.     *)
(***************************************************************************)
THEOREM FaultProof ==
    ASSUME MAX_LAUNCHES = 1, NUM_CUS <= CU_ID_VALUES
    PROVE  Spec => []FaultedLaunchRunsNothing
<1>1. IInv => FaultedLaunchRunsNothing
  <2> SUFFICES ASSUME IInv, fault \/ total_warps > Capacity
               PROVE  /\ total_warps > Capacity /\ ~busy /\ ~done
                      /\ \A c \in CU : /\ \A s \in Slot : slots[c][s].state = "EMPTY"
                                       /\ dispatch_out[c] = <<>> /\ c_pc[c] # "execute"
    BY DEF FaultedLaunchRunsNothing
  <2>1. LaunchFault(total_warps) /\ total_warps > Capacity
    BY DEF IInv, BarrierPhase, LaunchFault
  <2>2. ~busy /\ ~done
    BY <2>1 DEF IInv, BarrierPhase
  <2>3. ASSUME NEW c \in CU
        PROVE  /\ \A s \in Slot : slots[c][s].state = "EMPTY"
               /\ dispatch_out[c] = <<>> /\ c_pc[c] # "execute"
    <3>1. \A s \in Slot : slots[c][s].state = "EMPTY"
      BY <2>1 DEF IInv, ShareOfKernel, ShareOf
    <3>2. ~busy_cu[c]
      BY <3>1, BusyReady
    <3> QED BY <3>1, <3>2, PipelinePlaces
  <2> QED BY <2>1, <2>2, <2>3
<1> QED BY <1>1, Invariant, PTL

(***************************************************************************)
(* An event stream as deep as a CU has slots never blocks schedulerCore,   *)
(* however late barrierCore polls.                                         *)
(***************************************************************************)
THEOREM EventWriteProof ==
    ASSUME MAX_LAUNCHES = 1, NUM_CUS <= CU_ID_VALUES, EVENTS_DEPTH >= MAX_WARPS_PER_CU
    PROVE  Spec => []EventWriteNeverBlocks
<1>1. IInv => EventWriteNeverBlocks
  <2> SUFFICES ASSUME IInv, NEW c \in CU, status_in[c] # <<>>
               PROVE  Len(barrier_events[c]) < EVENTS_DEPTH
    BY DEF EventWriteNeverBlocks
  <2>1. PICK s \in Slot : slots[c][s].state = "READY"
    BY BusyReady, PipelinePlaces
  <2>2. \A f \in Elements(barrier_events[c]) : f.slot_id # s
    BY <2>1, ReportFacts
  <2>3. PICK q \in Seq(Event) : q = barrier_events[c]
    BY DEF IInv, TypeOK, StreamType
  <2>4. OncePerSlot(q)
    BY <2>3 DEF IInv, EventsAgree
  <2> DEFINE f == [i \in 1 .. Len(q) |-> q[i].slot_id]
  <2>5. Len(q) \in Nat /\ DOMAIN q = 1 .. Len(q)
    OBVIOUS
  <2>6. \A i \in 1 .. Len(q) : q[i] \in Event /\ q[i] \in Elements(q)
    BY <2>5 DEF Elements
  <2>7. \A i \in 1 .. Len(q) : q[i].slot_id \in Slot \ {s}
    BY <2>2, <2>3, <2>6 DEF Event
  <2>8. f \in Injection(1 .. Len(q), Slot \ {s})
    <3>1. f \in [1 .. Len(q) -> Slot \ {s}]
      BY <2>7
    <3>2. \A i, j \in 1 .. Len(q) : f[i] = f[j] => i = j
      BY <2>4, <2>5 DEF OncePerSlot
    <3> HIDE DEF f
    <3> QED BY <3>1, <3>2 DEF Injection, IsInjective
  <2>9. IsFiniteSet(Slot) /\ Cardinality(Slot) = MAX_WARPS_PER_CU
    BY WarpSlotsAssumption, FS_Interval DEF Slot
  <2>10. IsFiniteSet(Slot \ {s}) /\ Cardinality(Slot \ {s}) = MAX_WARPS_PER_CU - 1
    BY <2>9, FS_RemoveElement
  <2>11. IsFiniteSet(1 .. Len(q)) /\ Cardinality(1 .. Len(q)) = Len(q)
    <3>1. PICK n \in Nat : n = Len(q)
      BY <2>5
    <3>2. IsFiniteSet(1 .. n) /\ Cardinality(1 .. n) = IF 1 > n THEN 0 ELSE n - 1 + 1
      BY FS_Interval
    <3>3. Cardinality(1 .. n) = n
      BY <3>2
    <3> QED BY <3>1, <3>2, <3>3
  <2>12. Cardinality(1 .. Len(q)) <= Cardinality(Slot \ {s})
    <3> HIDE DEF f
    <3> QED BY <2>8, <2>10, <2>11, FS_Injection
  <2>13. Len(q) <= MAX_WARPS_PER_CU - 1
    BY <2>10, <2>11, <2>12
  <2> QED BY <2>3, <2>5, <2>13, WarpSlotsAssumption, GpgpuTopAssumption
<1> QED BY <1>1, Invariant, PTL
-----------------------------------------------------------------------------
(***************************************************************************)
(* Seeding: SeedInv is an invariant relative to IInv.                      *)
(***************************************************************************)
LEMMA FrameSeeds ==
    ASSUME SeedInv, UNCHANGED <<total_warps, launches, regs, reg_seed>>,
           loader'.seed_c = loader.seed_c, loader'.seed_slot = loader.seed_slot,
           loader'.seed_i = loader.seed_i,
           \A c \in CU : TokenSent(c)' <=> TokenSent(c)
    PROVE  SeedInv'
<1>1. \A c \in CU, s \in Slot, i \in Word : WordPassed(c, s, i)' <=> WordPassed(c, s, i)
  BY DEF WordPassed
<1>2. \A c \in CU, s \in Slot, i \in Word : WordSeeded(c, s, i) => WordSeeded(c, s, i)'
  BY DEF WordSeeded, Elements
<1> QED BY <1>1, <1>2 DEF SeedInv, Kernel, Elements

LEMMA InitSeeds == Init => SeedInv
<1> SUFFICES ASSUME Init PROVE SeedInv
  OBVIOUS
<1>1. loader.seed_c = 0 /\ loader.seed_slot = 0 /\ loader.seed_i = 0
  BY DEF Init, LoaderIdle
<1>2. \A c \in CU : ~(loader.seed_c > c)
  BY <1>1, WarpSlotsAssumption DEF CU
<1>3. Kernel = {}
  <2>1. \A w \in CU \X Slot : LocalWarp(w[1], w[2]) \in Nat
    BY LocalWarpType
  <2> QED BY <2>1 DEF Init, Kernel, WarpsOf
<1>4. \A c \in CU : Elements(reg_seed[c]) = {}
  BY EmptyElements DEF Init
<1> QED BY <1>1, <1>2, <1>3, <1>4 DEF SeedInv

LEMMA HostStartSeeds ==
    ASSUME MAX_LAUNCHES = 1, IInv, SeedInv, NEW p \in Programs, NEW t \in WarpCounts,
           HostStart(p, t)
    PROVE  SeedInv'
<1>1. launches = 0
  BY DEF IInv, TypeOK, HostType, Launch, HostStart
<1>2. loader = LoaderIdle /\ \A c \in CU : ~TokenSent(c)
  BY <1>1 DEF IInv, QuietBeforeLaunch
<1>3. UNCHANGED <<loader, cu_launch, loaded_sig, reg_seed>>
  BY DEF HostStart, loaderVars, schedVars, streamVars
<1>4. loader'.seed_c = 0 /\ loader'.seed_slot = 0 /\ loader'.seed_i = 0
  BY <1>2, <1>3 DEF LoaderIdle
<1>5. \A c \in CU : ~TokenSent(c)' /\ Elements(reg_seed'[c]) = {}
  BY <1>1, <1>2, <1>3 DEF TokenSent, SeedInv, Elements
<1>6. \A c \in CU : ~(loader'.seed_c > c)
  BY <1>4, WarpSlotsAssumption DEF CU
<1>7. \A c \in CU, s \in Slot, i \in Word : ~WordPassed(c, s, i)'
  BY <1>4, <1>5, WarpSlotsAssumption, GpgpuTopAssumption DEF WordPassed, Slot, Word
<1> QED BY <1>4, <1>5, <1>6, <1>7 DEF SeedInv

\* The loader forgets where it was; what it has written stays written.
LEMMA LoaderResetSeeds ==
    ASSUME IInv, SeedInv, LoaderReset
    PROVE  SeedInv'
<1>1. /\ loader'.seed_c = 0 /\ loader'.seed_slot = 0 /\ loader'.seed_i = 0
      /\ UNCHANGED <<total_warps, launches, regs, reg_seed, cu_launch, loaded_sig>>
  BY DEF LoaderReset, LoaderIdle, hostVars, schedVars, computeVars, streamVars
<1>2. \A c \in CU : TokenSent(c)' <=> TokenSent(c)
  BY <1>1 DEF TokenSent
<1>3. \A c \in CU : ~(loader'.seed_c > c)
  BY <1>1, WarpSlotsAssumption DEF CU
<1>4. \A c \in CU, s \in Slot, i \in Word : WordPassed(c, s, i)' => WordPassed(c, s, i)
  BY <1>1, <1>2, WarpSlotsAssumption, GpgpuTopAssumption DEF WordPassed, Slot, Word
<1>5. \A c \in CU, s \in Slot, i \in Word : WordSeeded(c, s, i) => WordSeeded(c, s, i)'
  BY <1>1 DEF WordSeeded, Elements
<1> QED BY <1>1, <1>3, <1>4, <1>5 DEF SeedInv, Kernel, Elements

LEMMA LoaderSeedSeeds ==
    ASSUME NUM_CUS <= CU_ID_VALUES, IInv, SeedInv, LoaderSeed
    PROVE  SeedInv'
<1> DEFINE k == loader.seed_c
           n == loader.seed_slot
           j == loader.seed_i
           e == [slot_id |-> n, word |-> j, value |-> launches]
<1>1. /\ k \in CU /\ n \in Slot /\ j \in Word /\ k \in Nat /\ n \in Nat /\ j \in Nat
      /\ n < MAX_WARPS_PER_CU
  BY WarpSlotsAssumption, GpgpuTopAssumption
     DEF LoaderSeed, Seeding, IInv, TypeOK, LoaderType, CU, Slot, Word
<1>2. /\ UNCHANGED <<total_warps, launches, regs, cu_launch, loaded_sig>>
      /\ loader' = AdvanceSeed
  BY DEF LoaderSeed, hostVars, schedVars, computeVars
<1>3. \A c \in CU : TokenSent(c)' <=> TokenSent(c)
  BY <1>2 DEF TokenSent
<1>4. /\ loader'.seed_c = k
      /\ \/ loader'.seed_slot = n /\ loader'.seed_i = j + 1
         \/ loader'.seed_slot = n + 1 /\ loader'.seed_i = 0 /\ j + 1 = SEED_WORDS
  BY <1>1, <1>2, GpgpuTopAssumption DEF AdvanceSeed, IInv, TypeOK, LoaderType, Word
<1>5. launches # 0 /\ launches \in Launch
  <2>1. loader.loaded /\ LoaderIdle.loaded = FALSE
    BY DEF LoaderSeed, Seeding, LoaderIdle
  <2>2. loader # LoaderIdle
    BY <2>1
  <2> QED BY <2>2 DEF IInv, LoaderProgress, TypeOK, HostType
<1>6. e \in Seed /\ reg_seed[k] \in Seq(Seed)
  BY <1>1, <1>5 DEF Seed, IInv, TypeOK, StreamType
<1>7. <<k, n>> \in Kernel <=> SeedWarp < total_warps
  <2>1. CuId(k) = k
    BY <1>1, WarpSlotsAssumption DEF CuId, CU
  <2> QED BY <1>1, <2>1 DEF Kernel, WarpsOf, LocalWarp, SeedWarp
<1>8. \A c \in CU : /\ Elements(reg_seed[c]) \subseteq Elements(reg_seed'[c])
                    /\ Elements(reg_seed'[c]) \subseteq Elements(reg_seed[c]) \cup {e}
                    /\ c = k /\ <<k, n>> \in Kernel => e \in Elements(reg_seed'[c])
  <2>1. CASE SeedWarp < total_warps
    <3>1. reg_seed' = [reg_seed EXCEPT ![k] = Append(@, e)]
      BY <2>1 DEF LoaderSeed
    <3>2. reg_seed'[k] = Append(reg_seed[k], e)
          /\ \A c \in CU : c # k => reg_seed'[c] = reg_seed[c]
      BY <1>1, <3>1 DEF IInv, TypeOK, StreamType
    <3>3. Elements(reg_seed'[k]) = Elements(reg_seed[k]) \cup {e}
      BY <1>6, <3>2, AppendElements
    <3> QED BY <3>2, <3>3
  <2>2. CASE ~(SeedWarp < total_warps)
    <3>1. reg_seed' = reg_seed
      BY <2>2 DEF LoaderSeed
    <3> QED BY <1>7, <2>2, <3>1
  <2> QED BY <2>1, <2>2
<1>9. ASSUME NEW c \in CU, NEW s \in Slot, NEW i \in Word, WordPassed(c, s, i)'
      PROVE  WordPassed(c, s, i) \/ (c = k /\ s = n /\ i = j)
  <2>1. s \in Nat /\ i \in Nat /\ i < SEED_WORDS
    BY WarpSlotsAssumption, GpgpuTopAssumption DEF Slot, Word
  <2> QED BY <1>1, <1>3, <1>4, <1>9, <2>1 DEF WordPassed
<1>10. ASSUME NEW c \in CU, NEW s \in Slot, NEW i \in Word, <<c, s>> \in Kernel,
              WordPassed(c, s, i)'
       PROVE  WordSeeded(c, s, i)'
  <2>1. CASE WordPassed(c, s, i)
    <3>1. WordSeeded(c, s, i)
      BY <1>10, <2>1 DEF SeedInv
    <3> QED BY <1>2, <1>8, <3>1 DEF WordSeeded
  <2>2. CASE c = k /\ s = n /\ i = j
    BY <1>2, <1>8, <1>10, <2>2 DEF WordSeeded
  <2> QED BY <1>9, <1>10, <2>1, <2>2
<1>11. loader'.seed_slot = MAX_WARPS_PER_CU => loader'.seed_i = 0
  BY <1>1, <1>4
<1>12. \A c \in CU : loader'.seed_c > c => TokenSent(c)'
  BY <1>3, <1>4 DEF SeedInv
<1>13. \A c \in CU : \A f \in Elements(reg_seed'[c]) : launches' # 0 /\ f.value = launches'
  <2> SUFFICES ASSUME NEW c \in CU, NEW f \in Elements(reg_seed'[c])
               PROVE  launches' # 0 /\ f.value = launches'
    OBVIOUS
  <2>1. f \in Elements(reg_seed[c]) \/ f.value = launches
    BY <1>8
  <2> QED BY <1>2, <1>5, <2>1 DEF SeedInv
<1>14. Kernel' = Kernel
  BY <1>2 DEF Kernel
<1> QED BY <1>10, <1>11, <1>12, <1>13, <1>14 DEF SeedInv

\* The token follows the last seed of its CU.
LEMMA LoaderTokenSeeds ==
    ASSUME IInv, SeedInv, LoaderToken
    PROVE  SeedInv'
<1>0. PICK k \in CU : k = loader.seed_c
  BY WarpSlotsAssumption DEF LoaderToken, Seeding, IInv, TypeOK, LoaderType, CU
<1>1. /\ k \in Nat /\ CU \subseteq Nat
      /\ loader.seed_slot = MAX_WARPS_PER_CU /\ loader.seed_i = 0
  BY WarpSlotsAssumption DEF LoaderToken, CU, SeedInv
<1>2. /\ UNCHANGED <<total_warps, launches, regs, reg_seed, cu_launch>>
      /\ loaded_sig' = [loaded_sig EXCEPT ![k] = Append(@, TRUE)]
      /\ loader' = [loader EXCEPT !.seed_slot = 0, !.seed_c = @ + 1]
  BY <1>0 DEF LoaderToken, hostVars, schedVars, computeVars
<1>3. loader'.seed_c = k + 1 /\ loader'.seed_slot = 0 /\ loader'.seed_i = 0
  BY <1>0, <1>1, <1>2 DEF IInv, TypeOK, LoaderType
<1>4. /\ loaded_sig'[k] = Append(loaded_sig[k], TRUE) /\ loaded_sig[k] \in Seq(BOOLEAN)
      /\ \A c \in CU : c # k => loaded_sig'[c] = loaded_sig[c]
  BY <1>1, <1>2 DEF IInv, TypeOK, StreamType
<1>5. TokenSent(k)' /\ \A c \in CU : c # k => (TokenSent(c)' <=> TokenSent(c))
  <2>1. loaded_sig'[k] # <<>>
    BY <1>4, AppendNonEmpty
  <2> QED BY <1>2, <1>4, <2>1 DEF TokenSent
<1>6. ASSUME NEW c \in CU, NEW s \in Slot, NEW i \in Word, WordPassed(c, s, i)'
      PROVE  WordPassed(c, s, i)
  <2>1. s \in Nat /\ i \in Nat /\ s < MAX_WARPS_PER_CU
    BY WarpSlotsAssumption, GpgpuTopAssumption DEF Slot, Word
  <2>2. CASE c = k
    BY <1>0, <1>1, <2>1, <2>2 DEF WordPassed
  <2>3. CASE c # k
    BY <1>3, <1>5, <1>6, <2>1, <2>3 DEF WordPassed
  <2> QED BY <2>2, <2>3
<1>7. \A c \in CU, s \in Slot, i \in Word : WordSeeded(c, s, i) => WordSeeded(c, s, i)'
  BY <1>2 DEF WordSeeded, Elements
<1>8. \A c \in CU : loader'.seed_c > c => TokenSent(c)'
  BY <1>0, <1>1, <1>3, <1>5 DEF SeedInv
<1>9. loader'.seed_slot # MAX_WARPS_PER_CU
  BY <1>3, WarpSlotsAssumption
<1> QED BY <1>2, <1>6, <1>7, <1>8, <1>9 DEF SeedInv, Kernel, Elements

LEMMA LoaderFinishSeeds ==
    ASSUME IInv, SeedInv, LoaderFinish
    PROVE  SeedInv'
<1>1. /\ UNCHANGED <<total_warps, launches, regs, reg_seed, cu_launch, loaded_sig>>
      /\ loader.seed_c = NUM_CUS
      /\ loader'.seed_c = 0 /\ loader'.seed_slot = loader.seed_slot
      /\ loader'.seed_i = loader.seed_i
  BY DEF LoaderFinish, hostVars, schedVars, computeVars, streamVars, IInv, TypeOK, LoaderType
<1>2. \A c \in CU : TokenSent(c) /\ TokenSent(c)'
  <2>1. \A c \in CU : NUM_CUS > c
    BY WarpSlotsAssumption DEF CU
  <2> QED BY <1>1, <2>1 DEF SeedInv, TokenSent
<1>3. \A c \in CU, s \in Slot, i \in Word : WordPassed(c, s, i)
  BY <1>2 DEF WordPassed
<1>4. \A c \in CU, s \in Slot, i \in Word : WordSeeded(c, s, i) => WordSeeded(c, s, i)'
  BY <1>1 DEF WordSeeded, Elements
<1> QED BY <1>1, <1>2, <1>3, <1>4 DEF SeedInv, Kernel, Elements

\* A seed consumed by compute_pipeline is in the register file.
LEMMA ComputeSeedSeeds ==
    ASSUME IInv, SeedInv, NEW c \in CU, ComputeSeed(c)
    PROVE  SeedInv'
<1>1. /\ UNCHANGED <<total_warps, launches, loader, cu_launch, loaded_sig>>
      /\ reg_seed[c] # <<>>
      /\ regs' = [regs EXCEPT ![c][Head(reg_seed[c]).slot_id][Head(reg_seed[c]).word]
                                 = Head(reg_seed[c]).value]
      /\ reg_seed' = [reg_seed EXCEPT ![c] = Tail(@)]
  BY DEF ComputeSeed, hostVars, loaderVars, schedVars
<1>2. PICK h \in Seed : h = Head(reg_seed[c])
  BY <1>1, StreamOperators DEF IInv, TypeOK, StreamType
<1>3. PICK q \in Seq(Seed) : q = reg_seed[c]
  BY DEF IInv, TypeOK, StreamType
<1>4. Elements(q) = {h} \cup Elements(Tail(q))
  BY <1>1, <1>2, <1>3, TailElements
<1>5. h.value = launches /\ h.slot_id \in Slot /\ h.word \in Word
  BY <1>3, <1>4 DEF SeedInv, Seed
<1>6. reg_seed'[c] = Tail(q) /\ \A d \in CU : d # c => reg_seed'[d] = reg_seed[d]
  BY <1>1, <1>3 DEF IInv, TypeOK, StreamType
<1>7. \A d \in CU : Elements(reg_seed'[d]) \subseteq Elements(reg_seed[d])
  BY <1>3, <1>4, <1>6
<1>8. \A d \in CU, s \in Slot, i \in Word :
          regs'[d][s][i] = IF d = c /\ s = h.slot_id /\ i = h.word THEN launches ELSE regs[d][s][i]
  BY <1>1, <1>2, <1>5 DEF IInv, TypeOK, ComputeType
<1>9. ASSUME NEW d \in CU, NEW s \in Slot, NEW i \in Word, WordSeeded(d, s, i)
      PROVE  WordSeeded(d, s, i)'
  <2>1. CASE regs[d][s][i] = launches
    BY <1>1, <1>8, <2>1 DEF WordSeeded
  <2>2. CASE [slot_id |-> s, word |-> i, value |-> launches] \in Elements(reg_seed[d])
    <3>1. CASE d # c
      BY <1>1, <1>6, <2>2, <3>1 DEF WordSeeded
    <3>2. CASE d = c /\ [slot_id |-> s, word |-> i, value |-> launches] = h
      <4>1. s = h.slot_id /\ i = h.word
        BY <3>2
      <4> QED BY <1>1, <1>8, <3>2, <4>1 DEF WordSeeded
    <3>3. CASE d = c /\ [slot_id |-> s, word |-> i, value |-> launches] # h
      BY <1>1, <1>3, <1>4, <1>6, <2>2, <3>3 DEF WordSeeded
    <3> QED BY <3>1, <3>2, <3>3
  <2> QED BY <1>9, <2>1, <2>2 DEF WordSeeded
<1>10. \A d \in CU : TokenSent(d)' <=> TokenSent(d)
  BY <1>1 DEF TokenSent
<1>11. \A d \in CU, s \in Slot, i \in Word : WordPassed(d, s, i)' <=> WordPassed(d, s, i)
  BY <1>1, <1>10 DEF WordPassed
<1> QED BY <1>1, <1>7, <1>9, <1>10, <1>11 DEF SeedInv, Kernel

LEMMA NextSeeds ==
    ASSUME MAX_LAUNCHES = 1, NUM_CUS <= CU_ID_VALUES
    PROVE  IInv /\ SeedInv /\ [Next]_vars => SeedInv'
<1> SUFFICES ASSUME IInv, SeedInv, [Next]_vars PROVE SeedInv'
  OBVIOUS
<1>1. UNCHANGED <<cu_launch, loaded_sig>> => \A c \in CU : TokenSent(c)' <=> TokenSent(c)
  BY DEF TokenSent
<1>2. CASE UNCHANGED <<total_warps, launches, regs, reg_seed, loader, cu_launch, loaded_sig>>
  BY <1>1, <1>2, FrameSeeds
<1>3. ASSUME NEW p \in Programs, NEW t \in WarpCounts, HostStart(p, t) PROVE SeedInv'
  BY <1>3, HostStartSeeds
<1>4. CASE HostClear \/ UNCHANGED vars
  BY <1>2, <1>4 DEF HostClear, vars, loaderVars, schedVars, computeVars, streamVars
<1>5. CASE BarrierCore
  BY <1>2, <1>5 DEF BarrierCore, BarrierLaunch, BarrierPollEvent, BarrierPollEmpty,
     BarrierTestRelease, BarrierSignal, BarrierTestComplete, hostVars, loaderVars,
     schedVars, computeVars, streamVars
<1>6. CASE ProgramLoader
  <2>1. CASE LoaderWord \/ LoaderBlock
    <3>1. /\ UNCHANGED <<total_warps, launches, regs, reg_seed, cu_launch, loaded_sig>>
          /\ loader'.seed_c = loader.seed_c /\ loader'.seed_slot = loader.seed_slot
          /\ loader'.seed_i = loader.seed_i
      BY <2>1 DEF LoaderWord, LoaderBlock, hostVars, schedVars, computeVars, streamVars,
         IInv, TypeOK, LoaderType
    <3> QED BY <1>1, <3>1, FrameSeeds
  <2> QED BY <1>6, <2>1, LoaderResetSeeds, LoaderSeedSeeds, LoaderTokenSeeds,
             LoaderFinishSeeds DEF ProgramLoader
<1>7. ASSUME NEW c \in CU, SchedulerCore(c) PROVE SeedInv'
  <2>1. UNCHANGED <<total_warps, launches, regs, reg_seed, loader>>
    BY <1>7 DEF SchedulerCore, SchedSample, SchedNoToken, SchedLaunch, SchedDispatch,
       SchedNoDispatch, SchedStatus, SchedNoStatus, SchedSignal, SchedNoSignal, hostVars,
       loaderVars, computeVars, streamVars
  <2>2. CASE SchedLaunch(c)
    <3>1. launches = 1 /\ TokenSent(c)
      BY <2>2 DEF SchedLaunch, IInv, StartsSeen, StartSeen, TokenSent
    <3>2. cu_launch'[c] = 1 /\ \A d \in CU : d # c => /\ cu_launch'[d] = cu_launch[d]
                                                    /\ loaded_sig'[d] = loaded_sig[d]
      BY <2>2, <3>1 DEF SchedLaunch, IInv, TypeOK, SchedType, StreamType
    <3>3. \A d \in CU : TokenSent(d)' <=> TokenSent(d)
      BY <3>1, <3>2 DEF TokenSent
    <3> QED BY <2>1, <3>3, FrameSeeds
  <2>3. CASE ~SchedLaunch(c)
    BY <1>2, <1>7, <2>1, <2>3 DEF SchedulerCore, SchedSample, SchedNoToken, SchedDispatch,
       SchedNoDispatch, SchedStatus, SchedNoStatus, SchedSignal, SchedNoSignal, streamVars
  <2> QED BY <2>2, <2>3
<1>8. ASSUME NEW c \in CU, ComputePipeline(c) PROVE SeedInv'
  <2>1. CASE ComputeSeed(c)
    BY <2>1, ComputeSeedSeeds
  <2>2. CASE ~ComputeSeed(c)
    BY <1>2, <1>8, <2>2 DEF ComputePipeline, ComputeNoSeed, ComputeAccept,
       ComputeNoDispatch, ComputeExecute, hostVars, loaderVars, schedVars, streamVars
  <2> QED BY <2>1, <2>2
<1> QED BY <1>3, <1>4, <1>5, <1>6, <1>7, <1>8 DEF Next

(***************************************************************************)
(* When a CU has a warp to run, its program store holds the program and    *)
(* every register word of its warps is seeded or in its seed stream, for   *)
(* every size of program and register file and every depth of the streams, *)
(* even when the host clears start while programLoader is seeding.         *)
(***************************************************************************)
THEOREM SeedsProof ==
    ASSUME MAX_LAUNCHES = 1, NUM_CUS <= CU_ID_VALUES
    PROVE  Spec => []SeedsPrecedeDispatch
<1>1. IInv /\ SeedInv => SeedsPrecedeDispatch
  <2> SUFFICES ASSUME IInv, SeedInv, NEW c \in CU,
                      dispatch_out[c] # <<>> \/ c_pc[c] = "execute"
               PROVE  /\ \A i \in ProgramAddr :
                            i < Len(program) => program_store[i] = program[i + 1]
                      /\ \A s \in Slot, i \in Word :
                            <<c, s>> \in Kernel => WordSeeded(c, s, i)
    BY DEF SeedsPrecedeDispatch, WordSeeded
  <2>1. TokenSent(c)
    BY PipelinePlaces, BusyLaunched DEF IInv, PipelinesAgree, PipelineOf
  <2>2. \A i \in ProgramAddr : StoreHolds(i)
    BY <2>1 DEF IInv, LoaderProgress
  <2>3. \A s \in Slot, i \in Word : WordPassed(c, s, i)
    BY <2>1 DEF WordPassed
  <2> QED BY <2>2, <2>3 DEF StoreHolds, SeedInv
<1>2. Spec => []IInv
  BY Invariant
<1>3. Spec => []SeedInv
  BY <1>2, InitSeeds, NextSeeds, PTL DEF Spec
<1> QED BY <1>1, <1>2, <1>3, PTL
-----------------------------------------------------------------------------
(***************************************************************************)
(* The flat gpgpu_scheduler, started once, implements KernelBarrier: every *)
(* step of a process is a step of the abstract barrier or leaves it alone. *)
(* Only five steps are visible: the host's start, the two outcomes of a    *)
(* status that schedulerCore records, and barrierCore's decisions to       *)
(* release and to complete.                                                *)
(***************************************************************************)

\* What a step that leaves the abstract barrier alone does not change.
LEMMA AbstractStutter ==
    ASSUME total_warps' = total_warps, done' = done,
           Waiting' = Waiting, Finished' = Finished
    PROVE  UNCHANGED Abstract!vars
BY DEF Abstract!vars, Kernel, LaunchFault

\* No slot changes and no release is decided, written or consumed.
LEMMA SilentStep ==
    ASSUME total_warps' = total_warps, done' = done, \A c \in CU : SameSlots(c),
           barrier_signal' = barrier_signal,
           \/ UNCHANGED <<b_pc, b_c>>
           \/ b_pc # "release" /\ b_pc' # "release"
    PROVE  UNCHANGED Abstract!vars
<1>1. \A c \in CU : ReleasePending(c)' <=> ReleasePending(c)
  BY DEF ReleasePending, Elements
<1> QED BY <1>1, FrameSets, AbstractStutter

\* The kernel of the abstract barrier is the one the device has accepted.
LEMMA AcceptedKernel ==
    ASSUME ~LaunchFault(total_warps), total_warps' = total_warps
    PROVE  /\ (IF LaunchFault(total_warps) THEN {} ELSE Kernel) = Kernel
           /\ (IF LaunchFault(total_warps) THEN {} ELSE Kernel)' = Kernel
BY DEF LaunchFault, Kernel

LEMMA HostStartRefines ==
    ASSUME MAX_LAUNCHES = 1, IInv, NEW p \in Programs, NEW t \in WarpCounts, HostStart(p, t)
    PROVE  [Abstract!Next]_(Abstract!vars)
<1>1. launches = 0
  BY DEF IInv, TypeOK, HostType, Launch, HostStart
<1>2. total_warps = 0 /\ \A c \in CU : ~TokenSent(c)
  BY <1>1 DEF IInv, QuietBeforeLaunch
<1>3. Kernel = {}
  <2>1. \A w \in CU \X Slot : LocalWarp(w[1], w[2]) \in Nat
    BY LocalWarpType
  <2> QED BY <1>2, <2>1 DEF Kernel, WarpsOf
<1>4. \A c \in CU, s \in Slot : slots[c][s].state = "EMPTY"
  BY <1>2 DEF IInv, ShareOfKernel, ShareOf, TokenSent
<1>5. /\ total_warps' = t
      /\ UNCHANGED <<slots, done>>
  BY DEF HostStart, schedVars, barrierVars
<1>6. Waiting = {} /\ Finished = {} /\ Waiting' = {} /\ Finished' = {}
  BY <1>4, <1>5 DEF Waiting, Finished, SlotAt
<1>7. (IF LaunchFault(total_warps) THEN {} ELSE Kernel) = {}
  BY <1>3
<1>8. (IF LaunchFault(total_warps) THEN {} ELSE Kernel)'
         = IF LaunchFault(t) THEN {} ELSE WarpsOf(t)
  BY <1>5 DEF LaunchFault, Kernel
<1>9. CASE LaunchFault(t) \/ WarpsOf(t) = {}
  BY <1>5, <1>6, <1>7, <1>8, <1>9 DEF Abstract!vars
<1>10. CASE ~LaunchFault(t) /\ WarpsOf(t) # {}
  <2>1. Abstract!LaunchKernel(WarpsOf(t))
    BY <1>5, <1>6, <1>7, <1>8, <1>10 DEF Abstract!LaunchKernel
  <2>2. WarpsOf(t) \in SUBSET (CU \X Slot)
    BY DEF WarpsOf
  <2> QED BY <2>1, <2>2 DEF Abstract!Next
<1> QED BY <1>9, <1>10

LEMMA TestReleaseRefines ==
    ASSUME NUM_CUS <= CU_ID_VALUES, IInv, TypeOK', StartsSeen', BarrierTestRelease
    PROVE  [Abstract!Next]_(Abstract!vars)
<1>1. UNCHANGED <<total_warps, done>> /\ b_pc = "ready"
  BY DEF BarrierTestRelease, hostVars
<1>2. CASE ~ReleaseReady
  BY <1>1, <1>2, BarrierTestReleaseIInv, AbstractStutter
<1>3. CASE ReleaseReady
  <2>1. Kernel # {} /\ Waiting = Kernel /\ Waiting' = {} /\ Finished' = Finished
    BY <1>3, BarrierTestReleaseIInv
  <2>2. ~LaunchFault(total_warps)
    BY <1>1 DEF IInv, BarrierPhase
  <2>3. Abstract!Release
    BY <1>1, <2>1, <2>2, AcceptedKernel DEF Abstract!Release
  <2> QED BY <2>3 DEF Abstract!Next
<1> QED BY <1>2, <1>3

LEMMA TestCompleteRefines ==
    ASSUME NUM_CUS <= CU_ID_VALUES, IInv, TypeOK', StartsSeen', BarrierTestComplete
    PROVE  [Abstract!Next]_(Abstract!vars)
<1>1. total_warps' = total_warps /\ b_pc = "complete"
  BY DEF BarrierTestComplete, hostVars
<1>2. IInv' /\ Waiting' = Waiting /\ Finished' = Finished
  BY BarrierTestCompleteIInv
<1>3. CASE ~KernelComplete
  <2>1. done' = done
    BY <1>3 DEF BarrierTestComplete
  <2> QED BY <1>1, <1>2, <2>1, AbstractStutter
<1>4. CASE KernelComplete
  <2>1. done' = TRUE
    BY <1>4 DEF BarrierTestComplete
  <2>2. ~LaunchFault(total_warps) /\ barrier.total_warps = total_warps
    BY <1>1 DEF IInv, BarrierPhase
  <2>3. Finished = Kernel
    <3>1. Finished' = Kernel'
      BY <1>2, <2>1 DEF IInv, BarrierPhase
    <3> QED BY <1>1, <1>2, <3>1 DEF Kernel
  <2>4. Kernel # {}
    <3>1. Cardinality(finished) # 0
      BY <1>4, <2>2 DEF KernelComplete, IInv, CountersAgree
    <3>2. finished \subseteq Kernel
      BY <2>3 DEF IInv, CountersAgree
    <3> QED BY <3>1, <3>2, FS_EmptySet
  <2>5. Abstract!Complete
    BY <1>1, <1>2, <2>1, <2>2, <2>3, <2>4, AcceptedKernel DEF Abstract!Complete
  <2> QED BY <2>5 DEF Abstract!Next
<1> QED BY <1>3, <1>4

LEMMA SchedStatusRefines ==
    ASSUME IInv, TypeOK', StartsSeen', NEW c \in CU, SchedStatus(c)
    PROVE  [Abstract!Next]_(Abstract!vars)
<1>1. UNCHANGED <<total_warps, done>> /\ busy_cu_scheduler[c]
  BY DEF SchedStatus, hostVars, barrierVars
<1>2. PICK s \in Slot :
          /\ <<c, s>> \in Kernel \ (Waiting \cup Finished)
          /\ \/ Waiting' = Waiting \cup {<<c, s>>} /\ Finished' = Finished
             \/ Finished' = Finished \cup {<<c, s>>} /\ Waiting' = Waiting
  BY SchedStatusIInv
<1>3. ~LaunchFault(total_warps)
  BY <1>1, BusyLaunched DEF IInv, ShareOfKernel, ShareOf
<1>4. <<c, s>> \in Abstract!Running
  BY <1>1, <1>2, <1>3, AcceptedKernel DEF Abstract!Running
<1>5. Abstract!Arrive(<<c, s>>) \/ Abstract!Finish(<<c, s>>)
  BY <1>1, <1>2, <1>3, <1>4, AcceptedKernel DEF Abstract!Arrive, Abstract!Finish
<1>6. <<c, s>> \in CU \X Slot
  OBVIOUS
<1> QED BY <1>5, <1>6 DEF Abstract!Next
-----------------------------------------------------------------------------
(***************************************************************************)
(* Every step of the device simulates a step of the abstract barrier.      *)
(***************************************************************************)
LEMMA StepRefines ==
    ASSUME MAX_LAUNCHES = 1, NUM_CUS <= CU_ID_VALUES, IInv, [Next]_vars
    PROVE  [Abstract!Next]_(Abstract!vars)
<1>1. TypeOK' /\ StartsSeen'
  BY TypeOKStep, StartsSeenStep DEF IInv
<1>2. UNCHANGED slots => \A c \in CU : SameSlots(c)
  BY SlotsUnchanged
<1>3. CASE UNCHANGED vars
  BY <1>2, <1>3, SilentStep DEF vars
<1>4. ASSUME NEW p \in Programs, NEW t \in WarpCounts, HostStart(p, t)
      PROVE  [Abstract!Next]_(Abstract!vars)
  BY <1>4, HostStartRefines
<1>5. CASE HostClear
  BY <1>2, <1>5, SilentStep DEF HostClear, schedVars, barrierVars, streamVars
<1>6. CASE BarrierCore
  <2>1. CASE BarrierLaunch
    BY <1>2, <2>1, SilentStep DEF BarrierLaunch, hostVars, schedVars, streamVars
  <2>2. CASE BarrierPollEvent \/ BarrierPollEmpty
    <3>1. b_pc # "release" /\ b_pc' # "release"
      BY <2>2 DEF BarrierPollEvent, BarrierPollEmpty, NextCU
    <3> QED BY <1>2, <2>2, <3>1, SilentStep
               DEF BarrierPollEvent, BarrierPollEmpty, hostVars, schedVars, streamVars
  <2>3. CASE BarrierTestRelease
    BY <1>1, <2>3, TestReleaseRefines
  <2>4. CASE BarrierTestComplete
    BY <1>1, <2>4, TestCompleteRefines
  <2>5. CASE BarrierSignal("release", "complete") \/ BarrierSignal("kernel_done", "poll")
    <3>1. UNCHANGED <<total_warps, done>>
      BY <2>5 DEF BarrierSignal, hostVars
    <3>2. Waiting' = Waiting /\ Finished' = Finished
      BY <1>1, <2>5, BarrierSignalIInv
    <3> QED BY <3>1, <3>2, AbstractStutter
  <2> QED BY <1>6, <2>1, <2>2, <2>3, <2>4, <2>5 DEF BarrierCore
<1>7. CASE ProgramLoader
  <2>1. UNCHANGED <<hostVars, barrierVars, schedVars, barrier_signal>>
    BY <1>7 DEF ProgramLoader, LoaderReset, LoaderWord, LoaderBlock, LoaderSeed,
       LoaderToken, LoaderFinish, streamVars
  <2> QED BY <1>2, <2>1, SilentStep DEF hostVars, barrierVars, schedVars
<1>8. ASSUME NEW c \in CU, SchedulerCore(c) PROVE [Abstract!Next]_(Abstract!vars)
  <2>0. UNCHANGED <<hostVars, barrierVars>>
    BY <1>8 DEF SchedulerCore, SchedSample, SchedNoToken, SchedLaunch, SchedDispatch,
       SchedNoDispatch, SchedStatus, SchedNoStatus, SchedSignal, SchedNoSignal
  <2>00. UNCHANGED <<total_warps, done, b_pc, b_c>>
    BY <2>0 DEF hostVars, barrierVars
  <2>1. CASE \/ SchedSample(c) \/ SchedNoToken(c)
             \/ SchedNoDispatch(c) \/ SchedNoStatus(c) \/ SchedNoSignal(c)
    <3>1. UNCHANGED <<slots, barrier_signal>>
      BY <2>1 DEF SchedSample, SchedNoToken, SchedNoDispatch, SchedNoStatus,
         SchedNoSignal, streamVars
    <3> QED BY <1>2, <2>00, <3>1, SilentStep
  <2>2. CASE SchedLaunch(c)
    BY <1>1, <2>00, <2>2, SchedLaunchIInv, AbstractStutter
  <2>3. ASSUME NEW s \in Slot, SchedDispatch(c, s) PROVE UNCHANGED Abstract!vars
    <3>1. \A d \in CU : SameSlots(d)
      BY <2>3 DEF SchedDispatch, SameSlots, ClearFresh, IInv, TypeOK, SchedType, WarpSlot
    <3>2. barrier_signal' = barrier_signal
      BY <2>3 DEF SchedDispatch
    <3> QED BY <2>00, <3>1, <3>2, SilentStep
  <2>4. CASE SchedStatus(c)
    BY <1>1, <2>4, SchedStatusRefines
  <2>5. CASE SchedSignal(c)
    BY <1>1, <2>00, <2>5, SchedSignalIInv, AbstractStutter
  <2> QED BY <1>8, <2>1, <2>2, <2>3, <2>4, <2>5 DEF SchedulerCore
<1>9. ASSUME NEW c \in CU, ComputePipeline(c) PROVE UNCHANGED Abstract!vars
  <2>1. UNCHANGED <<hostVars, barrierVars, schedVars, barrier_signal>>
    BY <1>9 DEF ComputePipeline, ComputeSeed, ComputeNoSeed, ComputeAccept,
       ComputeNoDispatch, ComputeExecute, streamVars
  <2> QED BY <1>2, <2>1, SilentStep DEF hostVars, barrierVars, schedVars
<1> QED BY <1>3, <1>4, <1>5, <1>6, <1>7, <1>8, <1>9 DEF Next

LEMMA InitRefines == Init => Abstract!Init
<1> SUFFICES ASSUME Init PROVE Abstract!Init
  OBVIOUS
<1>1. Kernel = {}
  <2>1. \A w \in CU \X Slot : LocalWarp(w[1], w[2]) \in Nat
    BY LocalWarpType
  <2> QED BY <2>1 DEF Init, Kernel, WarpsOf
<1>2. \A c \in CU, s \in Slot : slots[c][s].state = "EMPTY"
  BY DEF Init, NewSlot
<1>3. Waiting = {} /\ Finished = {} /\ done = FALSE
  BY <1>2 DEF Init, Waiting, Finished, SlotAt
<1> QED BY <1>1, <1>3 DEF Abstract!Init

(***************************************************************************)
(* For every number of CUs, slots, warps, barriers and stream depths, and  *)
(* whenever the host clears start, a device whose compute units fit in a   *)
(* cu_id_t and that is started once implements the one-kernel barrier of   *)
(* KernelBarrier: barrierCore's release, although it reaches the CUs one   *)
(* by one and at any delay, is one opening of one barrier that all warps   *)
(* of the kernel wait at.                                                  *)
(***************************************************************************)
THEOREM RefinementProof ==
    ASSUME MAX_LAUNCHES = 1, NUM_CUS <= CU_ID_VALUES
    PROVE  Spec => ImplementsKernelBarrier
<1>1. Init => Abstract!Init
  BY InitRefines
<1>2. IInv /\ [Next]_vars => [Abstract!Next]_(Abstract!vars)
  BY StepRefines
<1>3. Spec => []IInv
  BY Invariant
<1> QED BY <1>1, <1>2, <1>3, PTL DEF Spec, ImplementsKernelBarrier, Abstract!Spec
=============================================================================
