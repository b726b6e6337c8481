------------------------------ MODULE WarpSlots ------------------------------
(***************************************************************************)
(* The resident-slot bookkeeping of one compute unit                       *)
(* (hls/src/scheduler/cu_dispatch_unit.h): which warp of a kernel lives in *)
(* which slot of which compute unit, and how a slot changes state.  Every  *)
(* operator is a pure function of one WarpSlot or of a CU's slot array.    *)
(*                                                                         *)
(* Left out of WarpSlot: barrier_id, which is stored and never read, and   *)
(* warp_id_offset, which is added to every warp_id of a device alike.      *)
(***************************************************************************)
EXTENDS Integers

CONSTANTS
    NUM_CUS,            \* compute units of the device
    MAX_WARPS_PER_CU,   \* resident slots of one compute unit
    CU_ID_VALUES        \* values a cu_id_t holds: 2^3 (hls_types.h)

ASSUME WarpSlotsAssumption ==
    /\ NUM_CUS \in Nat \ {0}
    /\ MAX_WARPS_PER_CU \in Nat \ {0}
    /\ CU_ID_VALUES \in Nat \ {0}

CU == 0 .. NUM_CUS - 1
Slot == 0 .. MAX_WARPS_PER_CU - 1
Capacity == NUM_CUS * MAX_WARPS_PER_CU

\* The cu_id a scheduler instance is given: cu_id_t(c), an ap_uint<3>.
CuId(c) == c % CU_ID_VALUES

\* local_w of assignSlot(): the warp that slot s of compute unit c holds.
LocalWarp(c, s) == CuId(c) + s * NUM_CUS

SlotStates == {"EMPTY", "READY", "STALLED", "DONE"}

WarpSlot == [state: SlotStates, warp_id: Nat, resume_pc: Nat, fresh: BOOLEAN]

\* A default-constructed WarpSlot.
NewSlot == [state |-> "EMPTY", warp_id |-> 0, resume_pc |-> 0, fresh |-> FALSE]

(***************************************************************************)
(* assignSlot(): a slot whose local warp exists starts READY at pc 0; any  *)
(* other slot only has its state reset.                                    *)
(***************************************************************************)
AssignSlot(slot, s, c, total_warps) ==
    IF LocalWarp(c, s) < total_warps
      THEN [state |-> "READY", warp_id |-> LocalWarp(c, s),
            resume_pc |-> 0, fresh |-> TRUE]
      ELSE [slot EXCEPT !.state = "EMPTY"]

LaunchSlots(slots, c, total_warps) ==
    [s \in Slot |-> AssignSlot(slots[s], s, c, total_warps)]

\* nextReadySlot() returns s: the first READY slot in ascending order.
IsNextReadySlot(slots, s) ==
    /\ slots[s].state = "READY"
    /\ \A r \in Slot : r < s => slots[r].state # "READY"

\* nextReadySlot() returns INVALID_SLOT.
NoReadySlot(slots) == \A s \in Slot : slots[s].state # "READY"

\* The warp_dispatch_t of buildDispatch(), which also clears `fresh`.
BuildDispatch(slots, s) ==
    [slot_id |-> s, warp_id |-> slots[s].warp_id,
     resume_pc |-> slots[s].resume_pc, fresh_launch |-> slots[s].fresh]

ClearFresh(slots, s) == [slots EXCEPT ![s].fresh = FALSE]

\* Fault: a warp stalled at a barrier stays READY.
RecordResultWithoutStall(slots, st) ==
    IF st.code = "COMPLETE"
      THEN [slots EXCEPT ![st.slot_id].state = "DONE"]
      ELSE [slots EXCEPT ![st.slot_id].resume_pc = st.resume_pc]

RecordResult(slots, st) ==
    IF st.code = "COMPLETE"
      THEN [slots EXCEPT ![st.slot_id].state = "DONE"]
      ELSE [slots EXCEPT ![st.slot_id].state = "STALLED",
                         ![st.slot_id].resume_pc = st.resume_pc]

ReleaseBarrierSlots(slots) ==
    [s \in Slot |->
        IF slots[s].state = "STALLED" THEN [slots[s] EXCEPT !.state = "READY"]
                                      ELSE slots[s]]

AllSlotsDone(slots) ==
    \A s \in Slot : slots[s].state \notin {"READY", "STALLED"}
=============================================================================
