------------------------------ MODULE Divergence ------------------------------
(***************************************************************************)
(* The active-lane mask of one warp, kept twice: by the device's           *)
(* DivergenceStack (hls/src/simt_controller/divergence_stack.h, a bounded  *)
(* array) and by the golden model's SIMTController                         *)
(* (models/systemc/src/simt_controller, an unbounded std::stack that       *)
(* lives as long as the warp id).  Both execute the same VBRANCH, VJOIN    *)
(* and dispatches; a dispatch, fresh or after a barrier, calls             *)
(* initializeWarp() on both.                                               *)
(*                                                                         *)
(* A mask is the set of lanes whose bit is set; a branch is the set of     *)
(* lanes whose condition (rs1 == 0) holds.  The statistics                 *)
(* (divergence_events_, wasted_cycles_) and pc_stack, which decide         *)
(* nothing, are left out.  A golden stack is written top first.            *)
(***************************************************************************)
EXTENDS Naturals, Sequences

CONSTANTS
    Lane,                   \* the lanes of a warp
    MAX_DIVERGENCE_DEPTH,   \* entries of the device's stack
    MAX_NESTING             \* bound on open branches and on the golden stack

ASSUME DivergenceAssumption ==
    /\ MAX_DIVERGENCE_DEPTH \in Nat \ {0}
    /\ MAX_NESTING \in Nat

VARIABLES
    active_mask, not_taken_stack, sp, overflow,     \* DivergenceStack
    golden_mask, golden_stack,                      \* SIMTController, one warp
    open    \* history: what each VBRANCH not yet joined has masked, last first

hlsVars == <<active_mask, not_taken_stack, sp, overflow>>
goldenVars == <<golden_mask, golden_stack>>
vars == <<active_mask, not_taken_stack, sp, overflow, golden_mask, golden_stack, open>>

Entry == 0 .. MAX_DIVERGENCE_DEPTH - 1

Init ==
    /\ active_mask = Lane /\ sp = 0 /\ overflow = FALSE
    /\ not_taken_stack = [i \in Entry |-> {}]
    /\ golden_mask = Lane /\ golden_stack = <<>>
    /\ open = <<>>
-----------------------------------------------------------------------------
(***************************************************************************)
(* DivergenceStack                                                         *)
(***************************************************************************)
\* Fault: the stack of the last dispatch is kept.
InitializeWarpKeepsStack ==
    /\ active_mask' = Lane /\ overflow' = FALSE
    /\ UNCHANGED <<sp, not_taken_stack>>

InitializeWarp ==
    /\ active_mask' = Lane /\ sp' = 0 /\ overflow' = FALSE
    /\ UNCHANGED not_taken_stack

PushDivergence(not_taken) ==
    IF sp >= MAX_DIVERGENCE_DEPTH
      THEN overflow' = TRUE /\ UNCHANGED <<sp, not_taken_stack>>
      ELSE /\ not_taken_stack' = [not_taken_stack EXCEPT ![sp] = not_taken]
           /\ sp' = sp + 1
           /\ UNCHANGED overflow

\* Fault: when no lane falls through, all of them stay active.
HandleBranchFallback(cond) ==
    LET taken == active_mask \cap cond
        not_taken == active_mask \ cond
    IN  /\ active_mask' = IF taken # {} THEN taken ELSE not_taken
        /\ IF taken # {} /\ not_taken # {}
             THEN PushDivergence(not_taken)
             ELSE UNCHANGED <<sp, not_taken_stack, overflow>>

(***************************************************************************)
(* handleBranch(): real divergence (case 1) and all lanes masked (case 2)  *)
(* push; all lanes falling through, or none active (case 3), does not.  In *)
(* each case the new mask is the set of lanes taken.                       *)
(***************************************************************************)
HandleBranch(cond) ==
    LET not_taken == active_mask \ cond
    IN  /\ active_mask' = active_mask \cap cond
        /\ IF not_taken # {} THEN PushDivergence(not_taken)
                             ELSE UNCHANGED <<sp, not_taken_stack, overflow>>

\* Fault: the joined lanes replace the mask instead of extending it.
HandleJoinReplacesMask ==
    IF sp = 0 THEN UNCHANGED hlsVars
      ELSE /\ sp' = sp - 1
           /\ active_mask' = not_taken_stack[sp - 1]
           /\ UNCHANGED <<not_taken_stack, overflow>>

HandleJoin ==
    IF sp = 0 THEN UNCHANGED hlsVars
      ELSE /\ sp' = sp - 1
           /\ active_mask' = active_mask \cup not_taken_stack[sp - 1]
           /\ UNCHANGED <<not_taken_stack, overflow>>
-----------------------------------------------------------------------------
(***************************************************************************)
(* SIMTController.  initializeWarp() sets the mask and leaves the stack.   *)
(***************************************************************************)
GoldenInitializeWarp == golden_mask' = Lane /\ UNCHANGED golden_stack

GoldenHandleBranch(cond) ==
    LET not_taken == golden_mask \ cond
    IN  /\ golden_mask' = golden_mask \cap cond
        /\ golden_stack' = IF not_taken # {} THEN <<not_taken>> \o golden_stack
                                             ELSE golden_stack

GoldenHandleJoin ==
    IF golden_stack = <<>> THEN UNCHANGED goldenVars
      ELSE /\ golden_mask' = golden_mask \cup Head(golden_stack)
           /\ golden_stack' = Tail(golden_stack)
-----------------------------------------------------------------------------
\* A dispatch of the warp: a fresh one or the resume after a barrier.
Dispatch ==
    /\ InitializeWarp
    /\ GoldenInitializeWarp
    /\ open' = <<>>

\* VBRANCH: executeBranch() with the lanes whose rs1 is 0.
VBranch(cond) ==
    /\ Len(open) < MAX_NESTING /\ Len(golden_stack) < MAX_NESTING
    /\ HandleBranch(cond)
    /\ GoldenHandleBranch(cond)
    /\ open' = <<active_mask \ cond>> \o open

\* VJOIN, also a stray one.
VJoin ==
    /\ HandleJoin
    /\ GoldenHandleJoin
    /\ open' = IF open = <<>> THEN open ELSE Tail(open)

Next ==
    \/ Dispatch
    \/ \E cond \in SUBSET Lane : VBranch(cond)
    \/ VJoin

Spec == Init /\ [][Next]_vars
-----------------------------------------------------------------------------
Pushed == 0 .. sp - 1

TypeOK ==
    /\ active_mask \in SUBSET Lane /\ golden_mask \in SUBSET Lane
    /\ not_taken_stack \in [Entry -> SUBSET Lane]
    /\ sp \in 0 .. MAX_DIVERGENCE_DEPTH
    /\ overflow \in BOOLEAN
    /\ golden_stack \in Seq(SUBSET Lane) /\ open \in Seq(SUBSET Lane)

\* Every lane is active or waits on the stack.
LanesKept == active_mask \cup UNION {not_taken_stack[i] : i \in Pushed} = Lane

(***************************************************************************)
(* As long as the stack has not overflowed, every lane is in exactly one   *)
(* place: active, or masked by exactly one stack entry, whatever sequence  *)
(* of branches, joins (balanced or not) and resumes came before.           *)
(***************************************************************************)
LaneInOnePlace ==
    /\ ~overflow => LanesKept
    /\ \A i \in Pushed : not_taken_stack[i] \cap active_mask = {}
    /\ \A i, j \in Pushed : i # j => not_taken_stack[i] \cap not_taken_stack[j] = {}

(***************************************************************************)
(* The device runs the lanes the golden model runs, although the golden    *)
(* model keeps the stack entries of a dispatch that stopped inside a       *)
(* branch: when a join pops such an entry, all lanes are active already.   *)
(***************************************************************************)
MaskParity == ~overflow => active_mask = golden_mask

(***************************************************************************)
(* When every VBRANCH has met its VJOIN, all lanes are active again, also  *)
(* if some of those branches masked no lane and pushed nothing.            *)
(***************************************************************************)
FullyReconverged == ~overflow /\ open = <<>> => active_mask = Lane
-----------------------------------------------------------------------------
(***************************************************************************)
(* kernel_programs.h:15 "rs1[t]!=0 -> thread is masked until VJOIN": a     *)
(* lane a VBRANCH has masked stays masked until the VJOIN of that VBRANCH. *)
(***************************************************************************)
MaskedUntilJoin == \A i \in DOMAIN open : active_mask \cap open[i] = {}
=============================================================================
