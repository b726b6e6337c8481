--------------------------- MODULE DivergenceProofs ---------------------------
(***************************************************************************)
(* The lane bookkeeping of Divergence, for any number of lanes and any     *)
(* depth of the stack.                                                     *)
(***************************************************************************)
EXTENDS Divergence, TLAPS

(***************************************************************************)
(* The top of the golden stack is the device's stack; what lies below it   *)
(* is left from earlier dispatches.                                        *)
(***************************************************************************)
StackParity ==
    ~overflow =>
        /\ sp <= Len(golden_stack)
        /\ \A i \in Pushed : golden_stack[sp - i] = not_taken_stack[i]

\* A branch that pushes is open; one that is open need not have pushed.
NoMorePushedThanOpen == sp <= Len(open)

(***************************************************************************)
(* MaskParity is not inductive: a join keeps it only if both stacks have   *)
(* the same top, or the device's is empty and all its lanes are active.    *)
(***************************************************************************)
DivergenceInv ==
    /\ TypeOK
    /\ LaneInOnePlace
    /\ MaskParity
    /\ StackParity
    /\ NoMorePushedThanOpen

-----------------------------------------------------------------------------
\* What pushing in front of a sequence gives.
LEMMA PushFront ==
    ASSUME NEW S, NEW x \in S, NEW q \in Seq(S)
    PROVE  /\ <<x>> \o q \in Seq(S)
           /\ Len(<<x>> \o q) = Len(q) + 1
           /\ (<<x>> \o q)[1] = x
           /\ \A i \in 2 .. Len(q) + 1 : (<<x>> \o q)[i] = q[i - 1]
  OBVIOUS

\* What Tail gives.
LEMMA PopFront ==
    ASSUME NEW S, NEW q \in Seq(S), q # <<>>
    PROVE  /\ Tail(q) \in Seq(S) /\ Head(q) \in S /\ Head(q) = q[1]
           /\ Len(q) # 0 /\ Len(Tail(q)) = Len(q) - 1
           /\ \A i \in 1 .. Len(q) - 1 : Tail(q)[i] = q[i + 1]
  OBVIOUS

\* An empty device stack leaves all lanes active, unless lanes were dropped.
LEMMA EmptyStackAllActive ==
    ASSUME TypeOK, LaneInOnePlace, ~overflow, sp = 0
    PROVE  active_mask = Lane
<1>1. Pushed = {}
  BY DEF Pushed
<1> QED BY <1>1 DEF LaneInOnePlace, LanesKept

-----------------------------------------------------------------------------
LEMMA InitInv == Init => DivergenceInv
<1> SUFFICES ASSUME Init PROVE DivergenceInv
  OBVIOUS
<1>1. TypeOK
  <2>1. <<>> \in Seq(SUBSET Lane) /\ Lane \in SUBSET Lane
    OBVIOUS
  <2>2. [i \in Entry |-> {}] \in [Entry -> SUBSET Lane]
    OBVIOUS
  <2>3. 0 \in 0 .. MAX_DIVERGENCE_DEPTH
    BY DivergenceAssumption
  <2> QED BY <2>1, <2>2, <2>3 DEF Init, TypeOK
<1>2. Pushed = {}
  BY DEF Init, Pushed
<1> QED BY <1>1, <1>2 DEF Init, DivergenceInv, LaneInOnePlace, LanesKept, MaskParity,
           StackParity, NoMorePushedThanOpen

LEMMA DispatchInv ==
    ASSUME DivergenceInv, Dispatch
    PROVE  DivergenceInv'
<1>1. /\ active_mask' = Lane /\ golden_mask' = Lane /\ sp' = 0 /\ overflow' = FALSE
      /\ not_taken_stack' = not_taken_stack /\ golden_stack' = golden_stack /\ open' = <<>>
  BY DEF Dispatch, InitializeWarp, GoldenInitializeWarp
<1>2. TypeOK'
  <2>1. <<>> \in Seq(SUBSET Lane) /\ Lane \in SUBSET Lane
    OBVIOUS
  <2>2. 0 \in 0 .. MAX_DIVERGENCE_DEPTH
    BY DivergenceAssumption
  <2> QED BY <1>1, <2>1, <2>2 DEF DivergenceInv, TypeOK
<1>3. Pushed' = {}
  BY <1>1 DEF Pushed
<1>4. LaneInOnePlace' /\ MaskParity'
  BY <1>1, <1>3 DEF LaneInOnePlace, LanesKept, MaskParity
<1>5. StackParity' /\ NoMorePushedThanOpen'
  BY <1>1, <1>3 DEF DivergenceInv, TypeOK, StackParity, NoMorePushedThanOpen
<1> QED BY <1>2, <1>4, <1>5 DEF DivergenceInv

-----------------------------------------------------------------------------
\* A branch that masks a lane and finds room on the stack.
LEMMA BranchPushes ==
    ASSUME DivergenceInv, NEW cond \in SUBSET Lane, VBranch(cond),
           active_mask \ cond # {}, sp < MAX_DIVERGENCE_DEPTH
    PROVE  DivergenceInv'
<1> DEFINE not_taken == active_mask \ cond
<1>1. /\ active_mask' = active_mask \cap cond /\ overflow' = overflow
      /\ not_taken_stack' = [not_taken_stack EXCEPT ![sp] = not_taken] /\ sp' = sp + 1
      /\ open' = <<not_taken>> \o open
  BY DivergenceAssumption DEF VBranch, HandleBranch, PushDivergence, DivergenceInv, TypeOK
<1>2. /\ sp \in Entry /\ sp \in Nat /\ not_taken \in SUBSET Lane
      /\ not_taken_stack \in [Entry -> SUBSET Lane]
  BY DivergenceAssumption DEF DivergenceInv, TypeOK, Entry
<1>3. /\ not_taken_stack'[sp] = not_taken
      /\ \A i \in Pushed : i \in Entry /\ i # sp /\ not_taken_stack'[i] = not_taken_stack[i]
      /\ Pushed' = Pushed \cup {sp}
  BY <1>1, <1>2, DivergenceAssumption DEF Pushed, Entry
<1>4. /\ golden_mask' \in SUBSET Lane /\ golden_stack' \in Seq(SUBSET Lane)
  BY PushFront DEF VBranch, GoldenHandleBranch, DivergenceInv, TypeOK
<1>5. open' \in Seq(SUBSET Lane) /\ Len(open') = Len(open) + 1
  BY <1>1, <1>2, PushFront DEF DivergenceInv, TypeOK
<1>6. TypeOK'
  BY <1>1, <1>2, <1>4, <1>5, DivergenceAssumption DEF DivergenceInv, TypeOK
<1>7. LaneInOnePlace'
  <2>1. \A i \in Pushed : /\ not_taken_stack[i] \cap active_mask = {}
                          /\ not_taken_stack[i] \in SUBSET Lane
    BY <1>2, <1>3 DEF DivergenceInv, LaneInOnePlace
  <2>2. \A i \in Pushed' : not_taken_stack'[i] \cap active_mask' = {}
    BY <1>1, <1>3, <2>1
  <2>3. \A i, j \in Pushed' : i # j => not_taken_stack'[i] \cap not_taken_stack'[j] = {}
    BY <1>3, <2>1 DEF DivergenceInv, LaneInOnePlace
  <2>4. ASSUME ~overflow' PROVE LanesKept'
    <3>1. LanesKept
      BY <1>1, <2>4 DEF DivergenceInv, LaneInOnePlace
    <3>2. \A l \in Lane : l \in active_mask \/ \E i \in Pushed : l \in not_taken_stack[i]
      BY <3>1 DEF LanesKept
    <3>3. \A l \in Lane : l \in active_mask' \/ \E i \in Pushed' : l \in not_taken_stack'[i]
      BY <1>1, <1>3, <3>2
    <3>4. \A i \in Pushed' : not_taken_stack'[i] \subseteq Lane
      BY <1>2, <1>3, <2>1
    <3>5. active_mask' \subseteq Lane
      BY <1>1 DEF DivergenceInv, TypeOK
    <3> QED BY <3>3, <3>4, <3>5 DEF LanesKept
  <2> QED BY <2>2, <2>3, <2>4 DEF LaneInOnePlace
<1>8. ASSUME ~overflow' PROVE MaskParity' /\ StackParity'
  <2>1. golden_mask = active_mask
    BY <1>1, <1>8 DEF DivergenceInv, MaskParity
  <2>2. golden_mask' = active_mask' /\ golden_stack' = <<not_taken>> \o golden_stack
    BY <1>1, <2>1 DEF VBranch, GoldenHandleBranch
  <2>3. sp <= Len(golden_stack) /\ \A i \in Pushed : golden_stack[sp - i] = not_taken_stack[i]
    BY <1>1, <1>8 DEF DivergenceInv, StackParity
  <2>4. golden_stack \in Seq(SUBSET Lane)
    BY DEF DivergenceInv, TypeOK
  <2>5. /\ Len(golden_stack') = Len(golden_stack) + 1 /\ Len(golden_stack) \in Nat
        /\ golden_stack'[1] = not_taken
        /\ \A i \in 2 .. Len(golden_stack) + 1 : golden_stack'[i] = golden_stack[i - 1]
    BY <1>2, <2>2, <2>4, PushFront
  <2>6. ASSUME NEW i \in Pushed' PROVE golden_stack'[sp' - i] = not_taken_stack'[i]
    <3>1. CASE i = sp
      <4>1. sp' - i = 1
        BY <1>1, <1>2, <3>1
      <4> QED BY <1>3, <2>5, <3>1, <4>1
    <3>2. CASE i \in Pushed
      <4>1. /\ i \in Nat /\ sp' - i \in 2 .. Len(golden_stack) + 1
            /\ (sp' - i) - 1 = sp - i
        BY <1>1, <1>2, <2>3, <2>5, <3>2 DEF Pushed
      <4> QED BY <1>3, <2>3, <2>5, <3>2, <4>1
    <3> QED BY <1>3, <3>1, <3>2
  <2>7. sp' <= Len(golden_stack')
    BY <1>1, <1>2, <2>3, <2>5
  <2> QED BY <2>2, <2>6, <2>7 DEF MaskParity, StackParity
<1>9. NoMorePushedThanOpen'
  <2>1. sp <= Len(open) /\ Len(open) \in Nat
    BY DEF DivergenceInv, NoMorePushedThanOpen, TypeOK
  <2> QED BY <1>1, <1>2, <1>5, <2>1 DEF NoMorePushedThanOpen
<1> QED BY <1>6, <1>7, <1>8, <1>9 DEF DivergenceInv, MaskParity, StackParity

\* A branch that drops the lanes it masks, the stack being full.
LEMMA BranchOverflows ==
    ASSUME DivergenceInv, NEW cond \in SUBSET Lane, VBranch(cond),
           active_mask \ cond # {}, ~(sp < MAX_DIVERGENCE_DEPTH)
    PROVE  DivergenceInv'
<1>1. /\ active_mask' = active_mask \cap cond /\ overflow' = TRUE
      /\ not_taken_stack' = not_taken_stack /\ sp' = sp
      /\ open' = <<active_mask \ cond>> \o open
  BY DivergenceAssumption DEF VBranch, HandleBranch, PushDivergence, DivergenceInv, TypeOK
<1>2. /\ golden_mask' \in SUBSET Lane /\ golden_stack' \in Seq(SUBSET Lane)
  BY PushFront DEF VBranch, GoldenHandleBranch, DivergenceInv, TypeOK
<1>3. open' \in Seq(SUBSET Lane) /\ Len(open') = Len(open) + 1 /\ Len(open) \in Nat
  BY <1>1, PushFront DEF DivergenceInv, TypeOK
<1>4. TypeOK'
  BY <1>1, <1>2, <1>3 DEF DivergenceInv, TypeOK
<1>5. Pushed' = Pushed
  BY <1>1 DEF Pushed
<1>6. LaneInOnePlace'
  BY <1>1, <1>5 DEF DivergenceInv, LaneInOnePlace
<1>7. NoMorePushedThanOpen'
  BY <1>1, <1>3 DEF DivergenceInv, NoMorePushedThanOpen, TypeOK
<1> QED BY <1>1, <1>4, <1>6, <1>7 DEF DivergenceInv, MaskParity, StackParity

\* A branch that masks no lane.
LEMMA BranchMasksNone ==
    ASSUME DivergenceInv, NEW cond \in SUBSET Lane, VBranch(cond),
           active_mask \ cond = {}
    PROVE  DivergenceInv'
<1>1. /\ active_mask' = active_mask /\ overflow' = overflow
      /\ not_taken_stack' = not_taken_stack /\ sp' = sp
      /\ open' = <<{}>> \o open
  BY DEF VBranch, HandleBranch
<1>2. /\ golden_mask' \in SUBSET Lane /\ golden_stack' \in Seq(SUBSET Lane)
  BY PushFront DEF VBranch, GoldenHandleBranch, DivergenceInv, TypeOK
<1>3. open' \in Seq(SUBSET Lane) /\ Len(open') = Len(open) + 1 /\ Len(open) \in Nat
  BY <1>1, PushFront DEF DivergenceInv, TypeOK
<1>4. TypeOK'
  BY <1>1, <1>2, <1>3 DEF DivergenceInv, TypeOK
<1>5. Pushed' = Pushed
  BY <1>1 DEF Pushed
<1>6. LaneInOnePlace'
  BY <1>1, <1>5 DEF DivergenceInv, LaneInOnePlace, LanesKept
<1>7. ~overflow => golden_mask' = golden_mask /\ golden_stack' = golden_stack
  BY DEF VBranch, GoldenHandleBranch, DivergenceInv, MaskParity
<1>8. MaskParity' /\ StackParity'
  BY <1>1, <1>5, <1>7 DEF DivergenceInv, MaskParity, StackParity
<1>9. NoMorePushedThanOpen'
  BY <1>1, <1>3 DEF DivergenceInv, NoMorePushedThanOpen, TypeOK
<1> QED BY <1>4, <1>6, <1>8, <1>9 DEF DivergenceInv

LEMMA BranchInv ==
    ASSUME DivergenceInv, NEW cond \in SUBSET Lane, VBranch(cond)
    PROVE  DivergenceInv'
  BY BranchPushes, BranchOverflows, BranchMasksNone

-----------------------------------------------------------------------------
\* The part of a join that does not depend on the device's stack.
LEMMA JoinTypes ==
    ASSUME DivergenceInv, VJoin
    PROVE  /\ golden_mask' \in SUBSET Lane /\ golden_stack' \in Seq(SUBSET Lane)
           /\ open' \in Seq(SUBSET Lane)
           /\ Len(open') = IF open = <<>> THEN 0 ELSE Len(open) - 1
<1>1. golden_mask' \in SUBSET Lane /\ golden_stack' \in Seq(SUBSET Lane)
  <2>1. CASE golden_stack = <<>>
    BY <2>1 DEF VJoin, GoldenHandleJoin, goldenVars, DivergenceInv, TypeOK
  <2>2. CASE golden_stack # <<>>
    BY <2>2, PopFront DEF VJoin, GoldenHandleJoin, DivergenceInv, TypeOK
  <2> QED BY <2>1, <2>2
<1>2. open' \in Seq(SUBSET Lane) /\ Len(open') = IF open = <<>> THEN 0 ELSE Len(open) - 1
  BY PopFront DEF VJoin, DivergenceInv, TypeOK
<1> QED BY <1>1, <1>2

\* A join with nothing pushed: every lane is active unless lanes were dropped.
LEMMA JoinEmpty ==
    ASSUME DivergenceInv, VJoin, sp = 0
    PROVE  DivergenceInv'
<1>1. UNCHANGED <<active_mask, not_taken_stack, sp, overflow>>
  BY DEF VJoin, HandleJoin, hlsVars
<1>2. TypeOK'
  BY <1>1, JoinTypes DEF DivergenceInv, TypeOK
<1>3. Pushed = {} /\ Pushed' = {}
  BY <1>1 DEF Pushed
<1>4. LaneInOnePlace'
  BY <1>1, <1>3 DEF DivergenceInv, LaneInOnePlace, LanesKept
<1>5. ASSUME ~overflow PROVE golden_mask' = active_mask
  <2>1. active_mask = Lane /\ golden_mask = Lane
    BY <1>5, EmptyStackAllActive DEF DivergenceInv, MaskParity
  <2>2. CASE golden_stack = <<>>
    BY <2>1, <2>2 DEF VJoin, GoldenHandleJoin, goldenVars
  <2>3. CASE golden_stack # <<>>
    <3>1. Head(golden_stack) \in SUBSET Lane
      BY <2>3, PopFront DEF DivergenceInv, TypeOK
    <3>2. golden_mask' = golden_mask \cup Head(golden_stack)
      BY <2>3 DEF VJoin, GoldenHandleJoin
    <3> QED BY <2>1, <3>1, <3>2
  <2> QED BY <2>2, <2>3
<1>6. MaskParity'
  BY <1>1, <1>5 DEF MaskParity
<1>7. StackParity' /\ NoMorePushedThanOpen'
  <2>1. Len(golden_stack') \in Nat /\ Len(open') \in Nat
    BY JoinTypes
  <2> QED BY <1>1, <1>3, <2>1 DEF StackParity, NoMorePushedThanOpen
<1> QED BY <1>2, <1>4, <1>6, <1>7 DEF DivergenceInv

\* A join that pops.
LEMMA JoinPops ==
    ASSUME DivergenceInv, VJoin, sp # 0
    PROVE  DivergenceInv'
<1> DEFINE top == not_taken_stack[sp - 1]
<1>1. /\ sp' = sp - 1 /\ active_mask' = active_mask \cup top
      /\ not_taken_stack' = not_taken_stack /\ overflow' = overflow
  BY DEF VJoin, HandleJoin
<1>2. /\ sp \in Nat /\ sp - 1 \in Nat /\ sp - 1 \in Entry /\ sp - 1 \in Pushed
      /\ Pushed = Pushed' \cup {sp - 1} /\ sp - 1 \notin Pushed' /\ Pushed \subseteq Entry
      /\ not_taken_stack \in [Entry -> SUBSET Lane]
  <2>1. /\ sp \in 0 .. MAX_DIVERGENCE_DEPTH
        /\ not_taken_stack \in [Entry -> SUBSET Lane]
    BY DEF DivergenceInv, TypeOK
  <2>2. sp \in Nat /\ sp - 1 \in Nat /\ sp <= MAX_DIVERGENCE_DEPTH
    BY <2>1, DivergenceAssumption
  <2>3. sp - 1 \in Entry /\ Pushed \subseteq Entry
    BY <2>2, DivergenceAssumption DEF Entry, Pushed
  <2>4. sp - 1 \in Pushed
    BY <2>2 DEF Pushed
  <2>5. Pushed = Pushed' \cup {sp - 1} /\ sp - 1 \notin Pushed'
    BY <1>1, <2>2 DEF Pushed
  <2> QED BY <2>1, <2>2, <2>3, <2>4, <2>5
<1>3. top \in SUBSET Lane
  BY <1>2
<1>4. TypeOK'
  <2>1. sp' \in 0 .. MAX_DIVERGENCE_DEPTH
    BY <1>1, <1>2, DivergenceAssumption DEF DivergenceInv, TypeOK
  <2> QED BY <1>1, <1>3, <2>1, JoinTypes DEF DivergenceInv, TypeOK
<1>5. LaneInOnePlace'
  <2>1. /\ \A i \in Pushed : not_taken_stack[i] \cap active_mask = {}
        /\ \A i, j \in Pushed : i # j => not_taken_stack[i] \cap not_taken_stack[j] = {}
    BY DEF DivergenceInv, LaneInOnePlace
  <2>2. \A i \in Pushed' : not_taken_stack'[i] \cap active_mask' = {}
    <3> SUFFICES ASSUME NEW i \in Pushed' PROVE not_taken_stack[i] \cap (active_mask \cup top) = {}
      BY <1>1
    <3>1. i \in Pushed /\ i # sp - 1
      BY <1>2
    <3>2. not_taken_stack[i] \cap active_mask = {} /\ not_taken_stack[i] \cap top = {}
      BY <1>2, <2>1, <3>1
    <3> QED BY <3>2
  <2>3. \A i, j \in Pushed' : i # j => not_taken_stack'[i] \cap not_taken_stack'[j] = {}
    BY <1>1, <1>2, <2>1
  <2>4. ASSUME ~overflow' PROVE LanesKept'
    <3>1. active_mask \cup UNION {not_taken_stack[i] : i \in Pushed} = Lane
      BY <1>1, <2>4 DEF DivergenceInv, LaneInOnePlace, LanesKept
    <3>2. \A l \in Lane : l \in active_mask \/ \E i \in Pushed : l \in not_taken_stack[i]
      BY <3>1
    <3>3. \A l \in Lane : l \in active_mask' \/ \E i \in Pushed' : l \in not_taken_stack'[i]
      BY <1>1, <1>2, <3>2
    <3>4. \A i \in Pushed' : not_taken_stack'[i] \subseteq Lane
      BY <1>1, <1>2
    <3>5. active_mask' \subseteq Lane
      BY <1>1, <1>3 DEF DivergenceInv, TypeOK
    <3> QED BY <3>3, <3>4, <3>5 DEF LanesKept
  <2> QED BY <2>2, <2>3, <2>4 DEF LaneInOnePlace
<1>6. ASSUME ~overflow' PROVE MaskParity' /\ StackParity'
  <2>1. /\ golden_mask = active_mask /\ sp <= Len(golden_stack)
        /\ \A i \in Pushed : golden_stack[sp - i] = not_taken_stack[i]
    BY <1>1, <1>6 DEF DivergenceInv, MaskParity, StackParity
  <2>2. golden_stack \in Seq(SUBSET Lane) /\ golden_stack # <<>>
    BY <1>2, <2>1 DEF DivergenceInv, TypeOK
  <2>3. /\ golden_mask' = golden_mask \cup Head(golden_stack)
        /\ golden_stack' = Tail(golden_stack)
    BY <2>2 DEF VJoin, GoldenHandleJoin
  <2>4. /\ Head(golden_stack) = golden_stack[1] /\ Len(golden_stack) \in Nat
        /\ Len(golden_stack') = Len(golden_stack) - 1
        /\ \A i \in 1 .. Len(golden_stack) - 1 : golden_stack'[i] = golden_stack[i + 1]
    BY <2>2, <2>3, PopFront
  <2>5. golden_stack[1] = top
    <3>1. sp - (sp - 1) = 1
      BY <1>2
    <3> QED BY <1>2, <2>1, <3>1
  <2>6. MaskParity'
    BY <1>1, <2>1, <2>3, <2>4, <2>5 DEF MaskParity
  <2>7. ASSUME NEW i \in Pushed' PROVE golden_stack'[sp' - i] = not_taken_stack'[i]
    <3>1. /\ i \in Pushed /\ i \in Nat /\ sp' - i \in 1 .. Len(golden_stack) - 1
          /\ (sp' - i) + 1 = sp - i
      BY <1>1, <1>2, <2>1, <2>4 DEF Pushed
    <3> QED BY <1>1, <2>1, <2>4, <3>1
  <2>8. sp' <= Len(golden_stack')
    BY <1>1, <1>2, <2>1, <2>4
  <2> QED BY <2>6, <2>7, <2>8 DEF StackParity
<1>7. NoMorePushedThanOpen'
  <2>1. sp <= Len(open) /\ Len(open) \in Nat
    BY DEF DivergenceInv, NoMorePushedThanOpen, TypeOK
  <2>2. open # <<>>
    BY <1>2, <2>1
  <2> QED BY <1>1, <1>2, <2>1, <2>2, JoinTypes DEF NoMorePushedThanOpen
<1> QED BY <1>4, <1>5, <1>6, <1>7 DEF DivergenceInv, MaskParity, StackParity

-----------------------------------------------------------------------------
LEMMA NextInv == DivergenceInv /\ [Next]_vars => DivergenceInv'
<1> SUFFICES ASSUME DivergenceInv, [Next]_vars PROVE DivergenceInv'
  OBVIOUS
<1>1. CASE Dispatch
  BY <1>1, DispatchInv
<1>2. ASSUME NEW cond \in SUBSET Lane, VBranch(cond) PROVE DivergenceInv'
  BY <1>2, BranchInv
<1>3. CASE VJoin
  BY <1>3, JoinEmpty, JoinPops
<1>4. CASE UNCHANGED vars
  BY <1>4 DEF vars, DivergenceInv, TypeOK, LaneInOnePlace, LanesKept, MaskParity,
     StackParity, NoMorePushedThanOpen, Pushed
<1> QED BY <1>1, <1>2, <1>3, <1>4 DEF Next

(***************************************************************************)
(* The invariant of the two stacks, for every sequence of dispatches,      *)
(* VBRANCH and VJOIN.                                                      *)
(***************************************************************************)
THEOREM DivergenceInvariant == Spec => []DivergenceInv
  BY InitInv, NextInv, PTL DEF Spec

(***************************************************************************)
(* Every lane is in exactly one place of DivergenceStack until it          *)
(* overflows.                                                              *)
(***************************************************************************)
THEOREM LaneInOnePlaceProof == Spec => []LaneInOnePlace
<1>1. DivergenceInv => LaneInOnePlace
  BY DEF DivergenceInv
<1> QED BY <1>1, DivergenceInvariant, PTL

(***************************************************************************)
(* DivergenceStack and SIMTController run the same lanes until the former  *)
(* overflows.                                                              *)
(***************************************************************************)
THEOREM MaskParityProof == Spec => []MaskParity
<1>1. DivergenceInv => MaskParity
  BY DEF DivergenceInv
<1> QED BY <1>1, DivergenceInvariant, PTL

(***************************************************************************)
(* Code whose branches are all joined runs with all lanes active.          *)
(***************************************************************************)
THEOREM FullyReconvergedProof == Spec => []FullyReconverged
<1>1. ASSUME DivergenceInv, ~overflow, open = <<>> PROVE active_mask = Lane
  <2>1. sp <= Len(open) /\ sp \in Nat
    BY <1>1, DivergenceAssumption DEF DivergenceInv, NoMorePushedThanOpen, TypeOK
  <2>2. sp = 0
    BY <1>1, <2>1
  <2> QED BY <1>1, <2>2, EmptyStackAllActive DEF DivergenceInv
<1>2. DivergenceInv => FullyReconverged
  BY <1>1 DEF FullyReconverged
<1> QED BY <1>2, DivergenceInvariant, PTL
=============================================================================
