-------------------------- MODULE GoldenTopProofs --------------------------
(***************************************************************************)
(* GoldenTop keeps SchedulerInv, BarrierInv and SplitInv, for any number   *)
(* of GPUs and compute units, any grids, any number of launches, every     *)
(* kernel of Program and every host.                                       *)
(*                                                                         *)
(* The warps of a GPU are in one place each (Placed), on the way through   *)
(* the passes of simulationProcess(); for a host that waits until nothing  *)
(* runs, they belong to one launch and go through its barriers as one wave *)
(* (OneLaunch), and what has ended of a launch is the GPU's share of the   *)
(* grid (Tiled).  IInv puts the three together.                            *)
(***************************************************************************)
EXTENDS GoldenTop, FiniteSetTheorems, FunctionTheorems, SequenceTheorems,
        WellFoundedInduction, TLAPS

\* The least element of a set of naturals.
LEMMA LeastNatural ==
    ASSUME NEW T \in SUBSET Nat, T # {}
    PROVE  \E x \in T : \A y \in T : x <= y
<1> DEFINE R == OpToRel(<, Nat)
<1>1. IsWellFoundedOn(R, Nat)
  BY NatLessThanWellFounded
<1>2. \E x \in T : \A y \in T : ~(<<y, x>> \in R)
  <2> HIDE DEF R
  <2> QED BY <1>1, WFMin
<1>3. \E x \in T : \A y \in T : ~(y < x)
  BY <1>2 DEF OpToRel
<1>4. \A x, y \in Nat : ~(y < x) => x <= y
  OBVIOUS
<1> QED BY <1>3, <1>4

LEMMA MinOfSet ==
    ASSUME NEW T \in SUBSET Nat, T # {}
    PROVE  Min(T) \in T /\ \A y \in T : Min(T) <= y
  BY LeastNatural DEF Min

\* What holds first, and of a number when of the one before, holds of all.
LEMMA Upwards ==
    ASSUME NEW n \in Nat, NEW T, 0 \in T, \A i \in 1 .. n : i - 1 \in T => i \in T
    PROVE  \A i \in 0 .. n : i \in T
<1> DEFINE U == {i \in 0 .. n : i \notin T}
<1> SUFFICES ASSUME U # {} PROVE FALSE
  OBVIOUS
<1>1. U \in SUBSET Nat
  OBVIOUS
<1>2. PICK i \in U : \A j \in U : i <= j
  <2> HIDE DEF U
  <2> QED BY <1>1, LeastNatural
<1>3. i # 0 /\ i \in 1 .. n
  BY <1>2
<1>4. i - 1 \in 0 .. n /\ ~(i <= i - 1)
  BY <1>3
<1>5. i - 1 \in T
  BY <1>2, <1>4
<1> QED BY <1>2, <1>3, <1>5

\* A loop whose states are in a known set has a result.
LEMMA LoopExists ==
    ASSUME NEW S, NEW a \in S, NEW n \in Nat, NEW step \in [1 .. n -> [S -> S]]
    PROVE  \E f \in [0 .. n -> S] : f[0] = a /\ \A i \in 1 .. n : f[i] = step[i][f[i - 1]]
<1> DEFINE T == {k \in 0 .. n : \E f \in [0 .. k -> S] :
                     f[0] = a /\ \A i \in 1 .. k : f[i] = step[i][f[i - 1]]}
<1>1. 0 \in T
  <2>1. PICK f : f = [i \in 0 .. 0 |-> a]
    OBVIOUS
  <2>2. f \in [0 .. 0 -> S] /\ f[0] = a /\ \A i \in 1 .. 0 : f[i] = step[i][f[i - 1]]
    BY <2>1
  <2> QED BY <2>2
<1>2. ASSUME NEW k \in 1 .. n, k - 1 \in T PROVE k \in T
  <2>1. PICK f \in [0 .. k - 1 -> S] :
           f[0] = a /\ \A i \in 1 .. k - 1 : f[i] = step[i][f[i - 1]]
    BY <1>2
  <2>2. f[k - 1] \in S /\ step[k][f[k - 1]] \in S
    OBVIOUS
  <2>3. PICK h : h = [i \in 0 .. k |-> IF i = k THEN step[k][f[k - 1]] ELSE f[i]]
    OBVIOUS
  <2>4. \A i \in 0 .. k : i # k => i \in 0 .. k - 1 /\ h[i] = f[i]
    BY <2>3
  <2>5. h \in [0 .. k -> S]
    BY <2>2, <2>3, <2>4
  <2>6. h[0] = a
    BY <2>1, <2>4
  <2>7. ASSUME NEW i \in 1 .. k PROVE h[i] = step[i][h[i - 1]]
    <3>1. i - 1 \in 0 .. k /\ i - 1 # k
      OBVIOUS
    <3>2. h[i - 1] = f[i - 1]
      BY <2>4, <3>1
    <3>3. CASE i = k
      BY <2>3, <3>2, <3>3
    <3>4. CASE i # k
      BY <2>1, <2>4, <3>2, <3>4
    <3> QED BY <3>3, <3>4
  <2> QED BY <2>5, <2>6, <2>7
<1>3. n \in T
  <2> HIDE DEF T
  <2>1. \A i \in 1 .. n : i - 1 \in T => i \in T
    BY <1>2
  <2>2. \A i \in 0 .. n : i \in T
    BY <1>1, <2>1, Upwards
  <2> QED BY <2>2
<1> QED BY <1>3

LEMMA OnceIsIt ==
    ASSUME NEW x
    PROVE  Once(x) = x
  BY DEF Once

(***************************************************************************)
(* Sequences                                                               *)
(***************************************************************************)
IsSeq(s) == \E S : s \in Seq(S)

LEMMA TailFacts ==
    ASSUME NEW S, NEW s \in Seq(S), s # << >>
    PROVE  /\ Len(s) \in Nat \ {0} /\ Head(s) = s[1] /\ Head(s) \in S /\ Head(s) \in ToSet(s)
           /\ Tail(s) \in Seq(S) /\ Len(Tail(s)) = Len(s) - 1
           /\ \A i \in 1 .. Len(s) - 1 : Tail(s)[i] = s[i + 1]
           /\ IsInjective(s) => /\ IsInjective(Tail(s))
                                /\ ToSet(Tail(s)) = ToSet(s) \ {Head(s)}
<1>1. /\ Len(s) \in Nat \ {0} /\ Head(s) = s[1] /\ Head(s) \in S
      /\ Tail(s) \in Seq(S) /\ Len(Tail(s)) = Len(s) - 1
      /\ \A i \in 1 .. Len(s) - 1 : Tail(s)[i] = s[i + 1]
  OBVIOUS
<1>2. DOMAIN s = 1 .. Len(s) /\ DOMAIN Tail(s) = 1 .. Len(s) - 1
  BY <1>1
<1>3. Head(s) \in ToSet(s)
  BY <1>1, <1>2 DEF ToSet
<1>4. ASSUME IsInjective(s) PROVE IsInjective(Tail(s))
  BY <1>1, <1>2, <1>4 DEF IsInjective
<1>5. ASSUME IsInjective(s) PROVE ToSet(Tail(s)) = ToSet(s) \ {Head(s)}
  <2>1. ASSUME NEW i \in 1 .. Len(s) - 1 PROVE Tail(s)[i] \in ToSet(s) \ {Head(s)}
    BY <1>1, <1>2, <1>5 DEF IsInjective, ToSet
  <2>2. ASSUME NEW i \in 1 .. Len(s), s[i] # Head(s) PROVE s[i] \in ToSet(Tail(s))
    <3>1. i - 1 \in 1 .. Len(s) - 1 /\ Tail(s)[i - 1] = s[i]
      BY <1>1, <2>2
    <3> QED BY <1>2, <3>1 DEF ToSet
  <2> QED BY <1>2, <2>1, <2>2 DEF ToSet
<1> QED BY <1>1, <1>3, <1>4, <1>5

Appended(a, s, S, e) ==
    /\ a \in Seq(S \cup {e}) /\ Len(a) = Len(s) + 1
    /\ Len(s) \in Nat /\ DOMAIN s = 1 .. Len(s) /\ DOMAIN a = 1 .. Len(s) + 1
    /\ \A i \in 1 .. Len(s) : a[i] = s[i]
    /\ a[Len(s) + 1] = e
    /\ e \in S => a \in Seq(S)
    /\ ToSet(a) = ToSet(s) \cup {e}
    /\ IsInjective(s) /\ e \notin ToSet(s) => IsInjective(a)

LEMMA AppendFacts ==
    ASSUME NEW S, NEW s \in Seq(S), NEW e, NEW a, a = Append(s, e)
    PROVE  Appended(a, s, S, e)
<1>1. s \in Seq(S \cup {e}) /\ Len(s) \in Nat /\ DOMAIN s = 1 .. Len(s)
  OBVIOUS
<1>3. /\ a \in Seq(S \cup {e}) /\ Len(a) = Len(s) + 1
      /\ \A i \in 1 .. Len(s) : a[i] = s[i]
      /\ a[Len(s) + 1] = e
      /\ e \in S => a \in Seq(S)
  BY <1>1
<1>4. DOMAIN a = 1 .. Len(s) + 1
  BY <1>1, <1>3
<1>5. ToSet(a) = ToSet(s) \cup {e}
  <2>1. \A i \in 1 .. Len(s) + 1 : i \in 1 .. Len(s) \/ i = Len(s) + 1
    BY <1>1
  <2>2. \A i \in 1 .. Len(s) : i \in 1 .. Len(s) + 1
    BY <1>1
  <2>3. Len(s) + 1 \in 1 .. Len(s) + 1
    BY <1>1
  <2> QED BY <1>1, <1>3, <1>4, <2>1, <2>2, <2>3 DEF ToSet
<1>6. ASSUME IsInjective(s), e \notin ToSet(s) PROVE IsInjective(a)
  BY <1>1, <1>3, <1>4, <1>6 DEF IsInjective, ToSet
<1> QED BY <1>1, <1>3, <1>4, <1>5, <1>6 DEF Appended

(***************************************************************************)
(* Programs and the execution of a warp up to its next stop                *)
(***************************************************************************)
IsProgram(p) == IsSeq(p) /\ \A n \in 1 .. Len(p) : p[n].op = "BARRIER" => p[n].imm \in BarrierId

Programs == {Program[k] : k \in DOMAIN Program} \cup {<< >>}

IsInstr(i) == i.op = "BARRIER" => i.imm \in BarrierId

LEMMA Instrs ==
    /\ \A op, rd, rs1, rs2, imm : op # "BARRIER" => IsInstr(makeInstr(op, rd, rs1, rs2, imm))
    /\ \A bid \in BarrierId : IsInstr(BARRIER(bid))
    /\ IsInstr(HALT) /\ IsInstr(VJOIN)
<1>1. \A op, rd, rs1, rs2, imm : /\ makeInstr(op, rd, rs1, rs2, imm).op = op
                                 /\ makeInstr(op, rd, rs1, rs2, imm).imm = imm
  BY DEF makeInstr
<1> QED BY <1>1 DEF IsInstr, BARRIER, HALT, VJOIN

LEMMA InstrPrograms ==
    ASSUME NEW S, \A i \in S : IsInstr(i), NEW p \in Seq(S)
    PROVE  IsProgram(p)
  BY DEF IsProgram, IsSeq, IsInstr

\* A barrier of the library is number 0 or 1.
LEMMA LibraryPrograms ==
    ASSUME NEW p \in Programs
    PROVE  IsProgram(p)
<1>1. IsProgram(intSaxpy(2, 10))
  <2> DEFINE S == {makeInstr("ADDI", 3, 0, 0, 2), makeInstr("ADDI", 4, 1, 0, 1),
                 makeInstr("ADDI", 5, 0, 0, 10), makeInstr("VMUL", 6, 4, 3, 0),
                 makeInstr("VADD", 6, 6, 5, 0), HALT}
  <2>1. \A i \in S : IsInstr(i)
    BY Instrs DEF BarrierId
  <2>2. intSaxpy(2, 10) \in Seq(S)
    BY DEF intSaxpy
  <2> HIDE DEF S
  <2> QED BY <2>1, <2>2, InstrPrograms
<1>2. IsProgram(fpUniformSaxpy(2, 3, 1))
  <2> DEFINE S == {makeInstr("ADDI", 3, 0, 0, floatAsReg(2)),
                 makeInstr("ADDI", 4, 0, 0, floatAsReg(3)),
                 makeInstr("ADDI", 5, 0, 0, floatAsReg(1)), makeInstr("VFMUL", 6, 4, 3, 0),
                 makeInstr("VFADD", 6, 6, 5, 0), HALT}
  <2>1. \A i \in S : IsInstr(i)
    BY Instrs DEF BarrierId
  <2>2. fpUniformSaxpy(2, 3, 1) \in Seq(S)
    BY DEF fpUniformSaxpy
  <2> HIDE DEF S
  <2> QED BY <2>1, <2>2, InstrPrograms
<1>3. IsProgram(memoryRoundTrip)
  <2> DEFINE S == {makeInstr("SW", 0, 2, 1, 0), makeInstr("LW", 3, 2, 0, 0),
                 makeInstr("LW", 4, 2, 0, 0), HALT}
  <2>1. \A i \in S : IsInstr(i)
    BY Instrs DEF BarrierId
  <2>2. memoryRoundTrip \in Seq(S)
    BY DEF memoryRoundTrip
  <2> HIDE DEF S
  <2> QED BY <2>1, <2>2, InstrPrograms
<1>4. IsProgram(divergentOddEven)
  <2> DEFINE S == {makeInstr("ADDI", 3, 0, 0, 1), makeInstr("AND", 4, 1, 3, 0),
                 makeInstr("VBRANCH", 0, 4, 0, 2), makeInstr("ADDI", 5, 0, 0, 100), VJOIN,
                 HALT}
  <2>1. \A i \in S : IsInstr(i)
    BY Instrs DEF BarrierId
  <2>2. divergentOddEven \in Seq(S)
    BY DEF divergentOddEven
  <2> HIDE DEF S
  <2> QED BY <2>1, <2>2, InstrPrograms
<1>5. IsProgram(barrierRoundTrip(1))
  <2> DEFINE S == {makeInstr("SW", 0, 2, 1, 0), BARRIER(1), makeInstr("LW", 3, 2, 0, 0), HALT}
  <2>1. \A i \in S : IsInstr(i)
    BY Instrs DEF BarrierId
  <2>2. barrierRoundTrip(1) \in Seq(S)
    BY DEF barrierRoundTrip
  <2> HIDE DEF S
  <2> QED BY <2>1, <2>2, InstrPrograms
<1>6. IsProgram(parallelReduction)
  <2> DEFINE S == {makeInstr("ADDI", 4, 1, 0, 1), makeInstr("SW", 0, 2, 4, 0), BARRIER(0),
                 makeInstr("ADDI", 9, 0, 0, 1), makeInstr("SLT", 7, 3, 9, 0),
                 makeInstr("XOR", 8, 7, 9, 0), makeInstr("VBRANCH", 0, 7, 0, 2),
                 makeInstr("LW", 5, 2, 0, -(4 * TPW)), VJOIN, makeInstr("VBRANCH", 0, 8, 0, 2),
                 makeInstr("LW", 5, 2, 0, 4 * TPW), makeInstr("VADD", 6, 4, 5, 0),
                 makeInstr("SW", 0, 2, 6, 8), HALT}
  <2>1. \A i \in S : IsInstr(i)
    BY Instrs DEF BarrierId
  <2>2. parallelReduction \in Seq(S)
    BY DEF parallelReduction
  <2> HIDE DEF S
  <2> QED BY <2>1, <2>2, InstrPrograms
<1>7. IsProgram(fpSaxpy)
  <2> DEFINE S == {makeInstr("VFMUL", 6, 4, 3, 0), makeInstr("VFADD", 6, 6, 5, 0), HALT}
  <2>1. \A i \in S : IsInstr(i)
    BY Instrs DEF BarrierId
  <2>2. fpSaxpy \in Seq(S)
    BY DEF fpSaxpy
  <2> HIDE DEF S
  <2> QED BY <2>1, <2>2, InstrPrograms
<1>8. IsProgram(fpFmadd)
  <2> DEFINE S == {makeInstr("VFFMADD", 5, 3, 4, 0), HALT}
  <2>1. \A i \in S : IsInstr(i)
    BY Instrs DEF BarrierId
  <2>2. fpFmadd \in Seq(S)
    BY DEF fpFmadd
  <2> HIDE DEF S
  <2> QED BY <2>1, <2>2, InstrPrograms
<1>9. IsProgram(fpDivergentSaxpy)
  <2> DEFINE S == {makeInstr("ADDI", 8, 0, 0, 1), makeInstr("AND", 7, 0, 8, 0),
                 makeInstr("VBRANCH", 0, 7, 0, 3), makeInstr("VFMUL", 6, 4, 3, 0),
                 makeInstr("VFADD", 6, 6, 5, 0), VJOIN, HALT}
  <2>1. \A i \in S : IsInstr(i)
    BY Instrs DEF BarrierId
  <2>2. fpDivergentSaxpy \in Seq(S)
    BY DEF fpDivergentSaxpy
  <2> HIDE DEF S
  <2> QED BY <2>1, <2>2, InstrPrograms
<1>10. IsProgram(fpGemm)
  <2> DEFINE S == {makeInstr("VFFMADD", 7, 2 + k, 7 + k, 0) : k \in 1 .. 4} \cup {HALT}
  <2>1. \A i \in S : IsInstr(i)
    BY Instrs
  <2>2. [k \in 1 .. 4 |-> makeInstr("VFFMADD", 7, 2 + k, 7 + k, 0)] \in Seq(S)
    OBVIOUS
  <2>3. fpGemm \in Seq(S)
    BY <2>2 DEF fpGemm
  <2> HIDE DEF S
  <2> QED BY <2>1, <2>3, InstrPrograms
<1>11. IsProgram(conv2d3x3)
  <2> DEFINE S == {makeInstr("VFMADD", 21, 2 + k, 11 + k, 0) : k \in 1 .. 9} \cup {HALT}
  <2>1. \A i \in S : IsInstr(i)
    BY Instrs
  <2>2. [k \in 1 .. 9 |-> makeInstr("VFMADD", 21, 2 + k, 11 + k, 0)] \in Seq(S)
    OBVIOUS
  <2>3. conv2d3x3 \in Seq(S)
    BY <2>2 DEF conv2d3x3
  <2> HIDE DEF S
  <2> QED BY <2>1, <2>3, InstrPrograms
<1>12. IsProgram(Program["twoBarriers"])
  <2> DEFINE S == {makeInstr("SW", 0, 2, 1, 0), BARRIER(0), makeInstr("VBRANCH", 0, 1, 0, 1),
                 BARRIER(1), VJOIN, makeInstr("LW", 3, 2, 0, 0)}
  <2>1. \A i \in S : IsInstr(i)
    BY Instrs DEF BarrierId
  <2>2. Program["twoBarriers"] \in Seq(S)
    BY DEF Program
  <2> HIDE DEF S
  <2> QED BY <2>1, <2>2, InstrPrograms
<1>13. IsProgram(<< >>)
  BY DEF IsProgram, IsSeq
<1>14. /\ DOMAIN Program = {"intSaxpy", "fpUniformSaxpy", "memoryRoundTrip", "divergentOddEven",
              "barrierRoundTrip", "parallelReduction", "twoBarriers", "fpSaxpy", "fpFmadd",
              "fpDivergentSaxpy", "fpGemm", "conv2d3x3"}
       /\ Program["intSaxpy"] = intSaxpy(2, 10) /\ Program["fpUniformSaxpy"] = fpUniformSaxpy(2, 3, 1)
       /\ Program["memoryRoundTrip"] = memoryRoundTrip /\ Program["divergentOddEven"] = divergentOddEven
       /\ Program["barrierRoundTrip"] = barrierRoundTrip(1)
       /\ Program["parallelReduction"] = parallelReduction
       /\ Program["fpSaxpy"] = fpSaxpy /\ Program["fpFmadd"] = fpFmadd
       /\ Program["fpDivergentSaxpy"] = fpDivergentSaxpy /\ Program["fpGemm"] = fpGemm
       /\ Program["conv2d3x3"] = conv2d3x3
  BY DEF Program
<1> QED BY <1>1, <1>2, <1>3, <1>4, <1>5, <1>6, <1>7, <1>8, <1>9, <1>10, <1>11, <1>12, <1>13, <1>14
        DEF Programs

\* Where a warp that starts after instruction pc stops, and whether there to wait.
Stop(p, pc) == SelectInSubSeq(p, pc + 1, Len(p), LAMBDA i : i.op \in {"BARRIER", "HALT"})
Stalls(p, pc) == Stop(p, pc) # 0 /\ p[Stop(p, pc)].op # "HALT"

LEMMA StopFacts ==
    ASSUME NEW p, IsSeq(p), NEW pc \in Nat
    PROVE  /\ Stop(p, pc) # 0 =>
                /\ Stop(p, pc) \in pc + 1 .. Len(p) /\ p[Stop(p, pc)].op \in {"BARRIER", "HALT"}
                /\ \A i \in pc + 1 .. Len(p) : p[i].op \in {"BARRIER", "HALT"} => Stop(p, pc) <= i
           /\ Stop(p, pc) \in Nat
<1> DEFINE I == {i \in pc + 1 .. Len(p) : p[i].op \in {"BARRIER", "HALT"}}
<1>1. Len(p) \in Nat
  BY DEF IsSeq
<1>2. I \in SUBSET Nat
  BY <1>1
<1>3. Stop(p, pc) = IF I # {} THEN Min(I) ELSE 0
  BY DEF Stop, SelectInSubSeq
<1>4. I # {} => Min(I) \in I /\ \A i \in I : Min(I) <= i
  <2> HIDE DEF I
  <2> QED BY <1>2, MinOfSet
<1>5. CASE I # {}
  BY <1>1, <1>3, <1>4, <1>5
<1>6. CASE I = {}
  BY <1>3, <1>6
<1> QED BY <1>5, <1>6

\* The fields of a warp's context.
IsCtx(x) ==
    x = [warp |-> x.warp, pc |-> x.pc, state |-> x.state, program |-> x.program, stack |-> x.stack,
         regs |-> x.regs, kernel |-> x.kernel, launch |-> x.launch,
         global_warp |-> x.global_warp, local_warp |-> x.local_warp]

SameWarp(x, y) ==
    /\ IsCtx(x) /\ x.warp = y.warp /\ x.program = y.program /\ x.kernel = y.kernel
    /\ x.launch = y.launch /\ x.global_warp = y.global_warp /\ x.local_warp = y.local_warp

LEMMA ExecuteFacts ==
    ASSUME NEW ctx, IsCtx(ctx), ctx.pc \in Nat, ctx.program \in Programs, NEW mem,
           NEW x, x = executeWarp(ctx, mem)
    PROVE  /\ SameWarp(x.ctx, ctx)
           /\ x.ctx.state = "STALLED" <=> Stalls(ctx.program, ctx.pc)
           /\ x.ctx.state = "STALLED" =>
                /\ x.ctx.pc = Stop(ctx.program, ctx.pc) /\ x.ctx.pc \in Nat
                /\ x.bid = ctx.program[x.ctx.pc].imm /\ x.bid \in BarrierId
<1>1. PICK stop, ends : stop = Stop(ctx.program, ctx.pc) /\ ends = (stop = 0 \/ ctx.program[stop].op = "HALT")
  OBVIOUS
<1>2. StopAt(ctx) = stop
  BY <1>1 DEF StopAt, Stop
<1>3. PICK regs, stack, pc, state :
        /\ regs = RunBody(ctx, mem, stop).regs /\ stack = RunBody(ctx, mem, stop).stack
        /\ pc = (IF ends THEN ctx.pc + Len(Body(ctx, stop)) ELSE stop)
        /\ state = IF ends THEN "COMPLETE" ELSE "STALLED"
  OBVIOUS
<1>4. PICK y : y = [ctx EXCEPT !.regs = regs, !.stack = stack, !.pc = pc, !.state = state]
  OBVIOUS
<1>5. x.ctx = y /\ x.bid = (IF ends THEN 0 ELSE ctx.program[stop].imm)
  BY <1>1, <1>2, <1>3, <1>4 DEF executeWarp
<1>6. SameWarp(y, ctx) /\ y.pc = pc /\ y.state = state
  <2>1. y = [warp |-> ctx.warp, pc |-> pc, state |-> state, program |-> ctx.program, stack |-> stack,
             regs |-> regs, kernel |-> ctx.kernel, launch |-> ctx.launch,
             global_warp |-> ctx.global_warp, local_warp |-> ctx.local_warp]
    BY <1>4 DEF IsCtx
  <2> QED BY <2>1 DEF SameWarp, IsCtx
<1>7. IsProgram(ctx.program)
  BY LibraryPrograms
<1>8. ~ends => /\ stop \in 1 .. Len(ctx.program) /\ ctx.program[stop].op = "BARRIER"
  <2>1. stop # 0 => stop \in ctx.pc + 1 .. Len(ctx.program) /\ ctx.program[stop].op \in {"BARRIER", "HALT"}
    <3>1. IsSeq(ctx.program) /\ ctx.pc \in Nat
      BY <1>7 DEF IsProgram
    <3> QED BY <1>1, <3>1, StopFacts
  <2>2. \A i \in ctx.pc + 1 .. Len(ctx.program) : i \in 1 .. Len(ctx.program)
    BY <1>7 DEF IsProgram, IsSeq
  <2>3. ~ends => stop # 0 /\ ctx.program[stop].op # "HALT"
    BY <1>1
  <2> QED BY <2>1, <2>2, <2>3
<1>9. ~ends => ctx.program[stop].imm \in BarrierId /\ stop \in Nat
  BY <1>7, <1>8 DEF IsProgram
<1>10. ends <=> ~Stalls(ctx.program, ctx.pc)
  BY <1>1 DEF Stalls
<1> QED BY <1>1, <1>3, <1>5, <1>6, <1>9, <1>10

(***************************************************************************)
(* One GPU.  Every warp handed out is in a ready queue, waits at a barrier *)
(* or has ended, and is there once; H are the warps that the loop has      *)
(* taken from a queue and not run yet.                                     *)
(***************************************************************************)
IsGpu(g) ==
    g = [program |-> g.program, kernel |-> g.kernel, start_warp |-> g.start_warp,
         offset |-> g.offset, total_warps |-> g.total_warps, ready |-> g.ready,
         next_warp |-> g.next_warp, event |-> g.event, in_loop |-> g.in_loop,
         barrier_queue |-> g.barrier_queue, barrier_table |-> g.barrier_table,
         mem |-> g.mem, instructions |-> g.instructions, launch |-> g.launch,
         started |-> g.started, ended |-> g.ended, pass |-> g.pass]

WaitTypes(sw) ==
    /\ sw.id \in Nat /\ sw.cu_id \in Cu /\ sw.bid \in BarrierId
    /\ IsCtx(sw.ctx) /\ sw.ctx.warp = sw.id /\ sw.ctx.program \in Programs
    /\ sw.ctx.pc \in Nat /\ sw.bid = sw.ctx.program[sw.ctx.pc].imm

GpuTypes(g) ==
    /\ IsGpu(g) /\ g.program \in Programs
    /\ g.start_warp \in Nat /\ g.offset \in Nat /\ g.total_warps \in Nat
    /\ g.next_warp \in Nat /\ g.launch \in Nat
    /\ g.ready \in [Cu -> Seq(Nat)] /\ g.started \in Seq(Nat)
    /\ IsSeq(g.barrier_queue) /\ \A n \in DOMAIN g.barrier_queue : WaitTypes(g.barrier_queue[n])
    /\ g.barrier_table \in [Cu -> [BarrierId -> SUBSET (0 .. g.next_warp - 1)]]

Waiting(g) == {g.barrier_queue[n].id : n \in DOMAIN g.barrier_queue}
Gone(g) == {e.warp : e \in g.ended}

QueuesOnce(g) ==
    /\ \A c \in Cu : IsInjective(g.ready[c])
    /\ \A c, d \in Cu : c # d => ToSet(g.ready[c]) \cap ToSet(g.ready[d]) = {}

BarrierOnce(g) ==
    \A m, n \in DOMAIN g.barrier_queue : g.barrier_queue[m].id = g.barrier_queue[n].id => m = n

EndedOnce(g) == \A e, f \in g.ended : e.warp = f.warp => e = f

Apart(g, H) ==
    /\ Queued(g) \cap Waiting(g) = {} /\ Queued(g) \cap Gone(g) = {} /\ Waiting(g) \cap Gone(g) = {}
    /\ H \cap Queued(g) = {} /\ H \cap Waiting(g) = {} /\ H \cap Gone(g) = {}
    /\ Queued(g) \cup Waiting(g) \cup Gone(g) \cup H = 0 .. g.next_warp - 1

StartedOnce(g, H) == IsInjective(g.started) /\ ToSet(g.started) = Waiting(g) \cup Gone(g) \cup H

Placed(g, H) ==
    /\ QueuesOnce(g) /\ BarrierOnce(g) /\ EndedOnce(g) /\ Apart(g, H) /\ StartedOnce(g, H)

\* What executeWarp() and the loop leave alone.
SameLaunch(h, g) ==
    /\ h.program = g.program /\ h.kernel = g.kernel /\ h.start_warp = g.start_warp
    /\ h.offset = g.offset /\ h.total_warps = g.total_warps /\ h.next_warp = g.next_warp
    /\ h.launch = g.launch /\ h.pass = g.pass /\ h.event = g.event /\ h.in_loop = g.in_loop

\* What RunWarp does to the places of warps, in the two outcomes.
Stalled(h, g, c, ctx, sw) ==
    /\ sw.id = ctx.warp /\ sw.cu_id = c /\ WaitTypes(sw)
    /\ SameWarp(sw.ctx, ctx) /\ sw.ctx.pc = Stop(ctx.program, ctx.pc)
    /\ h.barrier_queue = Append(g.barrier_queue, sw) /\ h.ended = g.ended
    /\ h.barrier_table = threadHitBarrier(g.barrier_table, c, sw.bid, ctx.warp)

Completed(h, g, ctx, e) ==
    /\ e.warp = ctx.warp /\ e.launch = ctx.launch /\ e.global_warp = ctx.global_warp
    /\ h.barrier_queue = g.barrier_queue /\ h.ended = g.ended \cup {e}
    /\ h.barrier_table = g.barrier_table

CtxTypes(ctx) ==
    IsCtx(ctx) /\ ctx.warp \in Nat /\ ctx.pc \in Nat /\ ctx.program \in Programs

LEMMA RunWarpFields ==
    ASSUME NEW g, GpuTypes(g), NEW c \in Cu, NEW ctx, CtxTypes(ctx),
           NEW h, h = RunWarp(g, c, ctx)
    PROVE  /\ IsGpu(h) /\ SameLaunch(h, g) /\ h.ready = g.ready /\ h.started = g.started
           /\ Stalls(ctx.program, ctx.pc) => \E sw : Stalled(h, g, c, ctx, sw)
           /\ ~Stalls(ctx.program, ctx.pc) => \E e : Completed(h, g, ctx, e)
<1>1. PICK x : x = executeWarp(ctx, g.mem)
  OBVIOUS
<1>2. /\ SameWarp(x.ctx, ctx)
      /\ x.ctx.state = "STALLED" <=> Stalls(ctx.program, ctx.pc)
      /\ x.ctx.state = "STALLED" =>
           /\ x.ctx.pc = Stop(ctx.program, ctx.pc) /\ x.ctx.pc \in Nat
           /\ x.bid = ctx.program[x.ctx.pc].imm /\ x.bid \in BarrierId
  BY <1>1, ExecuteFacts DEF CtxTypes
<1>3. PICK sw, e, mem, instructions :
        /\ sw = [id |-> ctx.warp, cu_id |-> c, bid |-> x.bid, ctx |-> x.ctx] /\ e = Ended(x.ctx)
        /\ mem = x.mem /\ instructions = g.instructions + x.instructions
  OBVIOUS
<1>4. Once(executeWarp(ctx, g.mem)) = x
  BY <1>1, OnceIsIt
<1>5. PICK ran : ran = [g EXCEPT !.mem = mem, !.instructions = instructions]
  OBVIOUS
<1>6. h = IF x.ctx.state = "STALLED"
            THEN [ran EXCEPT !.barrier_table = threadHitBarrier(@, c, x.bid, ctx.warp),
                             !.barrier_queue = Append(@, sw)]
            ELSE [ran EXCEPT !.ended = @ \cup {e}]
  BY <1>3, <1>4, <1>5, OnceIsIt DEF RunWarp
<1>7. ran = [program |-> g.program, kernel |-> g.kernel, start_warp |-> g.start_warp,
             offset |-> g.offset, total_warps |-> g.total_warps, ready |-> g.ready,
             next_warp |-> g.next_warp, event |-> g.event, in_loop |-> g.in_loop,
             barrier_queue |-> g.barrier_queue, barrier_table |-> g.barrier_table,
             mem |-> mem, instructions |-> instructions, launch |-> g.launch,
             started |-> g.started, ended |-> g.ended, pass |-> g.pass]
  BY <1>5 DEF GpuTypes, IsGpu
<1>8. ASSUME x.ctx.state = "STALLED"
      PROVE  IsGpu(h) /\ SameLaunch(h, g) /\ h.ready = g.ready /\ h.started = g.started /\ Stalled(h, g, c, ctx, sw)
  <2>1. h = [program |-> g.program, kernel |-> g.kernel, start_warp |-> g.start_warp,
             offset |-> g.offset, total_warps |-> g.total_warps, ready |-> g.ready,
             next_warp |-> g.next_warp, event |-> g.event, in_loop |-> g.in_loop,
             barrier_queue |-> Append(g.barrier_queue, sw),
             barrier_table |-> threadHitBarrier(g.barrier_table, c, x.bid, ctx.warp),
             mem |-> mem, instructions |-> instructions, launch |-> g.launch,
             started |-> g.started, ended |-> g.ended, pass |-> g.pass]
    BY <1>6, <1>7, <1>8
  <2>2. WaitTypes(sw)
    BY <1>2, <1>3, <1>8 DEF WaitTypes, SameWarp, CtxTypes
  <2> QED BY <1>2, <1>3, <1>8, <2>1, <2>2 DEF IsGpu, SameLaunch, Stalled
<1>9. ASSUME x.ctx.state # "STALLED"
      PROVE  IsGpu(h) /\ SameLaunch(h, g) /\ h.ready = g.ready /\ h.started = g.started /\ Completed(h, g, ctx, e)
  <2>1. h = [program |-> g.program, kernel |-> g.kernel, start_warp |-> g.start_warp,
             offset |-> g.offset, total_warps |-> g.total_warps, ready |-> g.ready,
             next_warp |-> g.next_warp, event |-> g.event, in_loop |-> g.in_loop,
             barrier_queue |-> g.barrier_queue, barrier_table |-> g.barrier_table,
             mem |-> mem, instructions |-> instructions, launch |-> g.launch,
             started |-> g.started, ended |-> g.ended \cup {e}, pass |-> g.pass]
    BY <1>6, <1>7, <1>9
  <2>2. e.warp = ctx.warp /\ e.launch = ctx.launch /\ e.global_warp = ctx.global_warp
    BY <1>2, <1>3 DEF Ended, SameWarp
  <2> QED BY <2>1, <2>2 DEF IsGpu, SameLaunch, Completed
<1> QED BY <1>2, <1>8, <1>9

\* A warp taken from a queue and run is at a barrier or has ended.
LEMMA StalledPlaced ==
    ASSUME NEW g, GpuTypes(g), NEW H, Placed(g, H), NEW c \in Cu, NEW ctx, CtxTypes(ctx),
           ctx.warp \in H, NEW h, IsGpu(h), SameLaunch(h, g), h.ready = g.ready, h.started = g.started,
           NEW sw, Stalled(h, g, c, ctx, sw)
    PROVE  GpuTypes(h) /\ Placed(h, H \ {ctx.warp})
<1>1. PICK w, q, S : w = ctx.warp /\ q = g.barrier_queue /\ q \in Seq(S)
  BY DEF GpuTypes, IsSeq
<1>2. /\ sw.id = w /\ sw.cu_id = c /\ WaitTypes(sw)
      /\ h.barrier_queue = Append(q, sw) /\ h.ended = g.ended
      /\ h.barrier_table = threadHitBarrier(g.barrier_table, c, sw.bid, w)
  BY <1>1 DEF Stalled
<1>3. /\ h.barrier_queue \in Seq(S \cup {sw}) /\ DOMAIN q = 1 .. Len(q) /\ Len(q) \in Nat
      /\ DOMAIN h.barrier_queue = 1 .. Len(q) + 1
      /\ \A n \in 1 .. Len(q) : h.barrier_queue[n] = q[n]
      /\ h.barrier_queue[Len(q) + 1] = sw
  <2>1. PICK a : a = Append(q, sw)
    OBVIOUS
  <2>2. Appended(a, q, S, sw)
    BY <1>1, <2>1, AppendFacts
  <2> QED BY <1>2, <2>1, <2>2 DEF Appended
<1>4. \A n \in 1 .. Len(q) + 1 : n \in 1 .. Len(q) \/ n = Len(q) + 1
  BY <1>3
<1>5. \A n \in 1 .. Len(q) : n \in 1 .. Len(q) + 1
  BY <1>3
<1>6. Len(q) + 1 \in 1 .. Len(q) + 1
  BY <1>3
<1>7. Waiting(h) = Waiting(g) \cup {w} /\ Gone(h) = Gone(g) /\ Queued(h) = Queued(g)
  <2>1. \A n \in 1 .. Len(q) : h.barrier_queue[n].id = q[n].id
    BY <1>3
  <2>2. Waiting(h) = Waiting(g) \cup {w}
    BY <1>1, <1>2, <1>3, <1>4, <1>5, <1>6, <2>1 DEF Waiting
  <2>3. Gone(h) = Gone(g) /\ Queued(h) = Queued(g)
    BY <1>2 DEF Gone, Queued
  <2> QED BY <2>2, <2>3
<1>8. w \in 0 .. g.next_warp - 1 /\ w \notin Waiting(g)
  BY <1>1 DEF Placed, Apart
<1>9. GpuTypes(h)
  <2>1. h.barrier_table \in [Cu -> [BarrierId -> SUBSET (0 .. g.next_warp - 1)]]
    <3>1. sw.bid \in BarrierId
      BY <1>2 DEF WaitTypes
    <3>2. PICK N : N = 0 .. g.next_warp - 1
      OBVIOUS
    <3>3. g.barrier_table \in [Cu -> [BarrierId -> SUBSET N]] /\ w \in N
      BY <1>8, <3>2 DEF GpuTypes
    <3>4. g.barrier_table[c][sw.bid] \cup {w} \in SUBSET N
      BY <3>1, <3>3
    <3>5. h.barrier_table \in [Cu -> [BarrierId -> SUBSET N]]
      BY <1>2, <3>1, <3>3, <3>4 DEF threadHitBarrier
    <3> QED BY <3>2, <3>5
  <2>2. \A n \in DOMAIN h.barrier_queue : WaitTypes(h.barrier_queue[n])
    BY <1>1, <1>2, <1>3, <1>4 DEF GpuTypes
  <2>3. IsSeq(h.barrier_queue)
    BY <1>3 DEF IsSeq
  <2> QED BY <2>1, <2>2, <2>3 DEF GpuTypes, SameLaunch
<1>10. BarrierOnce(h)
  <2>1. \A n \in 1 .. Len(q) : q[n].id # w
    BY <1>1, <1>3, <1>8 DEF Waiting
  <2>2. \A m, n \in 1 .. Len(q) : q[m].id = q[n].id => m = n
    BY <1>1, <1>3 DEF Placed, BarrierOnce
  <2> QED BY <1>2, <1>3, <1>4, <2>1, <2>2 DEF BarrierOnce
<1>11. QueuesOnce(h) /\ EndedOnce(h)
  BY <1>2 DEF Placed, QueuesOnce, EndedOnce
<1>12. Apart(h, H \ {w})
  BY <1>1, <1>7, <1>8 DEF Placed, Apart, SameLaunch
<1>13. StartedOnce(h, H \ {w})
  BY <1>1, <1>7 DEF Placed, StartedOnce
<1> QED BY <1>1, <1>9, <1>10, <1>11, <1>12, <1>13 DEF Placed

LEMMA CompletedPlaced ==
    ASSUME NEW g, GpuTypes(g), NEW H, Placed(g, H), NEW ctx, CtxTypes(ctx),
           ctx.warp \in H, NEW h, IsGpu(h), SameLaunch(h, g), h.ready = g.ready, h.started = g.started,
           NEW e, Completed(h, g, ctx, e)
    PROVE  GpuTypes(h) /\ Placed(h, H \ {ctx.warp})
<1>1. PICK w : w = ctx.warp
  OBVIOUS
<1>2. /\ e.warp = w /\ h.barrier_queue = g.barrier_queue /\ h.ended = g.ended \cup {e}
      /\ h.barrier_table = g.barrier_table
  BY <1>1 DEF Completed
<1>3. Waiting(h) = Waiting(g) /\ Gone(h) = Gone(g) \cup {w} /\ Queued(h) = Queued(g)
  BY <1>2 DEF Gone, Waiting, Queued
<1>4. GpuTypes(h)
  BY <1>2 DEF GpuTypes, SameLaunch
<1>5. EndedOnce(h)
  <2>1. \A f \in g.ended : f.warp # w
    BY <1>1 DEF Placed, Apart, Gone
  <2> QED BY <1>2, <2>1 DEF Placed, EndedOnce
<1>6. QueuesOnce(h) /\ BarrierOnce(h)
  BY <1>2 DEF Placed, QueuesOnce, BarrierOnce
<1>7. Apart(h, H \ {w})
  BY <1>1, <1>3 DEF Placed, Apart, SameLaunch
<1>8. StartedOnce(h, H \ {w})
  BY <1>1, <1>3 DEF Placed, StartedOnce
<1> QED BY <1>1, <1>4, <1>5, <1>6, <1>7, <1>8 DEF Placed

LEMMA RunWarpPlaced ==
    ASSUME NEW g, GpuTypes(g), NEW H, Placed(g, H), NEW c \in Cu, NEW ctx, CtxTypes(ctx),
           ctx.warp \in H
    PROVE  GpuTypes(RunWarp(g, c, ctx)) /\ Placed(RunWarp(g, c, ctx), H \ {ctx.warp})
<1>1. PICK h : h = RunWarp(g, c, ctx)
  OBVIOUS
<1>2. /\ IsGpu(h) /\ SameLaunch(h, g) /\ h.ready = g.ready /\ h.started = g.started
      /\ Stalls(ctx.program, ctx.pc) => \E sw : Stalled(h, g, c, ctx, sw)
      /\ ~Stalls(ctx.program, ctx.pc) => \E e : Completed(h, g, ctx, e)
  BY <1>1, RunWarpFields
<1>3. CASE Stalls(ctx.program, ctx.pc)
  BY <1>1, <1>2, <1>3, StalledPlaced
<1>4. CASE ~Stalls(ctx.program, ctx.pc)
  BY <1>1, <1>2, <1>4, CompletedPlaced
<1> QED BY <1>3, <1>4

(***************************************************************************)
(* One launch at a time                                                    *)
(***************************************************************************)
OfLaunch(g, ctx) ==
    ctx.launch = g.launch /\ ctx.program = g.program /\ ctx.global_warp = ctx.warp + g.offset

\* What has ended is of this launch, or from before it.
EndedRight(g) ==
    \A e \in g.ended :
        /\ e.launch \in Nat /\ e.launch <= g.launch
        /\ e.launch = g.launch => e.warp >= g.start_warp /\ e.global_warp = e.warp + g.offset
        /\ e.launch # g.launch => e.warp < g.start_warp

Current(g, H) ==
    /\ g.start_warp + g.total_warps = g.next_warp
    /\ \A w \in Queued(g) \cup Waiting(g) \cup H : w >= g.start_warp
    /\ \A n \in DOMAIN g.barrier_queue : OfLaunch(g, g.barrier_queue[n].ctx)
    /\ EndedRight(g)

TablesMatch(g) ==
    \A c \in Cu, b \in BarrierId :
        g.barrier_table[c][b] =
            {sw.id : sw \in {x \in ToSet(g.barrier_queue) : x.cu_id = c /\ x.bid = b}}

PastKept(h, g) == \A e : e.launch # g.launch => (e \in h.ended <=> e \in g.ended)

\* All that wait do so at pc, and no warp of the launch has ended.
AllAt(g, pc) ==
    /\ \A n \in DOMAIN g.barrier_queue : g.barrier_queue[n].ctx.pc = pc
    /\ \A e \in g.ended : e.launch # g.launch

LEMMA StalledCurrent ==
    ASSUME NEW g, GpuTypes(g), NEW H, Current(g, H), NEW c \in Cu, NEW ctx, CtxTypes(ctx),
           OfLaunch(g, ctx), ctx.warp \in H,
           NEW h, IsGpu(h), SameLaunch(h, g), h.ready = g.ready, h.started = g.started,
           NEW sw, Stalled(h, g, c, ctx, sw)
    PROVE  /\ Current(h, H \ {ctx.warp}) /\ PastKept(h, g)
           /\ TablesMatch(g) => TablesMatch(h)
           /\ Len(h.barrier_queue) = Len(g.barrier_queue) + 1
           /\ \A pc : pc = Stop(g.program, ctx.pc) /\ AllAt(g, pc) => AllAt(h, pc)
<1>1. PICK w, q, S : w = ctx.warp /\ q = g.barrier_queue /\ q \in Seq(S)
  BY DEF GpuTypes, IsSeq
<1>2. /\ sw.id = w /\ sw.cu_id = c /\ WaitTypes(sw) /\ SameWarp(sw.ctx, ctx)
      /\ sw.ctx.pc = Stop(g.program, ctx.pc)
      /\ h.barrier_queue = Append(q, sw) /\ h.ended = g.ended
      /\ h.barrier_table = threadHitBarrier(g.barrier_table, c, sw.bid, w)
  BY <1>1 DEF Stalled, OfLaunch
<1>3. /\ DOMAIN q = 1 .. Len(q) /\ Len(q) \in Nat
      /\ DOMAIN h.barrier_queue = 1 .. Len(q) + 1 /\ Len(h.barrier_queue) = Len(q) + 1
      /\ \A n \in 1 .. Len(q) : h.barrier_queue[n] = q[n]
      /\ h.barrier_queue[Len(q) + 1] = sw
      /\ ToSet(h.barrier_queue) = ToSet(q) \cup {sw}
  <2>1. PICK a : a = Append(q, sw)
    OBVIOUS
  <2>2. Appended(a, q, S, sw)
    BY <1>1, <2>1, AppendFacts
  <2> QED BY <1>2, <2>1, <2>2 DEF Appended
<1>4. \A n \in 1 .. Len(q) + 1 : n \in 1 .. Len(q) \/ n = Len(q) + 1
  BY <1>3
<1>5. Waiting(h) \subseteq Waiting(g) \cup {w} /\ Queued(h) = Queued(g)
  <2>1. \A n \in 1 .. Len(q) : h.barrier_queue[n].id = q[n].id
    BY <1>3
  <2> QED BY <1>1, <1>2, <1>3, <1>4, <2>1 DEF Waiting, Queued
<1>6. Current(h, H \ {w})
  <2>1. \A n \in DOMAIN h.barrier_queue : OfLaunch(h, h.barrier_queue[n].ctx)
    BY <1>1, <1>2, <1>3, <1>4 DEF Current, OfLaunch, SameLaunch, SameWarp
  <2>2. \A v \in Queued(h) \cup Waiting(h) \cup H : v >= h.start_warp
    BY <1>1, <1>5 DEF Current, SameLaunch
  <2>3. EndedRight(h)
    BY <1>2 DEF Current, EndedRight, SameLaunch
  <2> QED BY <2>1, <2>2, <2>3 DEF Current, SameLaunch
<1>7. PastKept(h, g)
  BY <1>2 DEF PastKept
<1>8. ASSUME TablesMatch(g) PROVE TablesMatch(h)
  <2> SUFFICES ASSUME NEW d \in Cu, NEW b \in BarrierId
               PROVE  h.barrier_table[d][b] =
                        {x.id : x \in {y \in ToSet(h.barrier_queue) : y.cu_id = d /\ y.bid = b}}
    BY DEF TablesMatch
  <2>1. g.barrier_table[d][b] = {x.id : x \in {y \in ToSet(q) : y.cu_id = d /\ y.bid = b}}
    BY <1>1, <1>8 DEF TablesMatch
  <2>2. g.barrier_table \in [Cu -> [BarrierId -> SUBSET (0 .. g.next_warp - 1)]] /\ sw.bid \in BarrierId
    BY <1>2 DEF GpuTypes, WaitTypes
  <2>3. h.barrier_table[d][b] = IF d = c /\ b = sw.bid THEN g.barrier_table[d][b] \cup {w}
                                ELSE g.barrier_table[d][b]
    <3>1. PICK N : N = 0 .. g.next_warp - 1
      OBVIOUS
    <3>2. g.barrier_table \in [Cu -> [BarrierId -> SUBSET N]]
      BY <2>2, <3>1
    <3>3. PICK t : t = [g.barrier_table[c] EXCEPT ![sw.bid] = @ \cup {w}]
      OBVIOUS
    <3>4. h.barrier_table = [g.barrier_table EXCEPT ![c] = t]
      BY <1>2, <3>3 DEF threadHitBarrier
    <3>5. h.barrier_table[d] = IF d = c THEN t ELSE g.barrier_table[d]
      BY <3>2, <3>4
    <3>6. t[b] = IF b = sw.bid THEN g.barrier_table[c][b] \cup {w} ELSE g.barrier_table[c][b]
      BY <2>2, <3>2, <3>3
    <3> QED BY <3>5, <3>6
  <2>4. CASE d = c /\ b = sw.bid
    BY <1>2, <1>3, <2>1, <2>3, <2>4
  <2>5. CASE ~(d = c /\ b = sw.bid)
    <3>1. {y \in ToSet(h.barrier_queue) : y.cu_id = d /\ y.bid = b}
             = {y \in ToSet(q) : y.cu_id = d /\ y.bid = b}
      BY <1>2, <1>3, <2>5
    <3> QED BY <2>1, <2>3, <2>5, <3>1
  <2> QED BY <2>4, <2>5
<1>9. ASSUME NEW pc, pc = Stop(g.program, ctx.pc), AllAt(g, pc) PROVE AllAt(h, pc)
  BY <1>1, <1>2, <1>3, <1>4, <1>9 DEF AllAt, SameLaunch
<1> QED BY <1>1, <1>3, <1>6, <1>7, <1>8, <1>9

LEMMA CompletedCurrent ==
    ASSUME NEW g, GpuTypes(g), NEW H, Current(g, H), NEW ctx, CtxTypes(ctx),
           OfLaunch(g, ctx), ctx.warp \in H,
           NEW h, IsGpu(h), SameLaunch(h, g), h.ready = g.ready, h.started = g.started,
           NEW e, Completed(h, g, ctx, e)
    PROVE  /\ Current(h, H \ {ctx.warp}) /\ PastKept(h, g)
           /\ TablesMatch(g) => TablesMatch(h)
           /\ h.barrier_queue = g.barrier_queue
<1>1. /\ e.warp = ctx.warp /\ e.launch = g.launch /\ e.global_warp = e.warp + g.offset
      /\ h.barrier_queue = g.barrier_queue /\ h.ended = g.ended \cup {e}
      /\ h.barrier_table = g.barrier_table
  BY DEF Completed, OfLaunch
<1>2. Waiting(h) = Waiting(g) /\ Queued(h) = Queued(g)
  BY <1>1 DEF Waiting, Queued
<1>3. EndedRight(h)
  <2>1. e.warp >= g.start_warp /\ g.launch \in Nat /\ g.launch <= g.launch
    BY <1>1 DEF Current, GpuTypes
  <2> QED BY <1>1, <2>1 DEF Current, EndedRight, SameLaunch
<1>4. Current(h, H \ {ctx.warp})
  <2>1. \A n \in DOMAIN h.barrier_queue : OfLaunch(h, h.barrier_queue[n].ctx)
    BY <1>1 DEF Current, OfLaunch, SameLaunch
  <2> QED BY <1>2, <1>3, <2>1 DEF Current, SameLaunch
<1>5. PastKept(h, g)
  BY <1>1 DEF PastKept
<1>6. TablesMatch(g) => TablesMatch(h)
  BY <1>1 DEF TablesMatch
<1> QED BY <1>1, <1>4, <1>5, <1>6

(***************************************************************************)
(* One warp of one CU: taken from its queue, then run                      *)
(***************************************************************************)
\* g with the first warp of CU c in the hands of the loop.
TakenFrom(g, c) == [g EXCEPT !.started = Append(@, Head(g.ready[c])), !.ready = Popped(@, c)]

LEMMA TakenFields ==
    ASSUME NEW g, GpuTypes(g), NEW c \in Cu, g.ready[c] # << >>,
           NEW t, t = TakenFrom(g, c), NEW w, w = Head(g.ready[c])
    PROVE  /\ GpuTypes(t) /\ SameLaunch(t, g) /\ w \in Nat /\ w \in ToSet(g.ready[c])
           /\ t.barrier_queue = g.barrier_queue /\ t.barrier_table = g.barrier_table
           /\ t.ended = g.ended /\ t.started = Append(g.started, w)
           /\ t.ready = Popped(g.ready, c) /\ t.ready[c] = Tail(g.ready[c])
           /\ \A d \in Cu : d # c => t.ready[d] = g.ready[d]
<1>1. g.ready \in [Cu -> Seq(Nat)] /\ g.ready[c] \in Seq(Nat) /\ g.started \in Seq(Nat)
  BY DEF GpuTypes
<1>2. w \in Nat /\ w \in ToSet(g.ready[c]) /\ Tail(g.ready[c]) \in Seq(Nat)
  BY <1>1, TailFacts
<1>3. PICK r, s : r = Popped(g.ready, c) /\ s = Append(g.started, w)
  OBVIOUS
<1>4. r \in [Cu -> Seq(Nat)] /\ r[c] = Tail(g.ready[c]) /\ \A d \in Cu : d # c => r[d] = g.ready[d]
  BY <1>1, <1>2, <1>3 DEF Popped
<1>5. s \in Seq(Nat)
  <2>1. Appended(s, g.started, Nat, w)
    BY <1>1, <1>3, AppendFacts
  <2> QED BY <1>2, <2>1 DEF Appended
<1>6. t = [g EXCEPT !.started = s, !.ready = r]
  BY <1>3 DEF TakenFrom
<1>7. t = [program |-> g.program, kernel |-> g.kernel, start_warp |-> g.start_warp,
           offset |-> g.offset, total_warps |-> g.total_warps, ready |-> r,
           next_warp |-> g.next_warp, event |-> g.event, in_loop |-> g.in_loop,
           barrier_queue |-> g.barrier_queue, barrier_table |-> g.barrier_table,
           mem |-> g.mem, instructions |-> g.instructions, launch |-> g.launch,
           started |-> s, ended |-> g.ended, pass |-> g.pass]
  BY <1>6 DEF GpuTypes, IsGpu
<1>8. /\ IsGpu(t) /\ SameLaunch(t, g) /\ t.ready = r /\ t.started = s
      /\ t.barrier_queue = g.barrier_queue /\ t.barrier_table = g.barrier_table
      /\ t.ended = g.ended
  BY <1>7 DEF IsGpu, SameLaunch
<1>9. GpuTypes(t)
  BY <1>4, <1>5, <1>8 DEF GpuTypes, SameLaunch
<1> QED BY <1>2, <1>3, <1>4, <1>8, <1>9

LEMMA InQueued ==
    ASSUME NEW g, NEW w
    PROVE  w \in Queued(g) <=> \E c \in Cu : w \in ToSet(g.ready[c])
  BY DEF Queued

LEMMA TakenPlaced ==
    ASSUME NEW g, GpuTypes(g), Placed(g, {}), NEW c \in Cu, g.ready[c] # << >>,
           NEW t, t = TakenFrom(g, c), NEW w, w = Head(g.ready[c])
    PROVE  /\ Placed(t, {w}) /\ Queued(t) \subseteq Queued(g) /\ w \in Queued(g)
           /\ Waiting(t) = Waiting(g)
<1>1. /\ GpuTypes(t) /\ SameLaunch(t, g) /\ w \in Nat /\ w \in ToSet(g.ready[c])
      /\ t.barrier_queue = g.barrier_queue /\ t.ended = g.ended /\ t.started = Append(g.started, w)
      /\ t.ready[c] = Tail(g.ready[c])
      /\ \A d \in Cu : d # c => t.ready[d] = g.ready[d]
  BY TakenFields
<1>2. /\ \A d \in Cu : IsInjective(g.ready[d])
      /\ \A d, e \in Cu : d # e => ToSet(g.ready[d]) \cap ToSet(g.ready[e]) = {}
  BY DEF Placed, QueuesOnce
<1>3. IsInjective(t.ready[c]) /\ ToSet(t.ready[c]) = ToSet(g.ready[c]) \ {w}
  <2>1. g.ready[c] \in Seq(Nat)
    BY DEF GpuTypes
  <2> QED BY <1>1, <1>2, <2>1, TailFacts
<1>4. \A d \in Cu : IsInjective(t.ready[d]) /\ ToSet(t.ready[d]) = ToSet(g.ready[d]) \ {w}
  <2>1. ASSUME NEW d \in Cu, d # c PROVE w \notin ToSet(g.ready[d])
    BY <1>1, <1>2, <2>1
  <2> QED BY <1>1, <1>2, <1>3, <2>1
<1>5. QueuesOnce(t)
  BY <1>2, <1>4 DEF QueuesOnce
<1>6. Queued(t) = Queued(g) \ {w} /\ w \in Queued(g)
  <2>1. \A v : v \in Queued(t) <=> v \in Queued(g) /\ v # w
    <3> SUFFICES ASSUME NEW v PROVE v \in Queued(t) <=> v \in Queued(g) /\ v # w
      OBVIOUS
    <3>1. \A d \in Cu : v \in ToSet(t.ready[d]) <=> v \in ToSet(g.ready[d]) /\ v # w
      BY <1>4
    <3>2. v \in Queued(t) <=> \E d \in Cu : v \in ToSet(t.ready[d])
      BY InQueued
    <3>3. v \in Queued(g) <=> \E d \in Cu : v \in ToSet(g.ready[d])
      BY InQueued
    <3> QED BY <3>1, <3>2, <3>3
  <2>2. w \in Queued(g)
    BY <1>1, InQueued
  <2> QED BY <2>1, <2>2
<1>7. Waiting(t) = Waiting(g) /\ Gone(t) = Gone(g)
  BY <1>1 DEF Waiting, Gone
<1>8. BarrierOnce(t) /\ EndedOnce(t)
  BY <1>1 DEF Placed, BarrierOnce, EndedOnce
<1>9. Apart(t, {w})
  BY <1>1, <1>6, <1>7 DEF Placed, Apart, SameLaunch
<1>10. StartedOnce(t, {w})
  <2>1. Appended(t.started, g.started, Nat, w)
    <3>1. g.started \in Seq(Nat)
      BY DEF GpuTypes
    <3> QED BY <1>1, <3>1, AppendFacts
  <2>2. w \notin ToSet(g.started)
    BY <1>6 DEF Placed, StartedOnce, Apart
  <2> QED BY <1>7, <2>1, <2>2 DEF Appended, Placed, StartedOnce
<1> QED BY <1>5, <1>6, <1>7, <1>8, <1>9, <1>10 DEF Placed

LEMMA NewContext ==
    ASSUME NEW g, GpuTypes(g), NEW w \in Nat, NEW ctx, ctx = BuildWarpContext(g, w)
    PROVE  CtxTypes(ctx) /\ ctx.warp = w /\ ctx.pc = 0 /\ OfLaunch(g, ctx)
<1>1. PICK regs : regs = ctx.regs
  OBVIOUS
<1>2. ctx = [warp |-> w, pc |-> 0, state |-> "READY", program |-> g.program, stack |-> << >>,
             regs |-> regs, kernel |-> g.kernel, launch |-> g.launch, global_warp |-> w + g.offset,
             local_warp |-> w - g.start_warp]
  BY <1>1 DEF BuildWarpContext
<1> QED BY <1>2 DEF CtxTypes, IsCtx, OfLaunch, GpuTypes

\* The loop takes a warp from CU c, or finds its queue empty.
LEMMA DispatchSplit ==
    ASSUME NEW g, GpuTypes(g), NEW c \in Cu, g.ready[c] # << >>, NEW w, w = Head(g.ready[c])
    PROVE  DispatchOne(g, c) = RunWarp(TakenFrom(g, c), c, BuildWarpContext(g, w))
  BY DEF DispatchOne, TakenFrom

Drained(ready, c) == IF ready[c] = << >> THEN ready ELSE Popped(ready, c)

LEMMA DispatchPlaced ==
    ASSUME NEW g, GpuTypes(g), Placed(g, {}), NEW c \in Cu, NEW h, h = DispatchOne(g, c)
    PROVE  GpuTypes(h) /\ Placed(h, {}) /\ SameLaunch(h, g) /\ h.ready = Drained(g.ready, c)
<1>1. CASE g.ready[c] = << >>
  BY <1>1 DEF DispatchOne, Drained, SameLaunch
<1>2. CASE g.ready[c] # << >>
  <2>1. PICK w, t, ctx : /\ w = Head(g.ready[c]) /\ t = TakenFrom(g, c)
                         /\ ctx = BuildWarpContext(g, w)
    OBVIOUS
  <2>2. h = RunWarp(t, c, ctx)
    BY <1>2, <2>1, DispatchSplit
  <2>3. GpuTypes(t) /\ SameLaunch(t, g) /\ w \in Nat /\ t.ready = Popped(g.ready, c)
    BY <1>2, <2>1, TakenFields
  <2>4. Placed(t, {w})
    BY <1>2, <2>1, TakenPlaced
  <2>5. CtxTypes(ctx) /\ ctx.warp = w
    BY <2>1, <2>3, NewContext
  <2>6. GpuTypes(h) /\ Placed(h, {w} \ {ctx.warp})
    BY <2>2, <2>3, <2>4, <2>5, RunWarpPlaced
  <2>7. SameLaunch(h, t) /\ h.ready = t.ready
    BY <2>2, <2>3, <2>5, RunWarpFields
  <2>8. {w} \ {ctx.warp} = {}
    BY <2>5
  <2> QED BY <1>2, <2>3, <2>6, <2>7, <2>8 DEF SameLaunch, Drained
<1> QED BY <1>1, <1>2

LEMMA TakenCurrent ==
    ASSUME NEW g, GpuTypes(g), Placed(g, {}), Current(g, {}), NEW c \in Cu, g.ready[c] # << >>,
           NEW t, t = TakenFrom(g, c), NEW w, w = Head(g.ready[c])
    PROVE  /\ Current(t, {w}) /\ (TablesMatch(g) => TablesMatch(t))
           /\ \A pc : AllAt(g, pc) => AllAt(t, pc)
<1>1. /\ SameLaunch(t, g) /\ t.barrier_queue = g.barrier_queue
      /\ t.barrier_table = g.barrier_table /\ t.ended = g.ended
  BY TakenFields
<1>2. /\ Queued(t) \subseteq Queued(g) /\ w \in Queued(g) /\ Waiting(t) = Waiting(g)
  BY TakenPlaced
<1>3. EndedRight(t)
  BY <1>1 DEF Current, EndedRight, SameLaunch
<1>4. \A n \in DOMAIN t.barrier_queue : OfLaunch(t, t.barrier_queue[n].ctx)
  BY <1>1 DEF Current, OfLaunch, SameLaunch
<1>5. Current(t, {w})
  BY <1>1, <1>2, <1>3, <1>4 DEF Current, SameLaunch
<1>6. TablesMatch(g) => TablesMatch(t)
  BY <1>1 DEF TablesMatch
<1> QED BY <1>1, <1>5, <1>6 DEF AllAt, SameLaunch

\* What running warps one after another keeps, for a host that waits.
KeepsCurrent(h, g, H) ==
    Current(h, H) /\ PastKept(h, g) /\ (TablesMatch(g) => TablesMatch(h))

\* What running one warp from pc makes of the barrier.
RanCurrent(h, g, pc, H) ==
    /\ KeepsCurrent(h, g, H)
    /\ Stalls(g.program, pc) =>
         /\ Len(h.barrier_queue) = Len(g.barrier_queue) + 1
         /\ AllAt(g, Stop(g.program, pc)) => AllAt(h, Stop(g.program, pc))
    /\ ~Stalls(g.program, pc) => h.barrier_queue = g.barrier_queue

LEMMA RunWarpCurrent ==
    ASSUME NEW g, GpuTypes(g), NEW H, Current(g, H), NEW c \in Cu, NEW ctx, CtxTypes(ctx),
           OfLaunch(g, ctx), ctx.warp \in H, NEW h, h = RunWarp(g, c, ctx)
    PROVE  RanCurrent(h, g, ctx.pc, H \ {ctx.warp})
<1>1. /\ IsGpu(h) /\ SameLaunch(h, g) /\ h.ready = g.ready /\ h.started = g.started
      /\ Stalls(ctx.program, ctx.pc) => \E sw : Stalled(h, g, c, ctx, sw)
      /\ ~Stalls(ctx.program, ctx.pc) => \E e : Completed(h, g, ctx, e)
  BY RunWarpFields
<1>2. ctx.program = g.program
  BY DEF OfLaunch
<1>3. CASE Stalls(g.program, ctx.pc)
  BY <1>1, <1>2, <1>3, StalledCurrent DEF KeepsCurrent, RanCurrent
<1>4. CASE ~Stalls(g.program, ctx.pc)
  BY <1>1, <1>2, <1>4, CompletedCurrent DEF KeepsCurrent, RanCurrent
<1> QED BY <1>3, <1>4

\* The first stop of the program: all wait there, or the queue stays as it is.
FirstWave(h, g) ==
    /\ Stalls(g.program, 0) /\ AllAt(g, Stop(g.program, 0)) => AllAt(h, Stop(g.program, 0))
    /\ ~Stalls(g.program, 0) => h.barrier_queue = g.barrier_queue

LEMMA DispatchCurrent ==
    ASSUME NEW g, GpuTypes(g), Placed(g, {}), Current(g, {}), NEW c \in Cu,
           NEW h, h = DispatchOne(g, c)
    PROVE  KeepsCurrent(h, g, {}) /\ FirstWave(h, g)
<1>1. CASE g.ready[c] = << >>
  BY <1>1 DEF DispatchOne, KeepsCurrent, FirstWave, PastKept
<1>2. CASE g.ready[c] # << >>
  <2>1. PICK w, t, ctx : /\ w = Head(g.ready[c]) /\ t = TakenFrom(g, c)
                         /\ ctx = BuildWarpContext(g, w)
    OBVIOUS
  <2>2. h = RunWarp(t, c, ctx)
    BY <1>2, <2>1, DispatchSplit
  <2>3. /\ GpuTypes(t) /\ SameLaunch(t, g) /\ w \in Nat /\ t.ended = g.ended
        /\ t.barrier_queue = g.barrier_queue
    BY <1>2, <2>1, TakenFields
  <2>4. /\ Current(t, {w}) /\ (TablesMatch(g) => TablesMatch(t))
        /\ \A pc : AllAt(g, pc) => AllAt(t, pc)
    BY <1>2, <2>1, TakenCurrent
  <2>5. CtxTypes(ctx) /\ ctx.warp = w /\ ctx.pc = 0 /\ OfLaunch(t, ctx)
    <3>1. CtxTypes(ctx) /\ ctx.warp = w /\ ctx.pc = 0 /\ OfLaunch(g, ctx)
      BY <2>1, <2>3, NewContext
    <3> QED BY <2>3, <3>1 DEF OfLaunch, SameLaunch
  <2>6. ctx.warp \in {w} /\ {w} \ {ctx.warp} = {}
    BY <2>5
  <2>7. RanCurrent(h, t, ctx.pc, {w} \ {ctx.warp})
    <3>1. PICK H : H = {w}
      OBVIOUS
    <3>2. Current(t, H) /\ ctx.warp \in H
      BY <2>4, <2>5, <3>1
    <3>3. RanCurrent(h, t, ctx.pc, H \ {ctx.warp})
      BY <2>2, <2>3, <2>5, <3>2, RunWarpCurrent
    <3> QED BY <3>1, <3>3
  <2>8. KeepsCurrent(h, g, {})
    BY <2>3, <2>4, <2>6, <2>7 DEF RanCurrent, KeepsCurrent, PastKept, SameLaunch
  <2>9. FirstWave(h, g)
    BY <2>3, <2>4, <2>5, <2>7 DEF RanCurrent, FirstWave, SameLaunch
  <2> QED BY <2>8, <2>9
<1> QED BY <1>1, <1>2

(***************************************************************************)
(* One pass over the CUs                                                   *)
(***************************************************************************)
DispatchSteps(f, g, n) ==
    [c \in 0 .. n |-> IF c = 0 THEN g ELSE DispatchOne(Once(f[c - 1]), c - 1)]

LEMMA DispatchLoopExists ==
    ASSUME NEW g, NEW n \in Nat
    PROVE  \E f : f = DispatchSteps(f, g, n)
<1> DEFINE T == {k \in 0 .. n : \E f : f = DispatchSteps(f, g, k)}
<1>1. 0 \in T
  <2>1. PICK f : f = [c \in 0 .. 0 |-> g]
    OBVIOUS
  <2>2. \A c \in 0 .. 0 : c = 0
    OBVIOUS
  <2>3. f = DispatchSteps(f, g, 0)
    BY <2>1, <2>2 DEF DispatchSteps
  <2> QED BY <2>3
<1>2. ASSUME NEW k \in 1 .. n, k - 1 \in T PROVE k \in T
  <2>1. PICK f : f = DispatchSteps(f, g, k - 1)
    BY <1>2
  <2>2. PICK h : h = [c \in 0 .. k |-> IF c = k THEN DispatchOne(Once(f[k - 1]), k - 1) ELSE f[c]]
    OBVIOUS
  <2>3. \A c \in 0 .. k : c # k => c \in 0 .. k - 1 /\ h[c] = f[c]
    BY <2>2
  <2>4. ASSUME NEW c \in 0 .. k
        PROVE  h[c] = IF c = 0 THEN g ELSE DispatchOne(Once(h[c - 1]), c - 1)
    <3>1. c # 0 => c - 1 \in 0 .. k /\ c - 1 # k
      OBVIOUS
    <3>2. c # 0 => h[c - 1] = f[c - 1]
      BY <2>3, <3>1
    <3>3. CASE c = k
      <4>1. c # 0 /\ c \in 0 .. k /\ h[c] = DispatchOne(Once(f[k - 1]), k - 1)
        BY <2>2, <3>3
      <4> QED BY <3>2, <3>3, <4>1
    <3>4. CASE c # k
      <4>1. f[c] = IF c = 0 THEN g ELSE DispatchOne(Once(f[c - 1]), c - 1)
        BY <2>1, <2>3, <3>4 DEF DispatchSteps
      <4> QED BY <2>3, <3>2, <3>4, <4>1
    <3> QED BY <3>3, <3>4
  <2>5. h = DispatchSteps(h, g, k)
    BY <2>2, <2>4 DEF DispatchSteps
  <2> QED BY <2>5
<1>3. n \in T
  <2> HIDE DEF T
  <2>1. \A i \in 1 .. n : i - 1 \in T => i \in T
    BY <1>2
  <2>2. \A i \in 0 .. n : i \in T
    BY <1>1, <2>1, Upwards
  <2> QED BY <2>2
<1> QED BY <1>3

LEMMA DispatchLoop ==
    ASSUME NEW g
    PROVE  \E f : /\ DispatchAll(g) = f[NUM_CUS] /\ f[0] = g
                  /\ \A c \in Cu : f[c + 1] = DispatchOne(f[c], c)
<1>1. NUM_CUS \in Nat
  BY GoldenAssumption
<1>2. PICK f : f = CHOOSE h : h = DispatchSteps(h, g, NUM_CUS)
  OBVIOUS
<1>3. f = DispatchSteps(f, g, NUM_CUS)
  BY <1>1, <1>2, DispatchLoopExists
<1>4. DispatchAll(g) = f[NUM_CUS]
  BY <1>2 DEF DispatchAll, DispatchSteps
<1>5. f[0] = g
  <2>1. 0 \in 0 .. NUM_CUS
    BY <1>1
  <2> QED BY <1>3, <2>1 DEF DispatchSteps
<1>6. ASSUME NEW c \in Cu PROVE f[c + 1] = DispatchOne(f[c], c)
  <2>1. c + 1 \in 0 .. NUM_CUS /\ c + 1 # 0 /\ (c + 1) - 1 = c
    BY <1>1 DEF Cu
  <2>2. f[c + 1] = DispatchOne(Once(f[c]), c)
    BY <1>3, <2>1 DEF DispatchSteps
  <2> QED BY <2>2, OnceIsIt
<1> QED BY <1>4, <1>5, <1>6

Drain(q) == IF q = << >> THEN << >> ELSE Tail(q)

\* The pass has been at the CUs below c.
PassAt(h, g, c) ==
    /\ GpuTypes(h) /\ Placed(h, {}) /\ SameLaunch(h, g)
    /\ \A d \in Cu : h.ready[d] = IF d < c THEN Drain(g.ready[d]) ELSE g.ready[d]

PassCurrent(h, g) == KeepsCurrent(h, g, {}) /\ FirstWave(h, g)

LEMMA PassStep ==
    ASSUME NEW g, NEW c \in Cu, NEW a, PassAt(a, g, c), NEW h, h = DispatchOne(a, c)
    PROVE  PassAt(h, g, c + 1)
<1>1. GpuTypes(h) /\ Placed(h, {}) /\ SameLaunch(h, a) /\ h.ready = Drained(a.ready, c)
  BY DispatchPlaced DEF PassAt
<1>2. SameLaunch(h, g)
  BY <1>1 DEF PassAt, SameLaunch
<1>3. c \in Nat /\ \A d \in Cu : d \in Nat
  BY GoldenAssumption DEF Cu
<1>4. a.ready \in [Cu -> Seq(Nat)] /\ a.ready[c] = g.ready[c]
  BY <1>3 DEF PassAt, GpuTypes
<1>5. ASSUME NEW d \in Cu
      PROVE  h.ready[d] = IF d < c + 1 THEN Drain(g.ready[d]) ELSE g.ready[d]
  <2>1. h.ready[d] = IF d = c THEN Drain(a.ready[c]) ELSE a.ready[d]
    <3>1. CASE a.ready[c] = << >>
      BY <1>1, <3>1 DEF Drained, Drain
    <3>2. CASE a.ready[c] # << >>
      BY <1>1, <1>4, <3>2 DEF Drained, Drain, Popped
    <3> QED BY <3>1, <3>2
  <2>2. a.ready[d] = IF d < c THEN Drain(g.ready[d]) ELSE g.ready[d]
    BY DEF PassAt
  <2>3. (d < c + 1 <=> d < c \/ d = c) /\ ~(c < c)
    BY <1>3
  <2>4. CASE d = c
    BY <1>4, <2>1, <2>3, <2>4
  <2>5. CASE d # c
    BY <2>1, <2>2, <2>3, <2>5
  <2> QED BY <2>4, <2>5
<1> QED BY <1>1, <1>2, <1>5 DEF PassAt

LEMMA PassCurrentStep ==
    ASSUME NEW g, NEW c \in Cu, NEW a, PassAt(a, g, c), PassCurrent(a, g), NEW h, h = DispatchOne(a, c)
    PROVE  PassCurrent(h, g)
<1>1. KeepsCurrent(h, a, {}) /\ FirstWave(h, a)
  BY DispatchCurrent DEF PassAt, PassCurrent, KeepsCurrent
<1>2. SameLaunch(a, g)
  BY DEF PassAt
<1>3. KeepsCurrent(h, g, {})
  BY <1>1, <1>2 DEF PassCurrent, KeepsCurrent, PastKept, SameLaunch
<1>4. FirstWave(h, g)
  BY <1>1, <1>2 DEF PassCurrent, FirstWave, SameLaunch
<1> QED BY <1>3, <1>4 DEF PassCurrent

LEMMA DispatchAllPlaced ==
    ASSUME NEW g, GpuTypes(g), Placed(g, {}), NEW h, h = DispatchAll(g)
    PROVE  /\ GpuTypes(h) /\ Placed(h, {}) /\ SameLaunch(h, g)
           /\ \A d \in Cu : h.ready[d] = Drain(g.ready[d])
           /\ Current(g, {}) => PassCurrent(h, g)
<1>1. PICK f : /\ DispatchAll(g) = f[NUM_CUS] /\ f[0] = g
               /\ \A c \in Cu : f[c + 1] = DispatchOne(f[c], c)
  BY DispatchLoop
<1>2. NUM_CUS \in Nat /\ \A d \in Cu : d \in Nat /\ d < NUM_CUS
  BY GoldenAssumption DEF Cu
<1> DEFINE T == {c \in 0 .. NUM_CUS : PassAt(f[c], g, c) /\ (Current(g, {}) => PassCurrent(f[c], g))}
<1>3. 0 \in T
  <2>1. PassAt(g, g, 0)
    BY <1>2 DEF PassAt, SameLaunch
  <2>2. Current(g, {}) => PassCurrent(g, g)
    BY DEF PassCurrent, KeepsCurrent, FirstWave, PastKept
  <2> QED BY <1>1, <1>2, <2>1, <2>2
<1>4. ASSUME NEW i \in 1 .. NUM_CUS, i - 1 \in T PROVE i \in T
  <2>1. PICK c : c = i - 1
    OBVIOUS
  <2>2. c \in Cu /\ c + 1 = i
    BY <1>2, <2>1 DEF Cu
  <2>3. PassAt(f[c], g, c) /\ (Current(g, {}) => PassCurrent(f[c], g))
    BY <1>4, <2>1
  <2>4. f[i] = DispatchOne(f[c], c)
    BY <1>1, <2>2
  <2>5. PassAt(f[i], g, i)
    BY <2>2, <2>3, <2>4, PassStep
  <2>6. Current(g, {}) => PassCurrent(f[i], g)
    BY <2>2, <2>3, <2>4, PassCurrentStep
  <2> QED BY <2>5, <2>6
<1>5. NUM_CUS \in T
  <2> HIDE DEF T
  <2>1. \A i \in 0 .. NUM_CUS : i \in T
    BY <1>2, <1>3, <1>4, Upwards
  <2> QED BY <1>2, <2>1
<1>6. PassAt(h, g, NUM_CUS) /\ (Current(g, {}) => PassCurrent(h, g))
  BY <1>1, <1>5
<1> QED BY <1>2, <1>6 DEF PassAt

(***************************************************************************)
(* The queues stay level                                                   *)
(***************************************************************************)
Level(ready) == \A c, d \in Cu : Len(ready[c]) <= Len(ready[d]) + 1

LEMMA DrainLevel ==
    ASSUME NEW r, NEW s, r \in [Cu -> Seq(Nat)], Level(r), \A d \in Cu : s[d] = Drain(r[d])
    PROVE  Level(s)
<1>1. ASSUME NEW d \in Cu
      PROVE  /\ Len(r[d]) \in Nat /\ Len(s[d]) \in Nat
             /\ (Len(r[d]) = 0 => Len(s[d]) = 0) /\ (Len(r[d]) # 0 => Len(s[d]) = Len(r[d]) - 1)
  <2>1. PICK q \in Seq(Nat) : q = r[d]
    OBVIOUS
  <2>2. s[d] = Drain(q) /\ (Len(q) = 0 <=> q = << >>) /\ Len(q) \in Nat
    BY <2>1
  <2>3. CASE q = << >>
    BY <2>1, <2>2, <2>3 DEF Drain
  <2>4. CASE q # << >>
    <3>1. Len(Tail(q)) = Len(q) - 1 /\ Len(q) \in Nat \ {0}
      BY <2>4, TailFacts
    <3>2. s[d] = Tail(q)
      BY <2>2, <2>4 DEF Drain
    <3> QED BY <2>1, <3>1, <3>2
  <2> QED BY <2>3, <2>4
<1>2. ASSUME NEW c \in Cu, NEW d \in Cu PROVE Len(s[c]) <= Len(s[d]) + 1
  <2>1. Len(r[c]) <= Len(r[d]) + 1
    BY DEF Level
  <2> QED BY <1>1, <2>1
<1> QED BY <1>2 DEF Level

\* With nothing queued a pass finds nothing to run.
LEMMA DispatchAllIdle ==
    ASSUME NEW g, SchedulerComplete(g)
    PROVE  DispatchAll(g) = g
<1>1. PICK f : /\ DispatchAll(g) = f[NUM_CUS] /\ f[0] = g
               /\ \A c \in Cu : f[c + 1] = DispatchOne(f[c], c)
  BY DispatchLoop
<1>2. NUM_CUS \in Nat
  BY GoldenAssumption
<1> DEFINE T == {c \in 0 .. NUM_CUS : f[c] = g}
<1>3. 0 \in T
  BY <1>1, <1>2
<1>4. ASSUME NEW i \in 1 .. NUM_CUS, i - 1 \in T PROVE i \in T
  <2>1. PICK c : c = i - 1
    OBVIOUS
  <2>2. c \in Cu /\ c + 1 = i /\ f[c] = g
    BY <1>2, <1>4, <2>1 DEF Cu
  <2>3. f[i] = DispatchOne(g, c)
    BY <1>1, <2>2
  <2> QED BY <2>2, <2>3 DEF DispatchOne, SchedulerComplete
<1>5. NUM_CUS \in T
  <2> HIDE DEF T
  <2>1. \A i \in 0 .. NUM_CUS : i \in T
    BY <1>2, <1>3, <1>4, Upwards
  <2> QED BY <1>2, <2>1
<1> QED BY <1>1, <1>5

(***************************************************************************)
(* A barrier that opens: its warps run on, one after another               *)
(***************************************************************************)
ResumeSteps(f, g, queue, n) ==
    [k \in 0 .. n |-> IF k = 0 THEN g ELSE ResumeOne(Once(f[k - 1]), queue[k])]

LEMMA ResumeLoopExists ==
    ASSUME NEW g, NEW queue, NEW n \in Nat
    PROVE  \E f : f = ResumeSteps(f, g, queue, n)
<1> DEFINE T == {k \in 0 .. n : \E f : f = ResumeSteps(f, g, queue, k)}
<1>1. 0 \in T
  <2>1. PICK f : f = [c \in 0 .. 0 |-> g]
    OBVIOUS
  <2>2. \A c \in 0 .. 0 : c = 0
    OBVIOUS
  <2>3. f = ResumeSteps(f, g, queue, 0)
    BY <2>1, <2>2 DEF ResumeSteps
  <2> QED BY <2>3
<1>2. ASSUME NEW k \in 1 .. n, k - 1 \in T PROVE k \in T
  <2>1. PICK f : f = ResumeSteps(f, g, queue, k - 1)
    BY <1>2
  <2>2. PICK h : h = [c \in 0 .. k |-> IF c = k THEN ResumeOne(Once(f[k - 1]), queue[k]) ELSE f[c]]
    OBVIOUS
  <2>3. \A c \in 0 .. k : c # k => c \in 0 .. k - 1 /\ h[c] = f[c]
    BY <2>2
  <2>4. ASSUME NEW c \in 0 .. k
        PROVE  h[c] = IF c = 0 THEN g ELSE ResumeOne(Once(h[c - 1]), queue[c])
    <3>1. c # 0 => c - 1 \in 0 .. k /\ c - 1 # k
      OBVIOUS
    <3>2. c # 0 => h[c - 1] = f[c - 1]
      BY <2>3, <3>1
    <3>3. CASE c = k
      <4>1. c # 0 /\ c \in 0 .. k /\ h[c] = ResumeOne(Once(f[k - 1]), queue[k])
        BY <2>2, <3>3
      <4> QED BY <3>2, <3>3, <4>1
    <3>4. CASE c # k
      <4>1. f[c] = IF c = 0 THEN g ELSE ResumeOne(Once(f[c - 1]), queue[c])
        BY <2>1, <2>3, <3>4 DEF ResumeSteps
      <4> QED BY <2>3, <3>2, <3>4, <4>1
    <3> QED BY <3>3, <3>4
  <2>5. h = ResumeSteps(h, g, queue, k)
    BY <2>2, <2>4 DEF ResumeSteps
  <2> QED BY <2>5
<1>3. n \in T
  <2> HIDE DEF T
  <2>1. \A i \in 1 .. n : i - 1 \in T => i \in T
    BY <1>2
  <2>2. \A i \in 0 .. n : i \in T
    BY <1>1, <2>1, Upwards
  <2> QED BY <2>2
<1> QED BY <1>3

LEMMA ResumeLoop ==
    ASSUME NEW g, NEW queue, IsSeq(queue)
    PROVE  \E f : /\ ResumeAll(g, queue) = f[Len(queue)] /\ f[0] = g
                  /\ \A k \in 1 .. Len(queue) : f[k] = ResumeOne(f[k - 1], queue[k])
<1>1. Len(queue) \in Nat
  BY DEF IsSeq
<1>2. PICK f : f = CHOOSE h : h = ResumeSteps(h, g, queue, Len(queue))
  OBVIOUS
<1>3. f = ResumeSteps(f, g, queue, Len(queue))
  BY <1>1, <1>2, ResumeLoopExists
<1>4. ResumeAll(g, queue) = f[Len(queue)]
  BY <1>2 DEF ResumeAll, ResumeSteps
<1>5. f[0] = g
  <2>1. 0 \in 0 .. Len(queue)
    BY <1>1
  <2> QED BY <1>3, <2>1 DEF ResumeSteps
<1>6. ASSUME NEW k \in 1 .. Len(queue) PROVE f[k] = ResumeOne(f[k - 1], queue[k])
  <2>1. k \in 0 .. Len(queue) /\ k # 0
    BY <1>1
  <2>2. f[k] = ResumeOne(Once(f[k - 1]), queue[k])
    BY <1>3, <2>1 DEF ResumeSteps
  <2> QED BY <2>2, OnceIsIt
<1> QED BY <1>4, <1>5, <1>6

\* The warps of the queue that the loop has not come to.
Rest(q, k) == {q[j].id : j \in k + 1 .. Len(q)}

Resumed(h, t, q, k) ==
    GpuTypes(h) /\ Placed(h, Rest(q, k)) /\ SameLaunch(h, t) /\ h.ready = t.ready

NextWave(h, pc, k) ==
    /\ TablesMatch(h)
    /\ Stalls(h.program, pc) => Len(h.barrier_queue) = k /\ AllAt(h, Stop(h.program, pc))
    /\ ~Stalls(h.program, pc) => h.barrier_queue = << >>

LEMMA RestFacts ==
    ASSUME NEW S, NEW q \in Seq(S), NEW k \in 1 .. Len(q),
           \A m, n \in DOMAIN q : q[m].id = q[n].id => m = n
    PROVE  q[k].id \in Rest(q, k - 1) /\ Rest(q, k - 1) \ {q[k].id} = Rest(q, k)
<1>1. Len(q) \in Nat /\ DOMAIN q = 1 .. Len(q) /\ k \in Nat \ {0}
  OBVIOUS
<1>2. (k - 1) + 1 = k /\ k \in k .. Len(q)
  BY <1>1
<1>3. \A j \in k .. Len(q) : j \in 1 .. Len(q) /\ (j = k \/ j \in k + 1 .. Len(q))
  BY <1>1
<1>4. \A j \in k + 1 .. Len(q) : j \in 1 .. Len(q) /\ j # k /\ j \in k .. Len(q)
  BY <1>1
<1>5. Rest(q, k - 1) = {q[j].id : j \in k .. Len(q)}
  BY <1>2 DEF Rest
<1>6. q[k].id \in Rest(q, k - 1)
  BY <1>2, <1>5
<1>7. \A v : v \in Rest(q, k - 1) /\ v # q[k].id => v \in Rest(q, k)
  BY <1>3, <1>5 DEF Rest
<1>8. \A v \in Rest(q, k) : v \in Rest(q, k - 1) /\ v # q[k].id
  BY <1>1, <1>4, <1>5 DEF Rest
<1> QED BY <1>6, <1>7, <1>8

LEMMA ResumedStep ==
    ASSUME NEW S, NEW q \in Seq(S), \A n \in DOMAIN q : WaitTypes(q[n]),
           \A m, n \in DOMAIN q : q[m].id = q[n].id => m = n,
           NEW t, NEW k \in 1 .. Len(q), NEW a, Resumed(a, t, q, k - 1),
           NEW h, h = ResumeOne(a, q[k])
    PROVE  Resumed(h, t, q, k)
<1>1. PICK sw, ctx, c, H : sw = q[k] /\ ctx = sw.ctx /\ c = sw.cu_id /\ H = Rest(q, k - 1)
  OBVIOUS
<1>2. CtxTypes(ctx) /\ ctx.warp = sw.id /\ c \in Cu
  BY <1>1 DEF WaitTypes, CtxTypes
<1>3. ctx.warp \in H /\ H \ {ctx.warp} = Rest(q, k)
  BY <1>1, <1>2, RestFacts
<1>4. h = RunWarp(a, c, ctx)
  BY <1>1 DEF ResumeOne
<1>5. GpuTypes(a) /\ Placed(a, H) /\ SameLaunch(a, t) /\ a.ready = t.ready
  BY <1>1 DEF Resumed
<1>6. GpuTypes(h) /\ Placed(h, H \ {ctx.warp})
  <2>1. GpuTypes(RunWarp(a, c, ctx)) /\ Placed(RunWarp(a, c, ctx), H \ {ctx.warp})
    <3> HIDE <1>1
    <3> QED BY <1>2, <1>3, <1>5, RunWarpPlaced
  <2> QED BY <1>4, <2>1
<1>7. SameLaunch(h, a) /\ h.ready = a.ready
  BY <1>2, <1>4, <1>5, RunWarpFields
<1> QED BY <1>3, <1>5, <1>6, <1>7 DEF Resumed, SameLaunch

\* k of the warps that waited at pc have run on, none to its end if there is another barrier.
OnceMore(h, t, q, k, pc) ==
    /\ Current(h, Rest(q, k)) /\ PastKept(h, t) /\ NextWave(h, pc, k)
    /\ Stalls(t.program, pc) => \A e \in h.ended : e.launch # t.launch

LEMMA OnceMoreStep ==
    ASSUME NEW S, NEW q \in Seq(S), \A n \in DOMAIN q : WaitTypes(q[n]),
           \A m, n \in DOMAIN q : q[m].id = q[n].id => m = n,
           NEW t, NEW k \in 1 .. Len(q), NEW a, Resumed(a, t, q, k - 1),
           NEW h, h = ResumeOne(a, q[k]), OfLaunch(t, q[k].ctx), NEW pc, pc = q[k].ctx.pc,
           OnceMore(a, t, q, k - 1, pc)
    PROVE  OnceMore(h, t, q, k, pc)
<1>1. PICK sw, ctx, c, H : sw = q[k] /\ ctx = sw.ctx /\ c = sw.cu_id /\ H = Rest(q, k - 1)
  OBVIOUS
<1>2. CtxTypes(ctx) /\ ctx.warp = sw.id /\ c \in Cu
  BY <1>1 DEF WaitTypes, CtxTypes
<1>3. ctx.warp \in H /\ H \ {ctx.warp} = Rest(q, k)
  BY <1>1, <1>2, RestFacts
<1>4. h = RunWarp(a, c, ctx)
  BY <1>1 DEF ResumeOne
<1>5. GpuTypes(a) /\ SameLaunch(a, t)
  BY DEF Resumed
<1>6. SameLaunch(h, a)
  BY <1>2, <1>4, <1>5, RunWarpFields
<1>7. OfLaunch(a, ctx) /\ a.program = t.program /\ h.program = t.program /\ h.launch = t.launch
  BY <1>1, <1>5, <1>6 DEF OfLaunch, SameLaunch
<1>8. RanCurrent(h, a, pc, H \ {ctx.warp})
  <2>1. Current(a, H) /\ pc = ctx.pc
    BY <1>1 DEF OnceMore
  <2>2. RanCurrent(h, a, ctx.pc, H \ {ctx.warp})
    BY <1>2, <1>3, <1>4, <1>5, <1>7, <2>1, RunWarpCurrent
  <2> QED BY <2>1, <2>2
<1>9. Current(h, Rest(q, k)) /\ PastKept(h, a) /\ TablesMatch(h)
  BY <1>3, <1>8 DEF RanCurrent, KeepsCurrent, NextWave, OnceMore
<1>10. PastKept(h, t)
  BY <1>5, <1>9 DEF PastKept, OnceMore, SameLaunch
<1>11. CASE Stalls(t.program, pc)
  <2>1. /\ Len(h.barrier_queue) = Len(a.barrier_queue) + 1 /\ Len(a.barrier_queue) = k - 1
        /\ AllAt(h, Stop(t.program, pc))
    BY <1>7, <1>8, <1>11 DEF RanCurrent, NextWave, OnceMore
  <2>2. Len(h.barrier_queue) = k
    BY <2>1
  <2> QED BY <1>7, <1>9, <1>10, <1>11, <2>1, <2>2 DEF NextWave, AllAt, OnceMore
<1>12. CASE ~Stalls(t.program, pc)
  BY <1>7, <1>8, <1>9, <1>10, <1>12 DEF RanCurrent, NextWave, OnceMore
<1> QED BY <1>11, <1>12

\* The barrier has opened and none of its warps has run.
Opened(g) == [ClearBarrier(g, g.barrier_queue[1].bid) EXCEPT !.barrier_queue = << >>]

LEMMA OpenedFields ==
    ASSUME NEW g, GpuTypes(g), g.barrier_queue # << >>, NEW t, t = Opened(g)
    PROVE  /\ GpuTypes(t) /\ SameLaunch(t, g) /\ t.ready = g.ready /\ t.ended = g.ended
           /\ t.started = g.started /\ t.barrier_queue = << >>
           /\ \A c \in Cu, b \in BarrierId :
                t.barrier_table[c][b] = IF b = g.barrier_queue[1].bid THEN {} ELSE g.barrier_table[c][b]
<1>1. PICK bid : bid = g.barrier_queue[1].bid
  OBVIOUS
<1>2. PICK table : table = [c \in Cu |-> [g.barrier_table[c] EXCEPT ![bid] = {}]]
  OBVIOUS
<1>3. t = [program |-> g.program, kernel |-> g.kernel, start_warp |-> g.start_warp,
           offset |-> g.offset, total_warps |-> g.total_warps, ready |-> g.ready,
           next_warp |-> g.next_warp, event |-> g.event, in_loop |-> g.in_loop,
           barrier_queue |-> << >>, barrier_table |-> table,
           mem |-> g.mem, instructions |-> g.instructions, launch |-> g.launch,
           started |-> g.started, ended |-> g.ended, pass |-> g.pass]
  <2>1. ClearBarrier(g, bid) = [g EXCEPT !.barrier_table = table]
    BY <1>2 DEF ClearBarrier
  <2>2. t = [[g EXCEPT !.barrier_table = table] EXCEPT !.barrier_queue = << >>]
    BY <1>1, <2>1 DEF Opened
  <2> QED BY <2>2 DEF GpuTypes, IsGpu
<1>4. PICK N : N = 0 .. g.next_warp - 1
  OBVIOUS
<1>5. g.barrier_table \in [Cu -> [BarrierId -> SUBSET N]]
  BY <1>4 DEF GpuTypes
<1>6. \A c \in Cu : /\ table[c] \in [BarrierId -> SUBSET N]
                    /\ \A b \in BarrierId : table[c][b] = IF b = bid THEN {} ELSE g.barrier_table[c][b]
  BY <1>2, <1>5
<1>7. table \in [Cu -> [BarrierId -> SUBSET N]]
  BY <1>2, <1>6
<1>8. /\ IsGpu(t) /\ SameLaunch(t, g) /\ t.ready = g.ready /\ t.ended = g.ended
      /\ t.started = g.started /\ t.barrier_queue = << >> /\ t.barrier_table = table
  BY <1>3 DEF IsGpu, SameLaunch
<1>9. IsSeq(t.barrier_queue) /\ DOMAIN t.barrier_queue = {}
  BY <1>8 DEF IsSeq
<1>10. t.barrier_table \in [Cu -> [BarrierId -> SUBSET (0 .. t.next_warp - 1)]]
  BY <1>4, <1>7, <1>8 DEF SameLaunch
<1>11. GpuTypes(t)
  BY <1>8, <1>9, <1>10 DEF GpuTypes, SameLaunch
<1> QED BY <1>1, <1>6, <1>8, <1>11

LEMMA OpenedPlaced ==
    ASSUME NEW g, GpuTypes(g), Placed(g, {}), g.barrier_queue # << >>, NEW t, t = Opened(g)
    PROVE  Resumed(t, t, g.barrier_queue, 0) /\ Rest(g.barrier_queue, 0) = Waiting(g)
<1>1. /\ GpuTypes(t) /\ SameLaunch(t, g) /\ t.ready = g.ready /\ t.ended = g.ended
      /\ t.started = g.started /\ t.barrier_queue = << >>
  BY OpenedFields
<1>2. DOMAIN t.barrier_queue = {} /\ DOMAIN g.barrier_queue = 0 + 1 .. Len(g.barrier_queue)
  BY <1>1 DEF GpuTypes, IsSeq
<1>3. Rest(g.barrier_queue, 0) = Waiting(g)
  BY <1>2 DEF Rest, Waiting
<1>4. Waiting(t) = {} /\ Gone(t) = Gone(g) /\ Queued(t) = Queued(g)
  BY <1>1, <1>2 DEF Waiting, Gone, Queued
<1>5. Placed(t, Waiting(g))
  <2>1. QueuesOnce(t) /\ BarrierOnce(t) /\ EndedOnce(t)
    BY <1>1, <1>2 DEF Placed, QueuesOnce, BarrierOnce, EndedOnce
  <2>2. Apart(t, Waiting(g))
    BY <1>1, <1>4 DEF Placed, Apart, SameLaunch
  <2>3. StartedOnce(t, Waiting(g))
    BY <1>1, <1>4 DEF Placed, StartedOnce
  <2> QED BY <2>1, <2>2, <2>3 DEF Placed
<1>6. SameLaunch(t, t)
  BY DEF SameLaunch
<1> QED BY <1>1, <1>3, <1>5, <1>6 DEF Resumed

LEMMA ResumeAllPlaced ==
    ASSUME NEW g, GpuTypes(g), Placed(g, {}), g.barrier_queue # << >>,
           NEW h, h = ResumeAll(Opened(g), g.barrier_queue)
    PROVE  GpuTypes(h) /\ Placed(h, {}) /\ SameLaunch(h, g) /\ h.ready = g.ready
<1>1. PICK t, q, S : t = Opened(g) /\ q = g.barrier_queue /\ q \in Seq(S)
  BY DEF GpuTypes, IsSeq
<1>2. PICK f : /\ ResumeAll(t, q) = f[Len(q)] /\ f[0] = t
               /\ \A k \in 1 .. Len(q) : f[k] = ResumeOne(f[k - 1], q[k])
  BY <1>1, ResumeLoop DEF IsSeq
<1>3. /\ \A n \in DOMAIN q : WaitTypes(q[n])
      /\ \A m, n \in DOMAIN q : q[m].id = q[n].id => m = n
  BY <1>1 DEF GpuTypes, Placed, BarrierOnce
<1>4. Len(q) \in Nat
  BY <1>1
<1> DEFINE T == {k \in 0 .. Len(q) : Resumed(f[k], t, q, k)}
<1>5. 0 \in T
  BY <1>1, <1>2, <1>4, OpenedPlaced
<1>6. ASSUME NEW k \in 1 .. Len(q), k - 1 \in T PROVE k \in T
  <2>1. f[k] = ResumeOne(f[k - 1], q[k]) /\ Resumed(f[k - 1], t, q, k - 1)
    BY <1>2, <1>6
  <2>2. Resumed(f[k], t, q, k)
    BY <1>1, <1>3, <2>1, ResumedStep
  <2> QED BY <2>2
<1>7. Len(q) \in T
  <2> HIDE DEF T
  <2>1. \A i \in 0 .. Len(q) : i \in T
    BY <1>4, <1>5, <1>6, Upwards
  <2> QED BY <1>4, <2>1
<1>8. Resumed(h, t, q, Len(q))
  BY <1>1, <1>2, <1>7
<1>9. Rest(q, Len(q)) = {}
  BY <1>4 DEF Rest
<1>10. SameLaunch(t, g) /\ t.ready = g.ready
  BY <1>1, OpenedFields
<1> QED BY <1>8, <1>9, <1>10 DEF Resumed, SameLaunch

(***************************************************************************)
(* For a host that waits, the warps of a barrier all are at one place      *)
(***************************************************************************)
LEMMA OpenedCurrent ==
    ASSUME NEW g, GpuTypes(g), Placed(g, {}), Current(g, {}), TablesMatch(g),
           NEW pc, AllAt(g, pc), g.barrier_queue # << >>, NEW t, t = Opened(g)
    PROVE  Current(t, Waiting(g)) /\ TablesMatch(t) /\ AllAt(t, Stop(t.program, pc))
<1>1. /\ SameLaunch(t, g) /\ t.ready = g.ready /\ t.ended = g.ended /\ t.barrier_queue = << >>
      /\ \A c \in Cu, b \in BarrierId :
           t.barrier_table[c][b] = IF b = g.barrier_queue[1].bid THEN {} ELSE g.barrier_table[c][b]
  BY OpenedFields
<1>2. PICK q, S : q = g.barrier_queue /\ q \in Seq(S)
  BY DEF GpuTypes, IsSeq
<1>3. DOMAIN t.barrier_queue = {} /\ DOMAIN q = 1 .. Len(q) /\ Len(q) \in Nat /\ Len(q) # 0
  BY <1>1, <1>2
<1>4. Waiting(t) = {} /\ Queued(t) = Queued(g)
  BY <1>1, <1>3 DEF Waiting, Queued
<1>5. Current(t, Waiting(g))
  <2>1. EndedRight(t)
    BY <1>1 DEF Current, EndedRight, SameLaunch
  <2> QED BY <1>1, <1>3, <1>4, <2>1 DEF Current, SameLaunch
<1>6. \A n \in DOMAIN q : q[n].bid = q[1].bid
  <2>1. \A n \in DOMAIN q : q[n].bid = g.program[pc].imm
    BY <1>2 DEF GpuTypes, WaitTypes, AllAt, Current, OfLaunch
  <2> QED BY <1>3, <2>1
<1>7. \A x \in ToSet(q) : x.bid = q[1].bid
  BY <1>6 DEF ToSet
<1>8. ASSUME NEW c \in Cu, NEW b \in BarrierId PROVE t.barrier_table[c][b] = {}
  <2>1. CASE b = q[1].bid
    BY <1>1, <1>2, <2>1
  <2>2. CASE b # q[1].bid
    <3>1. t.barrier_table[c][b] = {x.id : x \in {y \in ToSet(q) : y.cu_id = c /\ y.bid = b}}
      BY <1>1, <1>2, <2>2 DEF TablesMatch
    <3> QED BY <1>7, <2>2, <3>1
  <2> QED BY <2>1, <2>2
<1>9. ToSet(t.barrier_queue) = {}
  BY <1>3 DEF ToSet
<1>10. TablesMatch(t)
  BY <1>8, <1>9 DEF TablesMatch
<1>11. AllAt(t, Stop(t.program, pc))
  BY <1>1, <1>3 DEF AllAt, SameLaunch
<1> QED BY <1>5, <1>10, <1>11

LEMMA ResumeAllCurrent ==
    ASSUME NEW g, GpuTypes(g), Placed(g, {}), Current(g, {}), TablesMatch(g),
           NEW pc, AllAt(g, pc), g.barrier_queue # << >>,
           NEW h, h = ResumeAll(Opened(g), g.barrier_queue)
    PROVE  Current(h, {}) /\ PastKept(h, g) /\ NextWave(h, pc, Len(g.barrier_queue))
<1>1. PICK t, q, S : t = Opened(g) /\ q = g.barrier_queue /\ q \in Seq(S)
  BY DEF GpuTypes, IsSeq
<1>2. PICK f : /\ ResumeAll(t, q) = f[Len(q)] /\ f[0] = t
               /\ \A k \in 1 .. Len(q) : f[k] = ResumeOne(f[k - 1], q[k])
  BY <1>1, ResumeLoop DEF IsSeq
<1>3. /\ \A n \in DOMAIN q : WaitTypes(q[n])
      /\ \A m, n \in DOMAIN q : q[m].id = q[n].id => m = n
  BY <1>1 DEF GpuTypes, Placed, BarrierOnce
<1>4. Len(q) \in Nat /\ DOMAIN q = 1 .. Len(q)
  BY <1>1
<1>5. SameLaunch(t, g) /\ t.ended = g.ended /\ t.barrier_queue = << >>
  BY <1>1, OpenedFields
<1>6. \A n \in DOMAIN q : q[n].ctx.pc = pc /\ OfLaunch(t, q[n].ctx)
  BY <1>1, <1>5 DEF AllAt, Current, OfLaunch, SameLaunch
<1> DEFINE T == {k \in 0 .. Len(q) : Resumed(f[k], t, q, k) /\ OnceMore(f[k], t, q, k, pc)}
<1>7. 0 \in T
  <2>1. Resumed(t, t, q, 0) /\ Rest(q, 0) = Waiting(g)
    BY <1>1, OpenedPlaced
  <2>2. Current(t, Waiting(g)) /\ TablesMatch(t) /\ AllAt(t, Stop(t.program, pc))
    BY <1>1, OpenedCurrent
  <2>3. NextWave(t, pc, 0)
    BY <1>5, <2>2 DEF NextWave
  <2>4. PastKept(t, t) /\ \A e \in t.ended : e.launch # t.launch
    BY <2>2 DEF PastKept, AllAt
  <2> QED BY <1>2, <1>4, <2>1, <2>2, <2>3, <2>4 DEF OnceMore
<1>8. ASSUME NEW k \in 1 .. Len(q), k - 1 \in T PROVE k \in T
  <2>1. PICK a, h1 : a = f[k - 1] /\ h1 = f[k]
    OBVIOUS
  <2>2. h1 = ResumeOne(a, q[k]) /\ Resumed(a, t, q, k - 1) /\ OnceMore(a, t, q, k - 1, pc)
    BY <1>2, <1>8, <2>1
  <2>3. pc = q[k].ctx.pc /\ OfLaunch(t, q[k].ctx)
    BY <1>4, <1>6
  <2>4. Resumed(h1, t, q, k)
    BY <1>1, <1>3, <2>2, ResumedStep
  <2>5. OnceMore(h1, t, q, k, pc)
    BY <1>1, <1>3, <2>2, <2>3, OnceMoreStep
  <2> QED BY <2>1, <2>4, <2>5
<1>9. Len(q) \in T
  <2> HIDE DEF T
  <2>1. \A i \in 0 .. Len(q) : i \in T
    BY <1>4, <1>7, <1>8, Upwards
  <2> QED BY <1>4, <2>1
<1>10. h = f[Len(q)] /\ Rest(q, Len(q)) = {}
  BY <1>1, <1>2, <1>4 DEF Rest
<1>11. PastKept(h, g)
  BY <1>5, <1>9, <1>10 DEF PastKept, SameLaunch, OnceMore
<1> QED BY <1>1, <1>9, <1>10, <1>11 DEF OnceMore

LEMMA BarrierPlaced ==
    ASSUME NEW g, GpuTypes(g), Placed(g, {}), NEW h, h = GlobalBarrier(g)
    PROVE  GpuTypes(h) /\ Placed(h, {}) /\ SameLaunch(h, g) /\ h.ready = g.ready
<1>1. CASE BarrierFires(g)
  <2>1. g.barrier_queue # << >> /\ h = ResumeAll(Opened(g), g.barrier_queue)
    BY <1>1 DEF GlobalBarrier, BarrierFires, Opened
  <2> QED BY <2>1, ResumeAllPlaced
<1>2. CASE ~BarrierFires(g)
  BY <1>2 DEF GlobalBarrier, SameLaunch
<1> QED BY <1>1, <1>2

(***************************************************************************)
(* Where the warps of a launch are, for a host that waits: on their way to *)
(* the first stop, all at one barrier, or all ended.                       *)
(***************************************************************************)
ToFirst(g) ==
    /\ Stalls(g.program, 0) => AllAt(g, Stop(g.program, 0))
    /\ ~Stalls(g.program, 0) => g.barrier_queue = << >>

AtBarrier(g) ==
    /\ SchedulerComplete(g) /\ Len(g.barrier_queue) = g.total_warps
    /\ \E pc : AllAt(g, pc)

Over(g) == SchedulerComplete(g) /\ g.barrier_queue = << >>

Wave(g) == ToFirst(g) \/ AtBarrier(g) \/ Over(g)

OneLaunch(g) == Current(g, {}) /\ TablesMatch(g) /\ Wave(g)

LEMMA DispatchWave ==
    ASSUME NEW g, GpuTypes(g), Placed(g, {}), OneLaunch(g), NEW h, h = DispatchAll(g)
    PROVE  OneLaunch(h) /\ PastKept(h, g)
<1>1. SameLaunch(h, g) /\ PassCurrent(h, g)
  BY DispatchAllPlaced DEF OneLaunch
<1>2. Current(h, {}) /\ TablesMatch(h) /\ PastKept(h, g) /\ FirstWave(h, g)
  BY <1>1 DEF PassCurrent, KeepsCurrent, OneLaunch
<1>3. CASE ToFirst(g)
  BY <1>1, <1>2, <1>3 DEF ToFirst, FirstWave, SameLaunch, OneLaunch, Wave
<1>4. CASE AtBarrier(g) \/ Over(g)
  <2>1. h = g
    BY <1>4, DispatchAllIdle DEF AtBarrier, Over
  <2> QED BY <1>2, <2>1 DEF OneLaunch
<1> QED BY <1>3, <1>4 DEF OneLaunch, Wave

LEMMA BarrierWave ==
    ASSUME NEW g, GpuTypes(g), Placed(g, {}), OneLaunch(g), NEW h, h = GlobalBarrier(g)
    PROVE  OneLaunch(h) /\ PastKept(h, g)
<1>1. CASE ~BarrierFires(g)
  BY <1>1 DEF GlobalBarrier, PastKept
<1>2. CASE BarrierFires(g)
  <2>1. /\ g.barrier_queue # << >> /\ h = ResumeAll(Opened(g), g.barrier_queue)
        /\ SchedulerComplete(g) /\ Len(g.barrier_queue) = g.total_warps
    BY <1>2 DEF GlobalBarrier, BarrierFires, Opened
  <2>2. PICK pc : AllAt(g, pc)
    BY <2>1 DEF OneLaunch, Wave, ToFirst, AtBarrier, Over
  <2>3. Current(h, {}) /\ PastKept(h, g) /\ NextWave(h, pc, Len(g.barrier_queue))
    <3>1. Current(g, {}) /\ TablesMatch(g)
      BY DEF OneLaunch
    <3> QED BY <2>1, <2>2, <3>1, ResumeAllCurrent
  <2>4. SameLaunch(h, g) /\ h.ready = g.ready
    BY BarrierPlaced
  <2>5. SchedulerComplete(h)
    BY <2>1, <2>4 DEF SchedulerComplete
  <2>6. CASE Stalls(h.program, pc)
    BY <2>1, <2>3, <2>4, <2>5, <2>6 DEF NextWave, OneLaunch, Wave, AtBarrier, SameLaunch
  <2>7. CASE ~Stalls(h.program, pc)
    BY <2>3, <2>5, <2>7 DEF NextWave, OneLaunch, Wave, Over
  <2> QED BY <2>3, <2>6, <2>7
<1> QED BY <1>1, <1>2

(***************************************************************************)
(* One activation of simulationProcess()                                   *)
(***************************************************************************)
\* Only the process's own flags differ.
SameWarps(h, g) ==
    /\ IsGpu(h) /\ h.program = g.program /\ h.kernel = g.kernel /\ h.start_warp = g.start_warp
    /\ h.offset = g.offset /\ h.total_warps = g.total_warps /\ h.next_warp = g.next_warp
    /\ h.launch = g.launch /\ h.ready = g.ready /\ h.started = g.started /\ h.ended = g.ended
    /\ h.barrier_queue = g.barrier_queue /\ h.barrier_table = g.barrier_table

\* The loop has nothing left to do when it waits for the next launch.
IdleIsOver(g) == ~g.event /\ ~g.in_loop => Over(g)

GpuInv(g) == GpuTypes(g) /\ Placed(g, {}) /\ Level(g.ready) /\ IdleIsOver(g)

SameShare(h, g) ==
    /\ h.start_warp = g.start_warp /\ h.offset = g.offset /\ h.total_warps = g.total_warps
    /\ h.next_warp = g.next_warp /\ h.launch = g.launch

LEMMA FlagsOnly ==
    ASSUME NEW g, NEW h, SameWarps(h, g)
    PROVE  /\ GpuTypes(g) => GpuTypes(h)
           /\ Placed(g, {}) => Placed(h, {})
           /\ OneLaunch(g) => OneLaunch(h)
           /\ PastKept(h, g) /\ SameShare(h, g)
<1>1. Queued(h) = Queued(g) /\ Waiting(h) = Waiting(g) /\ Gone(h) = Gone(g)
  BY DEF SameWarps, Queued, Waiting, Gone
<1>2. GpuTypes(g) => GpuTypes(h)
  BY DEF SameWarps, GpuTypes
<1>3. Placed(g, {}) => Placed(h, {})
  <2>1. /\ QueuesOnce(g) => QueuesOnce(h)
        /\ BarrierOnce(g) => BarrierOnce(h)
        /\ EndedOnce(g) => EndedOnce(h)
    BY DEF SameWarps, QueuesOnce, BarrierOnce, EndedOnce
  <2>2. /\ Apart(g, {}) => Apart(h, {})
        /\ StartedOnce(g, {}) => StartedOnce(h, {})
    BY <1>1 DEF SameWarps, Apart, StartedOnce
  <2> QED BY <2>1, <2>2 DEF Placed
<1>4. OneLaunch(g) => OneLaunch(h)
  <2>1. \A pc : AllAt(g, pc) => AllAt(h, pc)
    BY DEF SameWarps, AllAt
  <2>2. /\ EndedRight(g) => EndedRight(h)
        /\ TablesMatch(g) => TablesMatch(h)
        /\ SchedulerComplete(g) => SchedulerComplete(h)
    BY DEF SameWarps, EndedRight, TablesMatch, SchedulerComplete
  <2>3. Current(g, {}) => Current(h, {})
    BY <1>1, <2>2 DEF SameWarps, Current, OfLaunch
  <2>4. ToFirst(g) => ToFirst(h)
    BY <2>1 DEF SameWarps, ToFirst
  <2>5. AtBarrier(g) => AtBarrier(h)
    BY <2>1, <2>2 DEF SameWarps, AtBarrier
  <2>6. Over(g) => Over(h)
    BY <2>2 DEF SameWarps, Over
  <2> QED BY <2>2, <2>3, <2>4, <2>5, <2>6 DEF OneLaunch, Wave
<1>5. PastKept(h, g) /\ SameShare(h, g)
  BY DEF SameWarps, PastKept, SameShare
<1> QED BY <1>2, <1>3, <1>4, <1>5

FlagsSet(s, g, e, l) == s = [g EXCEPT !.event = e, !.in_loop = l]
PassSet(h, s, p) == h = [s EXCEPT !.pass = p]

LEMMA SetFlags ==
    ASSUME NEW g, IsGpu(g), NEW e, NEW l, NEW p,
           NEW s, FlagsSet(s, g, e, l), NEW h, PassSet(h, s, p)
    PROVE  SameWarps(h, g) /\ h.event = e /\ h.in_loop = l
<1>1. h = [program |-> g.program, kernel |-> g.kernel, start_warp |-> g.start_warp,
           offset |-> g.offset, total_warps |-> g.total_warps, ready |-> g.ready,
           next_warp |-> g.next_warp, event |-> e, in_loop |-> l,
           barrier_queue |-> g.barrier_queue, barrier_table |-> g.barrier_table,
           mem |-> g.mem, instructions |-> g.instructions, launch |-> g.launch,
           started |-> g.started, ended |-> g.ended, pass |-> p]
  BY DEF IsGpu, FlagsSet, PassSet
<1> QED BY <1>1 DEF SameWarps, IsGpu

LEMMA ActivateFacts ==
    ASSUME NEW g, GpuInv(g), NEW s, s = SimulationStep(g), NEW p, NEW h, PassSet(h, s, p)
    PROVE  /\ GpuInv(h) /\ SameShare(h, g)
           /\ OneLaunch(g) => OneLaunch(h) /\ PastKept(h, g)
<1>1. CASE Over(g)
  <2>1. s = [g EXCEPT !.event = FALSE, !.in_loop = FALSE]
    BY <1>1 DEF SimulationStep, Over
  <2>2. SameWarps(h, g)
    <3>1. PICK no : no = FALSE
      OBVIOUS
    <3>2. FlagsSet(s, g, no, no) /\ IsGpu(g)
      BY <2>1, <3>1 DEF GpuInv, GpuTypes, FlagsSet
    <3> QED BY <3>2, SetFlags
  <2>3. GpuInv(h)
    BY <1>1, <2>2, FlagsOnly DEF GpuInv, SameWarps, IdleIsOver, Over, SchedulerComplete
  <2> QED BY <2>2, <2>3, FlagsOnly
<1>2. CASE ~Over(g)
  <2>1. PICK d, b : d = DispatchAll(g) /\ b = GlobalBarrier(d)
    OBVIOUS
  <2>2. LoopPass(g) = b
    <3>1. Once(DispatchAll(g)) = d
      BY <2>1, OnceIsIt
    <3> QED BY <2>1, <3>1 DEF LoopPass
  <2>3. /\ GpuTypes(d) /\ Placed(d, {}) /\ SameLaunch(d, g)
        /\ \A c \in Cu : d.ready[c] = Drain(g.ready[c])
    BY <2>1, DispatchAllPlaced DEF GpuInv
  <2>4. GpuTypes(b) /\ Placed(b, {}) /\ SameLaunch(b, d) /\ b.ready = d.ready
    BY <2>1, <2>3, BarrierPlaced
  <2>5. Level(b.ready)
    <3>1. g.ready \in [Cu -> Seq(Nat)] /\ Level(g.ready)
      BY DEF GpuInv, GpuTypes
    <3>2. Level(d.ready)
      BY <2>3, <3>1, DrainLevel
    <3> QED BY <2>4, <3>2
  <2>6. s = [b EXCEPT !.event = FALSE, !.in_loop = TRUE]
    BY <1>2, <2>2 DEF SimulationStep, Over
  <2>7. PICK no, yes : no = FALSE /\ yes = TRUE
    OBVIOUS
  <2>8. SameWarps(h, b) /\ h.in_loop = TRUE
    <3>1. FlagsSet(s, b, no, yes) /\ IsGpu(b)
      BY <2>4, <2>6, <2>7 DEF GpuTypes, FlagsSet
    <3>2. SameWarps(h, b) /\ h.in_loop = yes
      BY <3>1, SetFlags
    <3> QED BY <2>7, <3>2
  <2>9. GpuInv(h)
    BY <2>4, <2>5, <2>8, FlagsOnly DEF GpuInv, SameWarps, IdleIsOver
  <2>10. SameShare(h, g)
    BY <2>3, <2>4, <2>8, FlagsOnly DEF SameShare, SameLaunch
  <2>11. ASSUME OneLaunch(g) PROVE OneLaunch(h) /\ PastKept(h, g)
    <3>1. OneLaunch(d) /\ PastKept(d, g)
      BY <2>1, <2>11, DispatchWave DEF GpuInv
    <3>2. OneLaunch(b) /\ PastKept(b, d)
      BY <2>1, <2>3, <3>1, BarrierWave
    <3>3. OneLaunch(h) /\ PastKept(h, b)
      BY <2>8, <3>2, FlagsOnly
    <3> QED BY <2>3, <2>4, <3>1, <3>2, <3>3 DEF PastKept, SameLaunch
  <2> QED BY <2>9, <2>10, <2>11
<1> QED BY <1>1, <1>2

\* Before its first stop a program that waits there has no other barrier.
LEMMA FirstBarrier ==
    ASSUME NEW p \in Programs, Stalls(p, 0)
    PROVE  SelectInSeq(p, LAMBDA x : x.op = "BARRIER") = Stop(p, 0)
<1>1. IsSeq(p)
  BY LibraryPrograms DEF IsProgram
<1>2. Len(p) \in Nat
  BY <1>1 DEF IsSeq
<1>3. PICK s : s = Stop(p, 0)
  OBVIOUS
<1>4. /\ s \in 0 + 1 .. Len(p) /\ p[s].op \in {"BARRIER", "HALT"} /\ p[s].op # "HALT"
      /\ \A i \in 0 + 1 .. Len(p) : p[i].op \in {"BARRIER", "HALT"} => s <= i
  BY <1>1, <1>3, StopFacts DEF Stalls
<1> DEFINE I == {i \in 1 .. Len(p) : p[i].op = "BARRIER"}
<1>5. SelectInSeq(p, LAMBDA x : x.op = "BARRIER") = IF I # {} THEN Min(I) ELSE 0
  BY DEF SelectInSeq, SelectInSubSeq
<1>6. s \in I /\ \A i \in I : s <= i
  BY <1>2, <1>4
<1>7. Min(I) = s
  <2>1. I \in SUBSET Nat
    BY <1>2
  <2>2. Min(I) \in I /\ \A y \in I : Min(I) <= y
    <3> HIDE DEF I
    <3> QED BY <1>6, <2>1, MinOfSet
  <2>3. Min(I) <= s /\ s <= Min(I) /\ s \in Nat /\ Min(I) \in Nat
    <3> HIDE DEF I
    <3> QED BY <1>6, <2>1, <2>2
  <2> QED
    <3> HIDE DEF I
    <3> QED BY <2>3
<1> QED BY <1>3, <1>5, <1>6, <1>7

LEMMA NoneOvertakes ==
    ASSUME NEW g, GpuTypes(g), OneLaunch(g), NEW q, q = g.barrier_queue, q # << >>
    PROVE  /\ \A e \in g.ended : e.launch # g.launch
           /\ \A n \in DOMAIN q : q[n].ctx.pc = q[1].ctx.pc
           /\ q[1].ctx.pc # SelectInSeq(g.program, LAMBDA x : x.op = "BARRIER")
                => Len(q) = g.total_warps
<1>1. 1 \in DOMAIN q
  BY DEF GpuTypes, IsSeq
<1>2. CASE ToFirst(g)
  <2>1. Stalls(g.program, 0) /\ AllAt(g, Stop(g.program, 0))
    BY <1>2 DEF ToFirst
  <2>2. SelectInSeq(g.program, LAMBDA x : x.op = "BARRIER") = Stop(g.program, 0)
    BY <2>1, FirstBarrier DEF GpuTypes
  <2> QED BY <1>1, <2>1, <2>2 DEF AllAt
<1>3. CASE AtBarrier(g)
  BY <1>1, <1>3 DEF AtBarrier, AllAt
<1> QED BY <1>2, <1>3 DEF OneLaunch, Wave, Over

LEMMA Monotone ==
    ASSUME NEW a \in Nat, NEW b \in Nat, NEW n \in Nat, a <= b
    PROVE  a * n <= b * n
  OBVIOUS

LEMMA NextMultiple ==
    ASSUME NEW a \in Nat, NEW n \in Nat
    PROVE  (a + 1) * n = a * n + n
  OBVIOUS

LEMMA DivMod ==
    ASSUME NEW x \in Nat, NEW n \in Nat \ {0}
    PROVE  /\ x \div n \in Nat /\ x % n \in 0 .. n - 1
           /\ x = (x \div n) * n + (x % n)
  OBVIOUS

LEMMA DivUnique ==
    ASSUME NEW n \in Nat \ {0}, NEW q \in Nat, NEW t \in 0 .. n - 1, NEW x, x = q * n + t
    PROVE  x \in Nat /\ x \div n = q /\ x % n = t
<1>1. x \in Nat
  OBVIOUS
<1>2. PICK p, r : p = x \div n /\ r = x % n
  OBVIOUS
<1>3. p \in Nat /\ r \in 0 .. n - 1 /\ x = p * n + r
  BY <1>1, <1>2, DivMod
<1>4. ~(p < q)
  <2> SUFFICES ASSUME p < q PROVE FALSE
    OBVIOUS
  <2>1. (p + 1) * n <= q * n
    BY <1>3, Monotone
  <2> QED BY <1>3, <2>1, NextMultiple
<1>5. ~(q < p)
  <2> SUFFICES ASSUME q < p PROVE FALSE
    OBVIOUS
  <2>1. (q + 1) * n <= p * n
    BY <1>3, Monotone
  <2> QED BY <1>3, <2>1, NextMultiple
<1>6. p = q
  BY <1>3, <1>4, <1>5
<1> QED BY <1>1, <1>2, <1>3, <1>6

(***************************************************************************)
(* The ready queues by themselves                                          *)
(***************************************************************************)
Queues == [Cu -> Seq(Nat)]

InReady(r, w) == \E c \in Cu : w \in ToSet(r[c])

ReadyOnce(r) ==
    /\ \A c \in Cu : IsInjective(r[c])
    /\ \A c, d \in Cu : c # d => ToSet(r[c]) \cap ToSet(r[d]) = {}

\* generateWarps()
DealSteps(f, ready, first, n) ==
    [i \in 0 .. n |-> IF i = 0 THEN ready
                      ELSE [f[i - 1] EXCEPT ![(i - 1) % NUM_CUS] = Append(@, first + i - 1)]]

LEMMA DealLoopExists ==
    ASSUME NEW ready \in Queues, NEW first \in Nat, NEW n \in Nat
    PROVE  \E f : f = DealSteps(f, ready, first, n)
<1> DEFINE step == [i \in 1 .. n |-> [r \in Queues |->
                        [r EXCEPT ![(i - 1) % NUM_CUS] = Append(@, first + i - 1)]]]
<1>1. step \in [1 .. n -> [Queues -> Queues]]
  <2>1. ASSUME NEW i \in 1 .. n, NEW r \in Queues
        PROVE  [r EXCEPT ![(i - 1) % NUM_CUS] = Append(@, first + i - 1)] \in Queues
    <3>1. PICK c, e : c = (i - 1) % NUM_CUS /\ e = first + i - 1
      OBVIOUS
    <3>2. e \in Nat
      BY <3>1
    <3>3. \A d \in Cu : Append(r[d], e) \in Seq(Nat)
      BY <3>2 DEF Queues
    <3>4. [r EXCEPT ![c] = Append(@, e)] \in Queues
      BY <3>3 DEF Queues
    <3> QED BY <3>1, <3>4
  <2> QED BY <2>1
<1>2. PICK f \in [0 .. n -> Queues] : f[0] = ready /\ \A i \in 1 .. n : f[i] = step[i][f[i - 1]]
  <2> HIDE DEF step
  <2> QED BY <1>1, LoopExists
<1>3. ASSUME NEW i \in 1 .. n
      PROVE  f[i] = [f[i - 1] EXCEPT ![(i - 1) % NUM_CUS] = Append(@, first + i - 1)]
  <2>1. i - 1 \in 0 .. n
    OBVIOUS
  <2> QED BY <1>2, <2>1
<1>4. f = DealSteps(f, ready, first, n)
  <2>1. \A i \in 0 .. n : i # 0 => i \in 1 .. n
    OBVIOUS
  <2>2. \A i \in 0 .. n : f[i] = DealSteps(f, ready, first, n)[i]
    <3> HIDE DEF step
    <3> QED BY <1>2, <1>3, <2>1 DEF DealSteps
  <2> QED BY <2>2 DEF DealSteps
<1> QED BY <1>4

Dealing(f, ready, first, total) ==
    /\ f[0] = ready
    /\ \A i \in 0 .. total - 1 : f[i + 1] = [f[i] EXCEPT ![i % NUM_CUS] = Append(@, first + i)]

LEMMA DealLoop ==
    ASSUME NEW ready \in Queues, NEW first \in Nat, NEW total \in Nat
    PROVE  \E f : Dealt(ready, first, total) = f[total] /\ Dealing(f, ready, first, total)
<1>1. PICK f : f = CHOOSE h : h = DealSteps(h, ready, first, total)
  OBVIOUS
<1>2. f = DealSteps(f, ready, first, total)
  BY <1>1, DealLoopExists
<1>3. Dealt(ready, first, total) = f[total]
  BY <1>1 DEF Dealt, DealSteps
<1>4. f[0] = ready
  <2>1. 0 \in 0 .. total
    OBVIOUS
  <2> QED BY <1>2, <2>1 DEF DealSteps
<1>5. ASSUME NEW i \in 0 .. total - 1
      PROVE  f[i + 1] = [f[i] EXCEPT ![i % NUM_CUS] = Append(@, first + i)]
  <2>1. i + 1 \in 0 .. total /\ i + 1 # 0 /\ (i + 1) - 1 = i /\ first + (i + 1) - 1 = first + i
    OBVIOUS
  <2>2. f[i + 1] = [f[(i + 1) - 1] EXCEPT ![((i + 1) - 1) % NUM_CUS] = Append(@, first + (i + 1) - 1)]
    BY <1>2, <2>1 DEF DealSteps
  <2> QED BY <2>1, <2>2
<1> QED BY <1>3, <1>4, <1>5 DEF Dealing

\* Every CU has been dealt q warps, those below t one more.
EvenDeal(r, ready, q, t) ==
    \A c \in Cu : /\ c < t => Len(r[c]) = Len(ready[c]) + q + 1
                  /\ ~(c < t) => Len(r[c]) = Len(ready[c]) + q

\* i warps have been dealt.
DealtAt(r, ready, first, i) ==
    /\ r \in Queues /\ ReadyOnce(r)
    /\ \A w : InReady(r, w) <=> InReady(ready, w) \/ w \in first .. first + i - 1
    /\ \E q \in Nat, t \in Cu : i = q * NUM_CUS + t /\ EvenDeal(r, ready, q, t)

LEMMA DealStep ==
    ASSUME NEW ready \in Queues, NEW first \in Nat, \A w : InReady(ready, w) => w < first,
           NEW i \in Nat, NEW r, DealtAt(r, ready, first, i),
           NEW s, s = [r EXCEPT ![i % NUM_CUS] = Append(@, first + i)]
    PROVE  DealtAt(s, ready, first, i + 1)
<1>1. PICK q \in Nat, t \in Cu : i = q * NUM_CUS + t /\ EvenDeal(r, ready, q, t)
  BY DEF DealtAt
<1>2. NUM_CUS \in Nat \ {0} /\ Cu = 0 .. NUM_CUS - 1
  BY GoldenAssumption DEF Cu
<1>3. i % NUM_CUS = t
  BY <1>1, <1>2, DivUnique
<1>4. r \in Queues /\ ReadyOnce(r)
  BY DEF DealtAt
<1>5. PICK e, a : e = first + i /\ a = Append(r[t], e)
  OBVIOUS
<1>6. e \in Nat /\ r[t] \in Seq(Nat)
  BY <1>4, <1>5 DEF Queues
<1>7. Appended(a, r[t], Nat, e)
  BY <1>5, <1>6, AppendFacts
<1>8. /\ a \in Seq(Nat) /\ Len(a) = Len(r[t]) + 1 /\ ToSet(a) = ToSet(r[t]) \cup {e}
      /\ IsInjective(r[t]) /\ e \notin ToSet(r[t]) => IsInjective(a)
  BY <1>6, <1>7 DEF Appended
<1>9. s = [r EXCEPT ![t] = a]
  BY <1>3, <1>5
<1>10. s \in Queues /\ \A c \in Cu : s[c] = IF c = t THEN a ELSE r[c]
  BY <1>4, <1>8, <1>9 DEF Queues
<1>11. ~InReady(r, e)
  <2>1. InReady(r, e) => InReady(ready, e) \/ e \in first .. first + i - 1
    BY DEF DealtAt
  <2>2. InReady(ready, e) => e < first
    OBVIOUS
  <2> QED BY <1>5, <2>1, <2>2
<1>12. ReadyOnce(s)
  <2>1. \A c \in Cu : e \notin ToSet(r[c]) /\ IsInjective(r[c])
    BY <1>4, <1>11 DEF InReady, ReadyOnce
  <2>2. \A c \in Cu : IsInjective(s[c])
    BY <1>8, <1>10, <2>1
  <2>3. \A c, d \in Cu : c # d => ToSet(r[c]) \cap ToSet(r[d]) = {}
    BY <1>4 DEF ReadyOnce
  <2>4. ToSet(s[t]) = ToSet(r[t]) \cup {e} /\ \A c \in Cu : c # t => ToSet(s[c]) = ToSet(r[c])
    BY <1>8, <1>10
  <2>5. ASSUME NEW c \in Cu, NEW d \in Cu, c # d PROVE ToSet(s[c]) \cap ToSet(s[d]) = {}
    <3>1. ToSet(r[c]) \cap ToSet(r[d]) = {} /\ e \notin ToSet(r[c]) /\ e \notin ToSet(r[d])
      BY <2>1, <2>3, <2>5
    <3>2. CASE c = t
      BY <2>4, <2>5, <3>1, <3>2
    <3>3. CASE d = t
      BY <2>4, <2>5, <3>1, <3>3
    <3>4. CASE c # t /\ d # t
      BY <2>4, <3>1, <3>4
    <3> QED BY <3>2, <3>3, <3>4
  <2> QED BY <2>2, <2>5 DEF ReadyOnce
<1>13. ASSUME NEW w PROVE InReady(s, w) <=> InReady(ready, w) \/ w \in first .. first + (i + 1) - 1
  <2>1. InReady(s, w) <=> InReady(r, w) \/ w = e
    BY <1>8, <1>10 DEF InReady
  <2>2. InReady(r, w) <=> InReady(ready, w) \/ w \in first .. first + i - 1
    BY DEF DealtAt
  <2>3. w \in first .. first + (i + 1) - 1 <=> w \in first .. first + i - 1 \/ w = e
    BY <1>5
  <2> QED BY <2>1, <2>2, <2>3
<1>14. \E q1 \in Nat, t1 \in Cu : i + 1 = q1 * NUM_CUS + t1 /\ EvenDeal(s, ready, q1, t1)
  <2>1. ASSUME NEW c \in Cu
        PROVE  /\ Len(ready[c]) \in Nat /\ c \in Nat /\ c <= NUM_CUS - 1
               /\ c < t + 1 => Len(s[c]) = Len(ready[c]) + q + 1
               /\ ~(c < t + 1) => Len(s[c]) = Len(ready[c]) + q
    <3>0. ready[c] \in Seq(Nat)
      BY DEF Queues
    <3>1. PICK m, l, n : m = Len(ready[c]) /\ l = Len(r[c]) /\ n = Len(s[c])
      OBVIOUS
    <3>6. m \in Nat
      BY <3>0, <3>1
    <3>2. (c < t => l = m + q + 1) /\ (~(c < t) => l = m + q)
      BY <1>1, <3>1 DEF EvenDeal
    <3>3. (c = t => n = l + 1) /\ (c # t => n = l)
      BY <1>8, <1>10, <3>1
    <3>4. c \in Nat /\ t \in Nat /\ c <= NUM_CUS - 1
      BY <1>2
    <3>5. (c < t + 1 => n = m + q + 1) /\ (~(c < t + 1) => n = m + q)
      BY <3>2, <3>3, <3>4, <3>6
    <3> QED BY <3>1, <3>4, <3>5, <3>6
  <2>2. CASE t + 1 < NUM_CUS
    <3>1. t + 1 \in Cu /\ i + 1 = q * NUM_CUS + (t + 1)
      BY <1>1, <1>2, <2>2
    <3>2. EvenDeal(s, ready, q, t + 1)
      BY <2>1 DEF EvenDeal
    <3> QED BY <3>1, <3>2
  <2>3. CASE ~(t + 1 < NUM_CUS)
    <3>1. t + 1 = NUM_CUS /\ 0 \in Cu
      BY <1>2, <2>3
    <3>2. (q + 1) * NUM_CUS = q * NUM_CUS + NUM_CUS
      BY <1>2, NextMultiple
    <3>3. PICK m : m = q * NUM_CUS
      OBVIOUS
    <3>4. m \in Nat /\ i = m + t /\ (q + 1) * NUM_CUS = m + NUM_CUS
      BY <1>1, <1>2, <3>2, <3>3
    <3>5. i + 1 = (q + 1) * NUM_CUS + 0
      BY <1>2, <3>1, <3>4
    <3>6. ASSUME NEW c \in Cu PROVE c < t + 1 /\ ~(c < 0) /\ Len(s[c]) = Len(ready[c]) + (q + 1)
      <4>1. c < t + 1 /\ ~(c < 0)
        BY <1>2, <3>1
      <4>2. Len(s[c]) = Len(ready[c]) + q + 1 /\ Len(ready[c]) \in Nat
        BY <2>1, <4>1
      <4>3. PICK l \in Nat : l = Len(ready[c])
        BY <4>2
      <4>4. l + q + 1 = l + (q + 1)
        OBVIOUS
      <4> QED BY <4>1, <4>2, <4>3, <4>4
    <3>7. EvenDeal(s, ready, q + 1, 0)
      BY <3>6 DEF EvenDeal
    <3> QED BY <3>1, <3>5, <3>7
  <2> QED BY <2>2, <2>3
<1> QED BY <1>10, <1>12, <1>13, <1>14 DEF DealtAt

LEMMA DealtFacts ==
    ASSUME NEW ready \in Queues, ReadyOnce(ready), NEW first \in Nat, \A w : InReady(ready, w) => w < first,
           NEW total \in Nat
    PROVE  DealtAt(Dealt(ready, first, total), ready, first, total)
<1>1. PICK f : Dealt(ready, first, total) = f[total] /\ Dealing(f, ready, first, total)
  BY DealLoop
<1> DEFINE T == {i \in 0 .. total : DealtAt(f[i], ready, first, i)}
<1>2. 0 \in T
  <2>1. NUM_CUS \in Nat \ {0} /\ 0 \in Cu
    BY GoldenAssumption DEF Cu
  <2>2. EvenDeal(ready, ready, 0, 0)
    <3>1. \A c \in Cu : Len(ready[c]) \in Nat /\ c \in Nat
      BY DEF Cu, Queues
    <3> QED BY <3>1 DEF EvenDeal
  <2>3. 0 = 0 * NUM_CUS + 0
    BY <2>1
  <2>4. \A w : w \notin first .. first + 0 - 1
    OBVIOUS
  <2>5. DealtAt(ready, ready, first, 0)
    BY <2>1, <2>2, <2>3, <2>4 DEF DealtAt
  <2> QED BY <1>1, <2>5 DEF Dealing
<1>3. ASSUME NEW j \in 1 .. total, j - 1 \in T PROVE j \in T
  <2>1. PICK i : i = j - 1
    OBVIOUS
  <2>2. i \in 0 .. total - 1 /\ i \in Nat /\ j = i + 1
    BY <2>1
  <2>3. DealtAt(f[i], ready, first, i) /\ f[j] = [f[i] EXCEPT ![i % NUM_CUS] = Append(@, first + i)]
    BY <1>1, <1>3, <2>1, <2>2 DEF Dealing
  <2>4. DealtAt(f[j], ready, first, i + 1)
    BY <2>2, <2>3, DealStep
  <2> QED BY <2>2, <2>4
<1>4. total \in T
  <2> HIDE DEF T
  <2>1. \A i \in 0 .. total : i \in T
    BY <1>2, <1>3, Upwards
  <2> QED BY <2>1
<1> QED BY <1>1, <1>4

(***************************************************************************)
(* balanceLoadAcrossUnits()                                                *)
(***************************************************************************)
Between(r, m) == \A c \in Cu : Len(r[c]) \in m .. m + 2

High(r, m) == {c \in Cu : Len(r[c]) = m + 2}

LEMMA ShortestFacts ==
    ASSUME NEW r \in Queues
    PROVE  Shortest(r) \in Cu /\ \A d \in Cu : Len(r[Shortest(r)]) <= Len(r[d])
<1>1. \A c \in Cu : Len(r[c]) \in Nat /\ c \in Nat
  BY DEF Queues, Cu
<1>2. 0 \in Cu
  BY GoldenAssumption DEF Cu
<1> DEFINE L == {Len(r[c]) : c \in Cu}
<1>3. PICK l \in L : \A k \in L : l <= k
  <2>1. L \in SUBSET Nat /\ L # {}
    BY <1>1, <1>2
  <2> HIDE DEF L
  <2> QED BY <2>1, LeastNatural
<1> DEFINE A == {c \in Cu : Len(r[c]) = l}
<1>4. PICK a \in A : \A d \in A : a <= d
  <2>1. A \in SUBSET Nat /\ A # {}
    BY <1>1, <1>3
  <2> HIDE DEF A
  <2> QED BY <2>1, LeastNatural
<1>5. \A d \in Cu : \/ Len(r[d]) > Len(r[a])
                    \/ Len(r[d]) = Len(r[a]) /\ a <= d
  <2> SUFFICES ASSUME NEW d \in Cu, ~(Len(r[d]) > Len(r[a]))
               PROVE  Len(r[d]) = Len(r[a]) /\ a <= d
    OBVIOUS
  <2>1. Len(r[a]) = l /\ l <= Len(r[d])
    BY <1>3, <1>4
  <2>2. Len(r[d]) = l
    BY <1>1, <2>1
  <2> QED BY <1>4, <2>1, <2>2
<1>6. a \in Cu
  BY <1>4
<1>7. /\ Shortest(r) \in Cu
      /\ \A d \in Cu : \/ Len(r[d]) > Len(r[Shortest(r)])
                       \/ Len(r[d]) = Len(r[Shortest(r)]) /\ Shortest(r) <= d
  BY <1>5, <1>6 DEF Shortest
<1> QED BY <1>1, <1>7

LEMMA LongestFacts ==
    ASSUME NEW r \in Queues, NEW m \in Nat, Between(r, m)
    PROVE  Longest(r) \in Cu /\ \A d \in Cu : Len(r[d]) <= Len(r[Longest(r)])
<1>1. \A c \in Cu : Len(r[c]) \in Nat /\ c \in Nat /\ Len(r[c]) <= m + 2
  BY DEF Queues, Cu, Between
<1>2. 0 \in Cu
  BY GoldenAssumption DEF Cu
<1> DEFINE L == {m + 2 - Len(r[c]) : c \in Cu}
<1>3. PICK l \in L : \A k \in L : l <= k
  <2>1. L \in SUBSET Nat
    <3>1. ASSUME NEW c \in Cu PROVE m + 2 - Len(r[c]) \in Nat
      <4>1. PICK x : x = Len(r[c])
        OBVIOUS
      <4>2. x \in Nat /\ x <= m + 2
        BY <1>1, <4>1
      <4>3. m + 2 - x \in Nat
        BY <4>2
      <4> QED BY <4>1, <4>3
    <3> QED BY <3>1
  <2>2. L # {}
    BY <1>2
  <2> HIDE DEF L
  <2> QED BY <2>1, <2>2, LeastNatural
<1> DEFINE A == {c \in Cu : m + 2 - Len(r[c]) = l}
<1>4. PICK a \in A : \A d \in A : a <= d
  <2>1. A \in SUBSET Nat /\ A # {}
    BY <1>1, <1>3
  <2> HIDE DEF A
  <2> QED BY <2>1, LeastNatural
<1>5. \A d \in Cu : \/ Len(r[d]) < Len(r[a])
                    \/ Len(r[d]) = Len(r[a]) /\ a <= d
  <2> SUFFICES ASSUME NEW d \in Cu, ~(Len(r[d]) < Len(r[a]))
               PROVE  Len(r[d]) = Len(r[a]) /\ a <= d
    OBVIOUS
  <2>1. a \in Cu /\ m + 2 - Len(r[a]) = l /\ l <= m + 2 - Len(r[d])
    BY <1>3, <1>4
  <2>2. Len(r[d]) = Len(r[a]) /\ m + 2 - Len(r[d]) = l
    <3>1. PICK x, y : x = Len(r[a]) /\ y = Len(r[d])
      OBVIOUS
    <3>2. x \in Nat /\ y \in Nat /\ ~(y < x) /\ m + 2 - x = l /\ l <= m + 2 - y
      BY <1>1, <2>1, <3>1
    <3>3. x = y
      BY <3>2
    <3> QED BY <3>1, <3>2, <3>3
  <2> QED BY <1>4, <2>1, <2>2
<1>6. a \in Cu
  BY <1>4
<1>7. /\ Longest(r) \in Cu
      /\ \A d \in Cu : \/ Len(r[d]) < Len(r[Longest(r)])
                       \/ Len(r[d]) = Len(r[Longest(r)]) /\ Longest(r) <= d
  BY <1>5, <1>6 DEF Longest
<1> QED BY <1>1, <1>7

\* A warp moves from a CU with two more than another, or all are level.
Moved(s, r, m) ==
    /\ Between(s, m)
    /\ \E c \in High(r, m) : High(s, m) = High(r, m) \ {c}

Kept(s, r) == s \in Queues /\ ReadyOnce(s) /\ \A w : InReady(s, w) <=> InReady(r, w)

LEMMA BalanceStep ==
    ASSUME NEW r \in Queues, ReadyOnce(r), NEW m \in Nat, Between(r, m),
           NEW s, s = BalanceOnce(r)
    PROVE  Kept(s, r) /\ (Moved(s, r, m) \/ (s = r /\ Level(r)))
<1>1. PICK from, to : from = Longest(r) /\ to = Shortest(r)
  OBVIOUS
<1>2. /\ from \in Cu /\ \A d \in Cu : Len(r[d]) <= Len(r[from])
      /\ to \in Cu /\ \A d \in Cu : Len(r[to]) <= Len(r[d])
  BY <1>1, LongestFacts, ShortestFacts
<1>3. \A c \in Cu : r[c] \in Seq(Nat) /\ Len(r[c]) \in Nat
  BY DEF Queues
<1>4. s = IF Len(r[from]) > Len(r[to]) + 1
            THEN [r EXCEPT ![from] = Tail(@), ![to] = Append(@, Head(r[from]))]
            ELSE r
  BY <1>1 DEF BalanceOnce
<1>5. CASE ~(Len(r[from]) > Len(r[to]) + 1)
  <2>1. ASSUME NEW c \in Cu, NEW d \in Cu PROVE Len(r[c]) <= Len(r[d]) + 1
    <3>1. PICK x, y, i, j : x = Len(r[c]) /\ y = Len(r[from]) /\ i = Len(r[to]) /\ j = Len(r[d])
      OBVIOUS
    <3>2. x <= y /\ i <= j
      BY <1>2, <3>1
    <3>3. x \in Nat /\ y \in Nat /\ i \in Nat /\ j \in Nat
      BY <1>2, <1>3, <3>1
    <3>4. ~(y > i + 1)
      BY <1>5, <3>1
    <3>5. x <= j + 1
      BY <3>2, <3>3, <3>4
    <3> QED BY <3>1, <3>5
  <2> QED BY <1>4, <1>5, <2>1 DEF Level, Kept
<1>6. CASE Len(r[from]) > Len(r[to]) + 1
  <2>1. PICK w, t, a : w = Head(r[from]) /\ t = Tail(r[from]) /\ a = Append(r[to], w)
    OBVIOUS
  <2>2. s = [r EXCEPT ![from] = t, ![to] = a]
    <3>1. from # to
      BY <1>2, <1>3, <1>6
    <3> QED BY <1>4, <1>6, <2>1, <3>1
  <2>3. from # to /\ r[from] # << >>
    BY <1>2, <1>3, <1>6
  <2>4. IsInjective(r[from]) /\ IsInjective(r[to])
    BY <1>2 DEF ReadyOnce
  <2>5. /\ w \in Nat /\ w \in ToSet(r[from]) /\ t \in Seq(Nat) /\ Len(t) = Len(r[from]) - 1
        /\ IsInjective(t) /\ ToSet(t) = ToSet(r[from]) \ {w}
    BY <1>2, <1>3, <2>1, <2>3, <2>4, TailFacts
  <2>6. w \notin ToSet(r[to])
    BY <1>2, <2>3, <2>5 DEF ReadyOnce
  <2>7. a \in Seq(Nat) /\ Len(a) = Len(r[to]) + 1 /\ ToSet(a) = ToSet(r[to]) \cup {w} /\ IsInjective(a)
    <3>1. Appended(a, r[to], Nat, w)
      BY <1>2, <1>3, <2>1, AppendFacts
    <3> QED BY <2>4, <2>5, <2>6, <3>1 DEF Appended
  <2>8. /\ s \in Queues /\ s[from] = t /\ s[to] = a
        /\ \A c \in Cu : c # from /\ c # to => s[c] = r[c]
    BY <1>2, <2>2, <2>3, <2>5, <2>7 DEF Queues
  <2>9. ReadyOnce(s)
    <3>1. \A c \in Cu : IsInjective(s[c])
      BY <2>5, <2>7, <2>8 DEF ReadyOnce
    <3>2. ASSUME NEW c \in Cu, NEW d \in Cu, c # d PROVE ToSet(s[c]) \cap ToSet(s[d]) = {}
      <4>1. ToSet(r[c]) \cap ToSet(r[d]) = {}
        BY <3>2 DEF ReadyOnce
      <4>2. \A e \in Cu : e # from => w \notin ToSet(r[e])
        BY <1>2, <2>5 DEF ReadyOnce
      <4>3. \A e \in Cu : \A v : v \in ToSet(s[e]) => v \in ToSet(r[e]) \/ (v = w /\ e = to)
        BY <2>5, <2>7, <2>8
      <4>4. \A e \in Cu : e # to => w \notin ToSet(s[e])
        BY <2>5, <2>8, <4>2
      <4> QED BY <3>2, <4>1, <4>3, <4>4
    <3> QED BY <3>1, <3>2 DEF ReadyOnce
  <2>10. ASSUME NEW v PROVE InReady(s, v) <=> InReady(r, v)
    <3>1. ASSUME NEW e \in Cu, v \in ToSet(s[e]) PROVE InReady(r, v)
      <4>1. v \in ToSet(r[e]) \/ v \in ToSet(r[from])
        BY <2>5, <2>7, <2>8, <3>1
      <4> QED BY <1>2, <4>1 DEF InReady
    <3>2. ASSUME NEW e \in Cu, v \in ToSet(r[e]) PROVE InReady(s, v)
      <4>1. v \in ToSet(s[e]) \/ v \in ToSet(s[to])
        BY <2>5, <2>7, <2>8, <3>2
      <4> QED BY <1>2, <4>1 DEF InReady
    <3> QED BY <3>1, <3>2 DEF InReady
  <2>11. /\ Len(r[from]) = m + 2 /\ Len(r[to]) = m
         /\ Len(s[from]) = m + 1 /\ Len(s[to]) = m + 1
    <3>1. Len(r[from]) \in m .. m + 2 /\ Len(r[to]) \in m .. m + 2
      BY <1>2 DEF Between
    <3>2. Len(r[from]) = m + 2 /\ Len(r[to]) = m
      BY <1>6, <3>1
    <3> QED BY <2>5, <2>7, <2>8, <3>2
  <2>12. Between(s, m)
    <3>1. m + 1 \in m .. m + 2
      OBVIOUS
    <3> QED BY <2>8, <2>11, <3>1 DEF Between
  <2>13. High(s, m) = High(r, m) \ {from} /\ from \in High(r, m)
    <3>1. m + 1 # m + 2 /\ m # m + 2
      OBVIOUS
    <3> QED BY <1>2, <2>8, <2>11, <3>1 DEF High
  <2> QED BY <2>8, <2>9, <2>10, <2>12, <2>13 DEF Kept, Moved
<1> QED BY <1>5, <1>6

BalanceSteps(f, ready, n) ==
    [k \in 0 .. n |-> IF k = 0 THEN ready ELSE BalanceOnce(Once(f[k - 1]))]

LEMMA BalanceLoopExists ==
    ASSUME NEW ready, NEW n \in Nat
    PROVE  \E f : f = BalanceSteps(f, ready, n)
<1> DEFINE T == {k \in 0 .. n : \E f : f = BalanceSteps(f, ready, k)}
<1>1. 0 \in T
  <2>1. PICK f : f = [c \in 0 .. 0 |-> ready]
    OBVIOUS
  <2>2. \A c \in 0 .. 0 : c = 0
    OBVIOUS
  <2>3. f = BalanceSteps(f, ready, 0)
    BY <2>1, <2>2 DEF BalanceSteps
  <2> QED BY <2>3
<1>2. ASSUME NEW k \in 1 .. n, k - 1 \in T PROVE k \in T
  <2>1. PICK f : f = BalanceSteps(f, ready, k - 1)
    BY <1>2
  <2>2. PICK h : h = [c \in 0 .. k |-> IF c = k THEN BalanceOnce(Once(f[k - 1])) ELSE f[c]]
    OBVIOUS
  <2>3. \A c \in 0 .. k : c # k => c \in 0 .. k - 1 /\ h[c] = f[c]
    BY <2>2
  <2>4. ASSUME NEW c \in 0 .. k
        PROVE  h[c] = IF c = 0 THEN ready ELSE BalanceOnce(Once(h[c - 1]))
    <3>1. c # 0 => c - 1 \in 0 .. k /\ c - 1 # k
      OBVIOUS
    <3>2. c # 0 => h[c - 1] = f[c - 1]
      BY <2>3, <3>1
    <3>3. CASE c = k
      <4>1. c # 0 /\ c \in 0 .. k /\ h[c] = BalanceOnce(Once(f[k - 1]))
        BY <2>2, <3>3
      <4> QED BY <3>2, <3>3, <4>1
    <3>4. CASE c # k
      <4>1. f[c] = IF c = 0 THEN ready ELSE BalanceOnce(Once(f[c - 1]))
        BY <2>1, <2>3, <3>4 DEF BalanceSteps
      <4> QED BY <2>3, <3>2, <3>4, <4>1
    <3> QED BY <3>3, <3>4
  <2>5. h = BalanceSteps(h, ready, k)
    BY <2>2, <2>4 DEF BalanceSteps
  <2> QED BY <2>5
<1>3. n \in T
  <2> HIDE DEF T
  <2>1. \A i \in 1 .. n : i - 1 \in T => i \in T
    BY <1>2
  <2>2. \A i \in 0 .. n : i \in T
    BY <1>1, <2>1, Upwards
  <2> QED BY <2>2
<1> QED BY <1>3

Balancing(f, ready, n) == f[0] = ready /\ \A k \in 1 .. n : f[k] = BalanceOnce(f[k - 1])

LEMMA BalanceLoop ==
    ASSUME NEW ready, NEW n \in Nat
    PROVE  \E f : Balanced(ready, n) = f[n] /\ Balancing(f, ready, n)
<1>1. PICK f : f = CHOOSE h : h = BalanceSteps(h, ready, n)
  OBVIOUS
<1>2. f = BalanceSteps(f, ready, n)
  BY <1>1, BalanceLoopExists
<1>3. Balanced(ready, n) = f[n]
  BY <1>1 DEF Balanced, BalanceSteps
<1>4. f[0] = ready
  <2>1. 0 \in 0 .. n
    OBVIOUS
  <2> QED BY <1>2, <2>1 DEF BalanceSteps
<1>5. ASSUME NEW k \in 1 .. n PROVE f[k] = BalanceOnce(f[k - 1])
  <2>1. k \in 0 .. n /\ k # 0
    OBVIOUS
  <2>2. f[k] = BalanceOnce(Once(f[k - 1]))
    BY <1>2, <2>1 DEF BalanceSteps
  <2> QED BY <2>2, OnceIsIt
<1> QED BY <1>3, <1>4, <1>5 DEF Balancing

\* Every CU at m + 2 has a warp of its own at the head of its queue.
LEMMA HighBound ==
    ASSUME NEW r \in Queues, ReadyOnce(r), NEW m \in Nat, NEW n \in Nat,
           \A w : InReady(r, w) => w \in 0 .. n - 1
    PROVE  IsFiniteSet(High(r, m)) /\ Cardinality(High(r, m)) <= n
<1>1. ASSUME NEW c \in High(r, m) PROVE Head(r[c]) \in ToSet(r[c]) /\ c \in Cu
  <2>1. c \in Cu /\ r[c] \in Seq(Nat) /\ Len(r[c]) = m + 2
    BY DEF High, Queues
  <2>2. r[c] # << >>
    BY <2>1
  <2> QED BY <2>1, <2>2, TailFacts
<1>2. PICK f : f = [c \in High(r, m) |-> Head(r[c])]
  OBVIOUS
<1>3. f \in [High(r, m) -> 0 .. n - 1]
  BY <1>1, <1>2 DEF InReady
<1>4. \A c, d \in High(r, m) : f[c] = f[d] => c = d
  BY <1>1, <1>2 DEF ReadyOnce
<1>5. f \in Injection(High(r, m), 0 .. n - 1)
  BY <1>3, <1>4 DEF Injection, IsInjective
<1>6. IsFiniteSet(0 .. n - 1) /\ Cardinality(0 .. n - 1) = n
  <2>1. 0 \in Int /\ n - 1 \in Int
    OBVIOUS
  <2>2. /\ IsFiniteSet(0 .. n - 1)
        /\ Cardinality(0 .. n - 1) = IF 0 > n - 1 THEN 0 ELSE (n - 1) - 0 + 1
    BY <2>1, FS_Interval
  <2>3. (0 > n - 1 => n = 0) /\ (n - 1) - 0 + 1 = n
    OBVIOUS
  <2> QED BY <2>2, <2>3
<1>7. IsFiniteSet(High(r, m)) /\ Cardinality(High(r, m)) <= Cardinality(0 .. n - 1)
  BY <1>5, <1>6, FS_Injection
<1>8. Cardinality(High(r, m)) \in Nat /\ Cardinality(0 .. n - 1) \in Nat
  BY <1>6, <1>7, FS_CardinalityType
<1> QED BY <1>6, <1>7, <1>8

\* k steps have been made: the queues are level, or k CUs have come down.
BalanceAt(s, r, m, k) ==
    /\ Kept(s, r) /\ Between(s, m)
    /\ IsFiniteSet(High(s, m))
    /\ Level(s) \/ Cardinality(High(s, m)) + k <= Cardinality(High(r, m))

LEMMA BalancedFacts ==
    ASSUME NEW r \in Queues, ReadyOnce(r), NEW m \in Nat, Between(r, m), NEW n \in Nat,
           \A w : InReady(r, w) => w \in 0 .. n - 1
    PROVE  Kept(Balanced(r, n), r) /\ Level(Balanced(r, n))
<1>1. PICK f : Balanced(r, n) = f[n] /\ Balancing(f, r, n)
  BY BalanceLoop
<1>2. IsFiniteSet(High(r, m)) /\ Cardinality(High(r, m)) <= n
  BY HighBound
<1>3. Cardinality(High(r, m)) \in Nat
  BY <1>2, FS_CardinalityType
<1> DEFINE T == {k \in 0 .. n : BalanceAt(f[k], r, m, k)}
<1>4. 0 \in T
  <2>1. Kept(r, r)
    BY DEF Kept
  <2> QED BY <1>1, <1>2, <1>3, <2>1 DEF BalanceAt, Balancing
<1>5. ASSUME NEW k \in 1 .. n, k - 1 \in T PROVE k \in T
  <2>1. PICK a, s : a = f[k - 1] /\ s = f[k]
    OBVIOUS
  <2>2. BalanceAt(a, r, m, k - 1) /\ s = BalanceOnce(a)
    BY <1>1, <1>5, <2>1 DEF Balancing
  <2>3. a \in Queues /\ ReadyOnce(a) /\ Between(a, m) /\ \A w : InReady(a, w) <=> InReady(r, w)
    BY <2>2 DEF BalanceAt, Kept
  <2>4. Kept(s, a) /\ (Moved(s, a, m) \/ (s = a /\ Level(a)))
    BY <2>2, <2>3, BalanceStep
  <2>5. Kept(s, r)
    BY <2>3, <2>4 DEF Kept
  <2>6. CASE s = a /\ Level(a)
    <3>1. BalanceAt(s, r, m, k)
      BY <2>2, <2>5, <2>6 DEF BalanceAt
    <3> QED BY <2>1, <3>1
  <2>7. CASE Moved(s, a, m)
    <3>1. PICK c \in High(a, m) : High(s, m) = High(a, m) \ {c}
      BY <2>7 DEF Moved
    <3>2. IsFiniteSet(High(a, m))
      BY <2>2 DEF BalanceAt
    <3>3. IsFiniteSet(High(s, m)) /\ Cardinality(High(s, m)) = Cardinality(High(a, m)) - 1
      BY <3>1, <3>2, FS_RemoveElement
    <3>4. Cardinality(High(a, m)) \in Nat
      BY <3>2, FS_CardinalityType
    <3>5. CASE Level(a)
      <4>1. FALSE
        <5>1. \A d \in Cu : Len(a[c]) <= Len(a[d]) + 1
          BY <3>1, <3>5 DEF Level, High
        <5>2. BalanceOnce(a) = a
          <6>1. Longest(a) \in Cu /\ Shortest(a) \in Cu
            BY <2>3, LongestFacts, ShortestFacts
          <6>2. Len(a[Longest(a)]) <= Len(a[Shortest(a)]) + 1
            BY <3>5, <6>1 DEF Level
          <6>3. Len(a[Longest(a)]) \in Nat /\ Len(a[Shortest(a)]) \in Nat
            BY <2>3, <6>1 DEF Queues
          <6> QED BY <6>2, <6>3 DEF BalanceOnce
        <5> QED BY <2>2, <3>1, <5>2
      <4> QED BY <4>1
    <3>6. CASE ~Level(a)
      <4>1. Cardinality(High(a, m)) + (k - 1) <= Cardinality(High(r, m))
        BY <2>2, <3>6 DEF BalanceAt
      <4>2. Cardinality(High(s, m)) + k <= Cardinality(High(r, m))
        BY <1>3, <3>3, <3>4, <4>1
      <4> QED BY <2>1, <2>5, <2>7, <3>3, <4>2 DEF BalanceAt, Moved
    <3> QED BY <3>5, <3>6
  <2> QED BY <2>4, <2>6, <2>7
<1>6. n \in T
  <2> HIDE DEF T
  <2>1. \A i \in 0 .. n : i \in T
    BY <1>4, <1>5, Upwards
  <2> QED BY <2>1
<1>7. PICK s : s = f[n]
  OBVIOUS
<1>8. BalanceAt(s, r, m, n)
  BY <1>6, <1>7
<1>9. Level(s)
  <2> SUFFICES ASSUME ~Level(s) PROVE FALSE
    OBVIOUS
  <2>1. Cardinality(High(s, m)) + n <= Cardinality(High(r, m)) /\ IsFiniteSet(High(s, m))
    BY <1>8 DEF BalanceAt
  <2>2. Cardinality(High(s, m)) \in Nat
    BY <2>1, FS_CardinalityType
  <2>3. Cardinality(High(s, m)) = 0
    BY <1>2, <1>3, <2>1, <2>2
  <2>4. High(s, m) = {}
    BY <2>1, <2>3, FS_EmptySet
  <2>5. \A c \in Cu : Len(s[c]) \in m .. m + 2 /\ Len(s[c]) # m + 2
    BY <1>8, <2>4 DEF BalanceAt, Between, High
  <2>6. \A c, d \in Cu : Len(s[c]) <= Len(s[d]) + 1
    BY <2>5
  <2> QED BY <2>6 DEF Level
<1> QED BY <1>1, <1>7, <1>8, <1>9 DEF BalanceAt

\* The queues after generateWarps() and balanceLoadAcrossUnits().
LEMMA SubmittedQueues ==
    ASSUME NEW r \in Queues, ReadyOnce(r), Level(r), NEW first \in Nat,
           \A w : InReady(r, w) => w \in 0 .. first - 1, NEW total \in Nat,
           NEW s, s = Balanced(Dealt(r, first, total), first + total)
    PROVE  /\ s \in Queues /\ ReadyOnce(s) /\ Level(s)
           /\ \A w : InReady(s, w) <=> InReady(r, w) \/ w \in first .. first + total - 1
<1>1. PICK d, n : d = Dealt(r, first, total) /\ n = first + total
  OBVIOUS
<1>2. DealtAt(d, r, first, total)
  <2>1. \A w : InReady(r, w) => w < first
    OBVIOUS
  <2> QED BY <1>1, <2>1, DealtFacts
<1>3. d \in Queues /\ ReadyOnce(d) /\ \A w : InReady(d, w) <=> InReady(r, w) \/ w \in first .. first + total - 1
  BY <1>2 DEF DealtAt
<1>4. \E m \in Nat : Between(d, m)
  <2>1. PICK q \in Nat, t \in Cu : EvenDeal(d, r, q, t)
    BY <1>2 DEF DealtAt
  <2>2. Shortest(r) \in Cu /\ \A c \in Cu : Len(r[Shortest(r)]) <= Len(r[c])
    BY ShortestFacts
  <2>3. PICK l : l = Len(r[Shortest(r)])
    OBVIOUS
  <2>4. l \in Nat
    BY <2>2, <2>3 DEF Queues
  <2>5. ASSUME NEW c \in Cu PROVE Len(d[c]) \in l + q .. l + q + 2
    <3>1. PICK x, y : x = Len(r[c]) /\ y = Len(d[c])
      OBVIOUS
    <3>2. x \in Nat /\ l <= x /\ x <= l + 1
      BY <2>2, <2>3, <3>1 DEF Level, Queues
    <3>3. y = x + q + 1 \/ y = x + q
      BY <2>1, <3>1 DEF EvenDeal
    <3>4. y \in l + q .. l + q + 2
      BY <2>4, <3>2, <3>3
    <3> QED BY <3>1, <3>4
  <2>6. l + q \in Nat
    BY <2>4
  <2> QED BY <2>5, <2>6 DEF Between
<1>5. n \in Nat /\ \A w : InReady(d, w) => w \in 0 .. n - 1
  BY <1>1, <1>3
<1>6. Kept(s, d) /\ Level(s)
  BY <1>1, <1>3, <1>4, <1>5, BalancedFacts
<1> QED BY <1>3, <1>6 DEF Kept

LEMMA ReadyOfGpu ==
    ASSUME NEW g
    PROVE  /\ QueuesOnce(g) <=> ReadyOnce(g.ready)
           /\ \A w : w \in Queued(g) <=> InReady(g.ready, w)
  BY DEF QueuesOnce, ReadyOnce, Queued, InReady

\* A kernel has been submitted: its warps are queued, everything else is where it was.
Submitted(h, g, total, offset, l) ==
    /\ h.start_warp = g.next_warp /\ h.offset = offset /\ h.total_warps = total
    /\ h.next_warp = g.next_warp + total /\ h.launch = l /\ h.event = TRUE
    /\ h.barrier_queue = g.barrier_queue /\ h.barrier_table = g.barrier_table
    /\ h.ended = g.ended /\ h.started = g.started

LEMMA LaunchFields ==
    ASSUME NEW g, GpuTypes(g), NEW k \in DOMAIN Program, NEW total \in Nat, NEW offset \in Nat,
           NEW l \in Nat, l = Len(launched) + 1,
           NEW h, h = LaunchTop(g, k, total, offset)
    PROVE  /\ IsGpu(h) /\ Submitted(h, g, total, offset, l) /\ h.program \in Programs
           /\ h.ready = Balanced(Dealt(g.ready, g.next_warp, total), g.next_warp + total)
<1>1. PICK p, yes : p = Program[k] /\ yes = TRUE
  OBVIOUS
<1>2. PICK d, n : d = Dealt(g.ready, g.next_warp, total) /\ n = g.next_warp + total
  OBVIOUS
<1>3. PICK s : s = Balanced(d, n)
  OBVIOUS
<1>4. PICK t : t = [g EXCEPT !.program = p, !.kernel = k, !.start_warp = g.next_warp,
                             !.offset = offset, !.total_warps = total, !.launch = l]
  OBVIOUS
<1>5. t = [program |-> p, kernel |-> k, start_warp |-> g.next_warp,
           offset |-> offset, total_warps |-> total, ready |-> g.ready,
           next_warp |-> g.next_warp, event |-> g.event, in_loop |-> g.in_loop,
           barrier_queue |-> g.barrier_queue, barrier_table |-> g.barrier_table,
           mem |-> g.mem, instructions |-> g.instructions, launch |-> l,
           started |-> g.started, ended |-> g.ended, pass |-> g.pass]
  BY <1>4 DEF GpuTypes, IsGpu
<1>6. PICK u : u = [program |-> p, kernel |-> k, start_warp |-> g.next_warp,
           offset |-> offset, total_warps |-> total, ready |-> d,
           next_warp |-> n, event |-> g.event, in_loop |-> g.in_loop,
           barrier_queue |-> g.barrier_queue, barrier_table |-> g.barrier_table,
           mem |-> g.mem, instructions |-> g.instructions, launch |-> l,
           started |-> g.started, ended |-> g.ended, pass |-> g.pass]
  OBVIOUS
<1>7. GenerateWarps(t, total) = u
  <2>1. t.ready = g.ready /\ t.next_warp = g.next_warp
    BY <1>5
  <2>2. GenerateWarps(t, total) = [t EXCEPT !.next_warp = n, !.ready = d]
    BY <1>2, <2>1 DEF GenerateWarps
  <2>3. PICK y : y = [t EXCEPT !.next_warp = n]
    OBVIOUS
  <2>4. PICK x : x = [y EXCEPT !.ready = d]
    OBVIOUS
  <2>5. y = [program |-> p, kernel |-> k, start_warp |-> g.next_warp,
             offset |-> offset, total_warps |-> total, ready |-> g.ready,
             next_warp |-> n, event |-> g.event, in_loop |-> g.in_loop,
             barrier_queue |-> g.barrier_queue, barrier_table |-> g.barrier_table,
             mem |-> g.mem, instructions |-> g.instructions, launch |-> l,
             started |-> g.started, ended |-> g.ended, pass |-> g.pass]
    BY <1>5, <2>3
  <2>6. x = u
    BY <1>6, <2>4, <2>5
  <2>7. GenerateWarps(t, total) = x
    BY <2>2, <2>3, <2>4
  <2> QED BY <2>6, <2>7
<1>8. PICK v : v = [program |-> p, kernel |-> k, start_warp |-> g.next_warp,
           offset |-> offset, total_warps |-> total, ready |-> s,
           next_warp |-> n, event |-> g.event, in_loop |-> g.in_loop,
           barrier_queue |-> g.barrier_queue, barrier_table |-> g.barrier_table,
           mem |-> g.mem, instructions |-> g.instructions, launch |-> l,
           started |-> g.started, ended |-> g.ended, pass |-> g.pass]
  OBVIOUS
<1>9. BalanceLoad(u) = v
  <2>1. u.ready = d /\ u.next_warp = n
    BY <1>6
  <2>2. BalanceLoad(u) = [u EXCEPT !.ready = s]
    BY <1>3, <2>1 DEF BalanceLoad
  <2> QED BY <1>6, <1>8, <2>2
<1>10. SubmitKernel(t, total) = v
  BY <1>7, <1>9 DEF SubmitKernel
<1>11. h = [v EXCEPT !.event = yes]
  BY <1>1, <1>4, <1>10 DEF LaunchTop
<1>12. h = [program |-> p, kernel |-> k, start_warp |-> g.next_warp,
           offset |-> offset, total_warps |-> total, ready |-> s,
           next_warp |-> n, event |-> yes, in_loop |-> g.in_loop,
           barrier_queue |-> g.barrier_queue, barrier_table |-> g.barrier_table,
           mem |-> g.mem, instructions |-> g.instructions, launch |-> l,
           started |-> g.started, ended |-> g.ended, pass |-> g.pass]
  BY <1>8, <1>11
<1>13. p \in Programs
  BY <1>1 DEF Programs
<1>14. IsGpu(h) /\ h.program = p /\ h.ready = s
  BY <1>12 DEF IsGpu
<1>15. Submitted(h, g, total, offset, l)
  BY <1>1, <1>2, <1>12 DEF Submitted
<1> QED BY <1>2, <1>3, <1>13, <1>14, <1>15

LEMMA LaunchQueues ==
    ASSUME NEW g, GpuInv(g), NEW total \in Nat,
           NEW s, s = Balanced(Dealt(g.ready, g.next_warp, total), g.next_warp + total)
    PROVE  /\ s \in Queues /\ ReadyOnce(s) /\ Level(s)
           /\ \A w : InReady(s, w) <=> w \in Queued(g) \/ w \in g.next_warp .. g.next_warp + total - 1
<1>1. PICK r, first : r = g.ready /\ first = g.next_warp
  OBVIOUS
<1>2. r \in Queues /\ ReadyOnce(r) /\ Level(r) /\ first \in Nat
  BY <1>1, ReadyOfGpu DEF GpuInv, GpuTypes, Placed, Queues
<1>3. \A w : InReady(r, w) <=> w \in Queued(g)
  BY <1>1, ReadyOfGpu
<1>4. \A w : InReady(r, w) => w \in 0 .. first - 1
  BY <1>1, <1>3 DEF GpuInv, Placed, Apart
<1>5. s = Balanced(Dealt(r, first, total), first + total)
  BY <1>1
<1>6. /\ s \in Queues /\ ReadyOnce(s) /\ Level(s)
      /\ \A w : InReady(s, w) <=> InReady(r, w) \/ w \in first .. first + total - 1
  BY <1>2, <1>4, <1>5, SubmittedQueues
<1> QED BY <1>1, <1>3, <1>6

LEMMA LaunchFacts ==
    ASSUME NEW g, GpuInv(g), NEW k \in DOMAIN Program, NEW total \in Nat, NEW offset \in Nat,
           NEW l \in Nat, l = Len(launched) + 1,
           NEW h, h = LaunchTop(g, k, total, offset)
    PROVE  /\ GpuInv(h) /\ Submitted(h, g, total, offset, l)
           /\ OneLaunch(g) /\ Over(g) /\ g.launch < l => OneLaunch(h)
<1>1. /\ IsGpu(h) /\ Submitted(h, g, total, offset, l) /\ h.program \in Programs
      /\ h.ready = Balanced(Dealt(g.ready, g.next_warp, total), g.next_warp + total)
  BY LaunchFields DEF GpuInv
<1>2. /\ h.start_warp = g.next_warp /\ h.offset = offset /\ h.total_warps = total
      /\ h.next_warp = g.next_warp + total /\ h.launch = l /\ h.event = TRUE
      /\ h.barrier_queue = g.barrier_queue /\ h.barrier_table = g.barrier_table
      /\ h.ended = g.ended /\ h.started = g.started
  BY <1>1 DEF Submitted
<1>3. /\ h.ready \in Queues /\ ReadyOnce(h.ready) /\ Level(h.ready)
      /\ \A w : InReady(h.ready, w) <=> w \in Queued(g) \/ w \in g.next_warp .. g.next_warp + total - 1
  BY <1>1, LaunchQueues
<1>4. /\ Queued(h) = Queued(g) \cup (g.next_warp .. g.next_warp + total - 1)
      /\ Waiting(h) = Waiting(g) /\ Gone(h) = Gone(g)
  <2>1. \A w : w \in Queued(h) <=> w \in Queued(g) \/ w \in g.next_warp .. g.next_warp + total - 1
    BY <1>3, ReadyOfGpu
  <2> QED BY <1>2, <2>1 DEF Waiting, Gone
<1>5. g.next_warp \in Nat
  BY DEF GpuInv, GpuTypes
<1>6. GpuTypes(h)
  <2>1. \A c \in Cu, b \in BarrierId : g.barrier_table[c][b] \in SUBSET (0 .. g.next_warp + total - 1)
    <3>1. g.barrier_table \in [Cu -> [BarrierId -> SUBSET (0 .. g.next_warp - 1)]]
      BY DEF GpuInv, GpuTypes
    <3>2. 0 .. g.next_warp - 1 \subseteq 0 .. g.next_warp + total - 1
      BY <1>5
    <3> QED BY <3>1, <3>2
  <2>2. g.barrier_table \in [Cu -> [BarrierId -> SUBSET (0 .. g.next_warp + total - 1)]]
    <3>1. g.barrier_table \in [Cu -> [BarrierId -> SUBSET (0 .. g.next_warp - 1)]]
      BY DEF GpuInv, GpuTypes
    <3> QED BY <2>1, <3>1
  <2>3. h.start_warp \in Nat /\ h.next_warp \in Nat
    BY <1>2, <1>5
  <2> QED BY <1>1, <1>2, <1>3, <2>2, <2>3 DEF GpuInv, GpuTypes, Queues
<1>7. Placed(h, {})
  <2>1. QueuesOnce(h)
    BY <1>3, ReadyOfGpu
  <2>2. BarrierOnce(h) /\ EndedOnce(h)
    BY <1>2 DEF GpuInv, Placed, BarrierOnce, EndedOnce
  <2>3. Apart(h, {})
    <3>1. PICK A, B, Q, W, E : /\ A = 0 .. g.next_warp - 1 /\ B = g.next_warp .. g.next_warp + total - 1
                               /\ Q = Queued(g) /\ W = Waiting(g) /\ E = Gone(g)
      OBVIOUS
    <3>2. A \cap B = {} /\ A \cup B = 0 .. g.next_warp + total - 1
      BY <1>5, <3>1
    <3>3. /\ Q \cap W = {} /\ Q \cap E = {} /\ W \cap E = {}
          /\ Q \cup W \cup E \cup {} = A
      BY <3>1 DEF GpuInv, Placed, Apart
    <3>4. Queued(h) = Q \cup B /\ Waiting(h) = W /\ Gone(h) = E
      BY <1>4, <3>1
    <3>5. h.next_warp = g.next_warp + total
      BY <1>2
    <3>6. Q \cap B = {} /\ W \cap B = {} /\ E \cap B = {}
      BY <3>2, <3>3
    <3>7. /\ (Q \cup B) \cap W = {} /\ (Q \cup B) \cap E = {} /\ W \cap E = {}
          /\ (Q \cup B) \cup W \cup E \cup {} = A \cup B
      BY <3>3, <3>6
    <3>8. (Q \cup B) \cup W \cup E \cup {} = 0 .. h.next_warp - 1
      <4>1. 0 .. h.next_warp - 1 = A \cup B
        <5>1. h.next_warp - 1 = g.next_warp + total - 1
          BY <1>5, <3>5
        <5>2. PICK N : N = A \cup B
          OBVIOUS
        <5>3. N = 0 .. g.next_warp + total - 1
          BY <3>2, <5>2
        <5> QED BY <5>1, <5>2, <5>3
      <4> QED BY <3>7, <4>1
    <3> QED BY <3>4, <3>7, <3>8 DEF Apart
  <2>4. StartedOnce(h, {})
    BY <1>2, <1>4 DEF GpuInv, Placed, StartedOnce
  <2> QED BY <2>1, <2>2, <2>3, <2>4 DEF Placed
<1>8. GpuInv(h)
  BY <1>2, <1>3, <1>6, <1>7 DEF GpuInv, IdleIsOver
<1>9. ASSUME OneLaunch(g), Over(g), g.launch < l PROVE OneLaunch(h)
  <2>1. Queued(g) = {} /\ Waiting(g) = {} /\ DOMAIN g.barrier_queue = {}
    <3>1. \A c \in Cu : ToSet(g.ready[c]) = {}
      BY <1>9 DEF Over, SchedulerComplete, ToSet
    <3>2. Queued(g) = {}
      BY <3>1 DEF Queued
    <3>3. g.barrier_queue = << >>
      BY <1>9 DEF Over
    <3>4. DOMAIN g.barrier_queue = {}
      BY <3>3
    <3>5. Waiting(g) = {}
      BY <3>4 DEF Waiting
    <3> QED BY <3>2, <3>4, <3>5
  <2>2. \A e \in g.ended : e.launch \in Nat /\ e.launch < l
    <3>1. g.launch \in Nat
      BY DEF GpuInv, GpuTypes
    <3> QED BY <1>9, <3>1 DEF OneLaunch, Current, EndedRight
  <2>3. \A e \in g.ended : e.warp < g.next_warp
    <3>1. \A w \in Gone(g) : w \in 0 .. g.next_warp - 1
      BY DEF GpuInv, Placed, Apart
    <3> QED BY <1>5, <3>1 DEF Gone
  <2>4. EndedRight(h)
    BY <1>2, <2>2, <2>3 DEF EndedRight
  <2>5. Current(h, {})
    BY <1>2, <1>4, <1>5, <2>1, <2>4 DEF Current
  <2>6. TablesMatch(h)
    BY <1>2, <1>9 DEF OneLaunch, TablesMatch
  <2>7. ToFirst(h)
    BY <1>2, <1>9, <2>1, <2>2 DEF ToFirst, AllAt, Over
  <2> QED BY <2>5, <2>6, <2>7 DEF OneLaunch, Wave
<1> QED BY <1>1, <1>8, <1>9

(***************************************************************************)
(* The split of a grid over the GPUs                                       *)
(***************************************************************************)
ShareBefore(grid, n, i) == i * (grid \div n) + IF i < grid % n THEN i ELSE grid % n

LEMMA ShareFacts ==
    ASSUME NEW grid \in Nat, NEW n \in Nat \ {0}, NEW i \in Nat
    PROVE  /\ ShareBefore(grid, n, i) \in Nat /\ WarpsFor(grid, n, i) \in Nat
           /\ ShareBefore(grid, n, i + 1) = ShareBefore(grid, n, i) + WarpsFor(grid, n, i)
           /\ ShareBefore(grid, n, 0) = 0 /\ ShareBefore(grid, n, n) = grid
<1>1. PICK b, r : b = grid \div n /\ r = grid % n
  OBVIOUS
<1>2. b \in Nat /\ r \in 0 .. n - 1 /\ grid = b * n + r
  BY <1>1, DivMod
<1>3. \A j \in Nat : ShareBefore(grid, n, j) = j * b + IF j < r THEN j ELSE r
  BY <1>1 DEF ShareBefore
<1>4. WarpsFor(grid, n, i) = b + IF i < r THEN 1 ELSE 0
  BY <1>1 DEF WarpsFor
<1>5. PICK m \in Nat : m = i * b /\ (i + 1) * b = m + b
  <2>1. i * b \in Nat /\ (i + 1) * b = i * b + b
    BY <1>2, NextMultiple
  <2> QED BY <2>1
<1>6. ShareBefore(grid, n, i) = m + IF i < r THEN i ELSE r
  BY <1>3, <1>5
<1>7. ShareBefore(grid, n, i + 1) = m + b + IF i + 1 < r THEN i + 1 ELSE r
  <2>1. i + 1 \in Nat
    OBVIOUS
  <2> QED BY <1>3, <1>5, <2>1
<1>8. ShareBefore(grid, n, i + 1) = ShareBefore(grid, n, i) + WarpsFor(grid, n, i)
  BY <1>2, <1>4, <1>6, <1>7
<1>9. ShareBefore(grid, n, 0) = 0
  <2>1. 0 * b = 0
    BY <1>2
  <2> QED BY <1>2, <1>3, <2>1
<1>10. ShareBefore(grid, n, n) = grid
  <2>1. n \in Nat /\ n * b = b * n /\ b * n \in Nat /\ ~(n < r)
    BY <1>2
  <2> QED BY <1>2, <1>3, <2>1
<1>11. ShareBefore(grid, n, i) \in Nat /\ WarpsFor(grid, n, i) \in Nat
  BY <1>2, <1>4, <1>6
<1> QED BY <1>8, <1>9, <1>10, <1>11

\* SystemTop::launchKernel()
LEMMA OffsetIsShare ==
    ASSUME NEW grid \in Nat, NEW n \in Nat \ {0}, NEW i \in Nat
    PROVE  WarpOffset(grid, n, i) = ShareBefore(grid, n, i)
<1> DEFINE Steps(f) == [j \in 0 .. i |-> IF j = 0 THEN 0 ELSE f[j - 1] + WarpsFor(grid, n, j - 1)]
<1>1. \E f : f = Steps(f)
  <2>1. PICK f : f = [j \in 0 .. i |-> ShareBefore(grid, n, j)]
    OBVIOUS
  <2>2. ASSUME NEW j \in 0 .. i PROVE f[j] = IF j = 0 THEN 0 ELSE f[j - 1] + WarpsFor(grid, n, j - 1)
    <3>1. CASE j = 0
      BY <2>1, <3>1, ShareFacts
    <3>2. CASE j # 0
      <4>1. j - 1 \in Nat /\ j - 1 \in 0 .. i /\ (j - 1) + 1 = j
        BY <3>2
      <4>2. ShareBefore(grid, n, (j - 1) + 1) = ShareBefore(grid, n, j - 1) + WarpsFor(grid, n, j - 1)
        BY <4>1, ShareFacts
      <4> QED BY <2>1, <3>2, <4>1, <4>2
    <3> QED BY <3>1, <3>2
  <2>3. f = Steps(f)
    BY <2>1, <2>2
  <2> QED BY <2>3
<1>2. PICK f : f = CHOOSE h : h = Steps(h)
  OBVIOUS
<1>3. f = Steps(f)
  <2> HIDE DEF Steps
  <2> QED BY <1>1, <1>2
<1>4. WarpOffset(grid, n, i) = f[i]
  BY <1>2 DEF WarpOffset
<1>5. \A j \in 0 .. i : f[j] = IF j = 0 THEN 0 ELSE f[j - 1] + WarpsFor(grid, n, j - 1)
  BY <1>3
<1> DEFINE T == {j \in 0 .. i : f[j] = ShareBefore(grid, n, j)}
<1>6. 0 \in T
  BY <1>5, ShareFacts
<1>7. ASSUME NEW j \in 1 .. i, j - 1 \in T PROVE j \in T
  <2>1. j \in 0 .. i /\ j # 0 /\ j - 1 \in Nat /\ (j - 1) + 1 = j
    OBVIOUS
  <2>2. f[j] = f[j - 1] + WarpsFor(grid, n, j - 1)
    BY <1>5, <2>1
  <2>3. ShareBefore(grid, n, (j - 1) + 1) = ShareBefore(grid, n, j - 1) + WarpsFor(grid, n, j - 1)
    BY <2>1, ShareFacts
  <2> QED BY <1>7, <2>1, <2>2, <2>3
<1>8. i \in T
  <2> HIDE DEF T
  <2>1. \A j \in 0 .. i : j \in T
    BY <1>6, <1>7, Upwards
  <2> QED BY <2>1
<1> QED BY <1>4, <1>8

(***************************************************************************)
(* SystemTopHLS::launchKernel()                                            *)
(***************************************************************************)
Device == [warp_id_offset : Nat, total_warps : Nat, start : BOOLEAN, done : BOOLEAN]
Devices(n) == [0 .. n - 1 -> Device]
Visits(n) == [devices : Devices(n), offset : Nat]

\* What a launch makes of device i.
SharedDevice(d, grid, n, i) ==
    IF WarpsFor(grid, n, i) = 0 THEN d
    ELSE HlsLaunchDevice(d, ShareBefore(grid, n, i), WarpsFor(grid, n, i))

LEMMA LaunchDeviceType ==
    ASSUME NEW d \in Device, NEW offset \in Nat, NEW m \in Nat, NEW e, e = HlsLaunchDevice(d, offset, m)
    PROVE  e \in Device /\ e.warp_id_offset = offset /\ e.total_warps = m
<1>1. PICK yes : yes = TRUE
  OBVIOUS
<1>2. e = [warp_id_offset |-> offset, total_warps |-> m, start |-> yes, done |-> d.done]
  BY <1>1 DEF HlsLaunchDevice, Device
<1> QED BY <1>1, <1>2 DEF Device

Visited(b, a, n, d, m) ==
    /\ b \in Visits(n) /\ b.offset = a.offset + m
    /\ b.devices[d] = (IF m = 0 THEN a.devices[d] ELSE HlsLaunchDevice(a.devices[d], a.offset, m))
    /\ \A i \in 0 .. n - 1 : i # d => b.devices[i] = a.devices[i]

LEMMA VisitType ==
    ASSUME NEW n \in Nat, NEW a \in Visits(n), NEW d \in 0 .. n - 1, NEW m \in Nat,
           NEW b, b = HlsVisit(a, d, m)
    PROVE  Visited(b, a, n, d, m)
<1>1. a.devices \in [0 .. n - 1 -> Device] /\ a.offset \in Nat
  BY DEF Visits, Devices
<1>2. CASE m = 0
  <2>1. b = a
    BY <1>2 DEF HlsVisit
  <2> QED BY <1>1, <1>2, <2>1 DEF Visited
<1>3. CASE m # 0
  <2>1. PICK e, v : /\ e = HlsLaunchDevice(a.devices[d], a.offset, m)
                    /\ v = [a.devices EXCEPT ![d] = e]
    OBVIOUS
  <2>2. b = [devices |-> v, offset |-> a.offset + m]
    BY <1>3, <2>1 DEF HlsVisit
  <2>3. e \in Device
    BY <1>1, <2>1, LaunchDeviceType
  <2>4. v \in [0 .. n - 1 -> Device] /\ v[d] = e /\ \A i \in 0 .. n - 1 : i # d => v[i] = a.devices[i]
    BY <1>1, <2>1, <2>3
  <2>5. b \in Visits(n)
    BY <1>1, <2>2, <2>4 DEF Visits, Devices
  <2> QED BY <1>3, <2>1, <2>2, <2>4, <2>5 DEF Visited
<1> QED BY <1>2, <1>3

VisitSteps(f, devices, grid, n) ==
    [d \in 0 .. n |-> IF d = 0 THEN [devices |-> devices, offset |-> 0]
                      ELSE HlsVisit(Once(f[d - 1]), d - 1, WarpsFor(grid, n, d - 1))]

LEMMA VisitLoopExists ==
    ASSUME NEW grid \in Nat, NEW n \in Nat \ {0}, NEW devices
    PROVE  \E f : f = VisitSteps(f, devices, grid, n)
<1>1. PICK first : first = [devices |-> devices, offset |-> 0]
  OBVIOUS
<1> DEFINE Steps(f, k) == [d \in 0 .. k |-> IF d = 0 THEN first
                              ELSE HlsVisit(Once(f[d - 1]), d - 1, WarpsFor(grid, n, d - 1))]
           T == {k \in 0 .. n : \E f : f = Steps(f, k)}
<1>2. 0 \in T
  <2>1. PICK f : f = [d \in 0 .. 0 |-> first]
    OBVIOUS
  <2>2. \A d \in 0 .. 0 : d = 0
    OBVIOUS
  <2>3. f = Steps(f, 0)
    BY <2>1, <2>2
  <2> QED BY <2>3
<1>3. ASSUME NEW k \in 1 .. n, k - 1 \in T PROVE k \in T
  <2>1. PICK f : f = Steps(f, k - 1)
    BY <1>3
  <2>2. PICK last : last = HlsVisit(Once(f[k - 1]), k - 1, WarpsFor(grid, n, k - 1))
    OBVIOUS
  <2>3. PICK h : h = [d \in 0 .. k |-> IF d = k THEN last ELSE f[d]]
    OBVIOUS
  <2>4. \A d \in 0 .. k : d # k => d \in 0 .. k - 1 /\ h[d] = f[d]
    BY <2>3
  <2>5. ASSUME NEW d \in 0 .. k
        PROVE  h[d] = IF d = 0 THEN first ELSE HlsVisit(Once(h[d - 1]), d - 1, WarpsFor(grid, n, d - 1))
    <3>1. d # 0 => d - 1 \in 0 .. k /\ d - 1 # k
      OBVIOUS
    <3>2. d # 0 => h[d - 1] = f[d - 1]
      BY <2>4, <3>1
    <3>3. CASE d = k
      <4>1. d # 0 /\ d \in 0 .. k /\ h[d] = last
        BY <2>3, <3>3
      <4> QED BY <2>2, <3>2, <3>3, <4>1
    <3>4. CASE d # k
      <4>1. f[d] = IF d = 0 THEN first ELSE HlsVisit(Once(f[d - 1]), d - 1, WarpsFor(grid, n, d - 1))
        BY <2>1, <2>4, <3>4
      <4> QED BY <2>4, <3>2, <3>4, <4>1
    <3> QED BY <3>3, <3>4
  <2>6. h = Steps(h, k)
    BY <2>3, <2>5
  <2> QED BY <2>6
<1>4. n \in T
  <2> HIDE DEF T
  <2>1. \A i \in 1 .. n : i - 1 \in T => i \in T
    BY <1>3
  <2>2. \A i \in 0 .. n : i \in T
    BY <1>2, <2>1, Upwards
  <2> QED BY <2>2
<1>5. PICK f : f = Steps(f, n)
  BY <1>4
<1>6. f = VisitSteps(f, devices, grid, n)
  BY <1>1, <1>5 DEF VisitSteps
<1> QED BY <1>6

VisitAt(a, devices, grid, n, d) ==
    /\ a \in Visits(n) /\ a.offset = ShareBefore(grid, n, d)
    /\ \A i \in 0 .. n - 1 :
         /\ i < d => a.devices[i] = SharedDevice(devices[i], grid, n, i)
         /\ ~(i < d) => a.devices[i] = devices[i]

LEMMA HlsLaunchFacts ==
    ASSUME NEW grid \in Nat, NEW n \in Nat \ {0}, NEW devices \in Devices(n),
           NEW e, e = HlsLaunch(devices, grid)
    PROVE  e \in Devices(n) /\ \A i \in 0 .. n - 1 : e[i] = SharedDevice(devices[i], grid, n, i)
<1>1. Cardinality(DOMAIN devices) = n
  <2>1. DOMAIN devices = 0 .. n - 1 /\ 0 \in Int /\ n - 1 \in Int /\ ~(0 > n - 1) /\ (n - 1) - 0 + 1 = n
    BY DEF Devices
  <2> QED BY <2>1, FS_Interval
<1>2. PICK f : f = CHOOSE h : h = VisitSteps(h, devices, grid, n)
  OBVIOUS
<1>3. f = VisitSteps(f, devices, grid, n)
  BY <1>2, VisitLoopExists
<1>4. e = f[n].devices
  BY <1>1, <1>2 DEF HlsLaunch, VisitSteps, WarpsFor
<1>5. f[0] = [devices |-> devices, offset |-> 0]
  <2>1. 0 \in 0 .. n
    OBVIOUS
  <2> QED BY <1>3, <2>1 DEF VisitSteps
<1>6. ASSUME NEW d \in 1 .. n PROVE f[d] = HlsVisit(f[d - 1], d - 1, WarpsFor(grid, n, d - 1))
  <2>1. d \in 0 .. n /\ d # 0
    OBVIOUS
  <2>2. f[d] = HlsVisit(Once(f[d - 1]), d - 1, WarpsFor(grid, n, d - 1))
    BY <1>3, <2>1 DEF VisitSteps
  <2> QED BY <2>2, OnceIsIt
<1> DEFINE T == {d \in 0 .. n : VisitAt(f[d], devices, grid, n, d)}
<1>7. 0 \in T
  <2>1. f[0] \in Visits(n) /\ f[0].offset = 0 /\ f[0].devices = devices
    BY <1>5 DEF Visits
  <2>2. ShareBefore(grid, n, 0) = 0 /\ \A i \in 0 .. n - 1 : ~(i < 0)
    BY ShareFacts
  <2>3. VisitAt(f[0], devices, grid, n, 0)
    BY <2>1, <2>2 DEF VisitAt
  <2> QED BY <2>3
<1>8. ASSUME NEW d \in 1 .. n, d - 1 \in T PROVE d \in T
  <2>1. PICK c, a, b, m : c = d - 1 /\ a = f[d - 1] /\ b = f[d] /\ m = WarpsFor(grid, n, d - 1)
    OBVIOUS
  <2>2. c \in 0 .. n - 1 /\ c \in Nat /\ c + 1 = d
    BY <2>1
  <2>3. m \in Nat /\ m = WarpsFor(grid, n, c)
    BY <2>1, <2>2, ShareFacts
  <2>4. VisitAt(a, devices, grid, n, c) /\ b = HlsVisit(a, c, m)
    BY <1>6, <1>8, <2>1
  <2>5. a \in Visits(n) /\ a.offset = ShareBefore(grid, n, c) /\ a.devices[c] = devices[c]
    BY <2>2, <2>4 DEF VisitAt
  <2>6. /\ b \in Visits(n) /\ b.offset = a.offset + m
        /\ b.devices[c] = (IF m = 0 THEN a.devices[c] ELSE HlsLaunchDevice(a.devices[c], a.offset, m))
        /\ \A i \in 0 .. n - 1 : i # c => b.devices[i] = a.devices[i]
    <3>1. Visited(b, a, n, c, m)
      BY <2>2, <2>3, <2>4, <2>5, VisitType
    <3> QED BY <3>1 DEF Visited
  <2>7. b.offset = ShareBefore(grid, n, d)
    <3>1. ShareBefore(grid, n, c + 1) = ShareBefore(grid, n, c) + WarpsFor(grid, n, c)
      BY <2>2, ShareFacts
    <3> QED BY <2>2, <2>3, <2>5, <2>6, <3>1
  <2>8. b.devices[c] = SharedDevice(devices[c], grid, n, c)
    BY <2>3, <2>5, <2>6 DEF SharedDevice
  <2>9. ASSUME NEW i \in 0 .. n - 1
        PROVE  /\ i < d => b.devices[i] = SharedDevice(devices[i], grid, n, i)
               /\ ~(i < d) => b.devices[i] = devices[i]
    <3>1. (i < d <=> i < c \/ i = c) /\ ~(c < c)
      BY <2>2
    <3>2. CASE i = c
      BY <2>8, <3>1, <3>2
    <3>3. CASE i # c
      BY <2>4, <2>6, <3>1, <3>3 DEF VisitAt
    <3> QED BY <3>2, <3>3
  <2>10. VisitAt(b, devices, grid, n, d)
    BY <2>6, <2>7, <2>9 DEF VisitAt
  <2> QED BY <2>1, <2>10
<1>9. n \in T
  <2> HIDE DEF T
  <2>1. \A j \in 0 .. n : j \in T
    BY <1>7, <1>8, Upwards
  <2> QED BY <2>1
<1>10. VisitAt(f[n], devices, grid, n, n)
  BY <1>9
<1>11. e \in Devices(n)
  BY <1>4, <1>10 DEF VisitAt, Visits
<1>12. \A i \in 0 .. n - 1 : i < n
  OBVIOUS
<1> QED BY <1>4, <1>10, <1>11, <1>12 DEF VisitAt

(***************************************************************************)
(* The shares of the launches                                              *)
(***************************************************************************)
IsLaunches(L) == IsSeq(L) /\ \A l \in DOMAIN L : L[l].grid \in Nat

BeforeSum(f, L, n, k) ==
    [j \in 0 .. k |-> IF j = 0 THEN 0 ELSE f[j - 1] + (L[j].grid \div n)]

LEMMA BeforeSumExists ==
    ASSUME NEW L, NEW n, NEW m \in Nat
    PROVE  \A k \in 0 .. m : \E f : f = BeforeSum(f, L, n, k)
<1> DEFINE T == {k \in 0 .. m : \E f : f = BeforeSum(f, L, n, k)}
<1>1. 0 \in T
  <2>1. PICK f : f = [d \in 0 .. 0 |-> 0]
    OBVIOUS
  <2>2. \A d \in 0 .. 0 : d = 0
    OBVIOUS
  <2>3. f = BeforeSum(f, L, n, 0)
    BY <2>1, <2>2 DEF BeforeSum
  <2> QED BY <2>3
<1>2. ASSUME NEW k \in 1 .. m, k - 1 \in T PROVE k \in T
  <2>1. PICK f : f = BeforeSum(f, L, n, k - 1)
    BY <1>2
  <2>2. PICK last : last = f[k - 1] + (L[k].grid \div n)
    OBVIOUS
  <2>3. PICK h : h = [d \in 0 .. k |-> IF d = k THEN last ELSE f[d]]
    OBVIOUS
  <2>4. \A d \in 0 .. k : d # k => d \in 0 .. k - 1 /\ h[d] = f[d]
    BY <2>3
  <2>5. ASSUME NEW d \in 0 .. k
        PROVE  h[d] = IF d = 0 THEN 0 ELSE h[d - 1] + (L[d].grid \div n)
    <3>1. d # 0 => d - 1 \in 0 .. k /\ d - 1 # k
      OBVIOUS
    <3>2. d # 0 => h[d - 1] = f[d - 1]
      BY <2>4, <3>1
    <3>3. CASE d = k
      <4>1. d # 0 /\ d \in 0 .. k /\ h[d] = last
        BY <2>3, <3>3
      <4> QED BY <2>2, <3>2, <3>3, <4>1
    <3>4. CASE d # k
      <4>1. f[d] = IF d = 0 THEN 0 ELSE f[d - 1] + (L[d].grid \div n)
        BY <2>1, <2>4, <3>4 DEF BeforeSum
      <4> QED BY <2>4, <3>2, <3>4, <4>1
    <3> QED BY <3>3, <3>4
  <2>6. h = BeforeSum(h, L, n, k)
    BY <2>3, <2>5 DEF BeforeSum
  <2> QED BY <2>6
<1>3. \A k \in 0 .. m : k \in T
  <2> HIDE DEF T
  <2>1. \A i \in 1 .. m : i - 1 \in T => i \in T
    BY <1>2
  <2> QED BY <1>1, <2>1, Upwards
<1> QED BY <1>3

\* A sum of the first launches is a sum of fewer of them, taken further.
LEMMA BeforeSumIs ==
    ASSUME NEW L, IsLaunches(L), NEW n \in Nat \ {0}, NEW m \in 0 .. Len(L),
           NEW M, NEW k \in 0 .. m, \A l \in 1 .. m : M[l].grid = L[l].grid,
           NEW f, f = BeforeSum(f, L, n, m), NEW g, g = BeforeSum(g, M, n, k)
    PROVE  \A j \in 0 .. k : f[j] \in Nat /\ g[j] = f[j]
<1>1. m \in Nat /\ k \in Nat /\ k <= m /\ DOMAIN L = 1 .. Len(L) /\ Len(L) \in Nat
  BY DEF IsLaunches, IsSeq
<1> DEFINE T == {j \in 0 .. k : f[j] \in Nat /\ g[j] = f[j]}
<1>2. 0 \in T
  BY <1>1 DEF BeforeSum
<1>3. ASSUME NEW j \in 1 .. k, j - 1 \in T PROVE j \in T
  <2>1. j \in 0 .. k /\ j \in 0 .. m /\ j # 0 /\ j \in 1 .. m /\ j \in 1 .. Len(L)
    BY <1>1
  <2>2. f[j] = f[j - 1] + (L[j].grid \div n) /\ g[j] = g[j - 1] + (M[j].grid \div n)
    BY <2>1 DEF BeforeSum
  <2>3. PICK d : d = L[j].grid \div n
    OBVIOUS
  <2>4. L[j].grid \in Nat /\ M[j].grid = L[j].grid
    BY <1>1, <2>1 DEF IsLaunches
  <2>5. d \in Nat
    BY <2>3, <2>4, DivMod
  <2> QED BY <1>3, <2>1, <2>2, <2>3, <2>4, <2>5
<1>4. \A j \in 0 .. k : j \in T
  <2> HIDE DEF T
  <2>1. \A i \in 1 .. k : i - 1 \in T => i \in T
    BY <1>3
  <2> QED BY <1>1, <1>2, <2>1, Upwards
<1> QED BY <1>4

LEMMA BeforeIsSum ==
    ASSUME NEW L, NEW n, NEW l, l - 1 \in Nat
    PROVE  \E f : f = BeforeSum(f, L, n, l - 1) /\ WarpsBefore(L, n, l) = f[l - 1]
<1>1. PICK k : k = l - 1
  OBVIOUS
<1>2. k \in 0 .. k
  BY <1>1
<1>3. PICK f : f = CHOOSE h : h = BeforeSum(h, L, n, k)
  OBVIOUS
<1>4. f = BeforeSum(f, L, n, k)
  <2>1. \E h : h = BeforeSum(h, L, n, k)
    BY <1>1, <1>2, BeforeSumExists
  <2> QED BY <1>3, <2>1
<1>5. WarpsBefore(L, n, l) = f[k]
  BY <1>1, <1>3 DEF WarpsBefore, BeforeSum
<1> QED BY <1>1, <1>4, <1>5

LEMMA BeforeFacts ==
    ASSUME NEW L, IsLaunches(L), NEW n \in Nat \ {0}, NEW l \in 1 .. Len(L) + 1
    PROVE  /\ WarpsBefore(L, n, l) \in Nat
           /\ l = 1 => WarpsBefore(L, n, l) = 0
           /\ l # 1 => WarpsBefore(L, n, l) = WarpsBefore(L, n, l - 1) + (L[l - 1].grid \div n)
<1>1. Len(L) \in Nat /\ l - 1 \in Nat /\ l - 1 \in 0 .. Len(L)
  BY DEF IsLaunches, IsSeq
<1>2. PICK k : k = l - 1
  OBVIOUS
<1>3. PICK f : f = BeforeSum(f, L, n, k) /\ WarpsBefore(L, n, l) = f[k]
  BY <1>1, <1>2, BeforeIsSum
<1>4. f[k] \in Nat
  <2>1. k \in 0 .. k /\ k \in 0 .. Len(L)
    BY <1>1, <1>2
  <2> QED BY <1>3, <2>1, BeforeSumIs
<1>5. l = 1 => f[k] = 0
  BY <1>2, <1>3 DEF BeforeSum
<1>6. ASSUME l # 1 PROVE WarpsBefore(L, n, l) = WarpsBefore(L, n, l - 1) + (L[l - 1].grid \div n)
  <2>1. k - 1 \in Nat /\ k \in 0 .. Len(L) /\ k - 1 \in 0 .. k /\ k # 0 /\ k \in 0 .. k /\ k - 1 \in 0 .. k - 1
    BY <1>1, <1>2, <1>6
  <2>2. PICK g : g = BeforeSum(g, L, n, k - 1) /\ WarpsBefore(L, n, k) = g[k - 1]
    BY <2>1, BeforeIsSum
  <2>3. g[k - 1] = f[k - 1]
    BY <1>3, <2>1, <2>2, BeforeSumIs
  <2>4. f[k] = f[k - 1] + (L[k].grid \div n)
    BY <1>3, <2>1 DEF BeforeSum
  <2> QED BY <1>2, <1>3, <2>2, <2>3, <2>4
<1> QED BY <1>2, <1>3, <1>4, <1>5, <1>6

LEMMA BeforeKept ==
    ASSUME NEW L, IsLaunches(L), NEW n \in Nat \ {0}, NEW l \in 1 .. Len(L) + 1,
           NEW M, \A j \in 1 .. Len(L) : M[j] = L[j]
    PROVE  WarpsBefore(M, n, l) = WarpsBefore(L, n, l)
<1>1. Len(L) \in Nat /\ l - 1 \in Nat /\ l - 1 \in 0 .. Len(L)
  BY DEF IsLaunches, IsSeq
<1>2. PICK k : k = l - 1
  OBVIOUS
<1>3. PICK f : f = BeforeSum(f, L, n, k) /\ WarpsBefore(L, n, l) = f[k]
  BY <1>1, <1>2, BeforeIsSum
<1>4. PICK g : g = BeforeSum(g, M, n, k) /\ WarpsBefore(M, n, l) = g[k]
  BY <1>1, <1>2, BeforeIsSum
<1>5. k \in 0 .. Len(L) /\ k \in 0 .. k /\ \A j \in 1 .. k : M[j].grid = L[j].grid
  BY <1>1, <1>2
<1>6. g[k] = f[k]
  <2>1. f = BeforeSum(f, L, n, k) /\ g = BeforeSum(g, M, n, k)
    BY <1>3, <1>4
  <2>2. \A j \in 0 .. k : f[j] \in Nat /\ g[j] = f[j]
    BY <1>5, <2>1, BeforeSumIs
  <2> QED BY <1>5, <2>2
<1> QED BY <1>3, <1>4, <1>6

(***************************************************************************)
(* The shares of a grid lie behind each other                              *)
(***************************************************************************)
LEMMA SharesApart ==
    ASSUME NEW grid \in Nat, NEW n \in Nat \ {0}, NEW i \in Nat, NEW j \in Nat, i < j
    PROVE  ShareBefore(grid, n, i + 1) <= ShareBefore(grid, n, j)
<1>1. PICK b, r : b = grid \div n /\ r = grid % n
  OBVIOUS
<1>2. b \in Nat /\ r \in Nat
  BY <1>1, DivMod
<1>3. PICK k : k = i + 1
  OBVIOUS
<1>4. k \in Nat /\ k <= j
  BY <1>3
<1>5. PICK x, y : x = k * b /\ y = j * b
  OBVIOUS
<1>6. x \in Nat /\ y \in Nat /\ x <= y
  BY <1>2, <1>4, <1>5, Monotone
<1>7. ShareBefore(grid, n, k) = x + IF k < r THEN k ELSE r
  BY <1>1, <1>5 DEF ShareBefore
<1>8. ShareBefore(grid, n, j) = y + IF j < r THEN j ELSE r
  BY <1>1, <1>5 DEF ShareBefore
<1>9. ShareBefore(grid, n, k) <= ShareBefore(grid, n, j)
  BY <1>2, <1>4, <1>6, <1>7, <1>8
<1> QED BY <1>3, <1>9

\* Every place of the grid is in a share.
LEMMA ShareOf ==
    ASSUME NEW grid \in Nat, NEW n \in Nat \ {0}, NEW w \in 0 .. grid - 1
    PROVE  \E i \in 0 .. n - 1 : /\ ShareBefore(grid, n, i) <= w
                                 /\ w < ShareBefore(grid, n, i) + WarpsFor(grid, n, i)
<1> DEFINE T == {j \in Nat : w < ShareBefore(grid, n, j)}
<1>1. n \in T
  <2>1. ShareBefore(grid, n, n) = grid
    BY ShareFacts
  <2> QED BY <2>1
<1>2. PICK j \in T : \A k \in T : j <= k
  <2>1. T \in SUBSET Nat /\ T # {}
    BY <1>1
  <2> HIDE DEF T
  <2> QED BY <2>1, LeastNatural
<1>3. j \in Nat /\ j <= n /\ w < ShareBefore(grid, n, j)
  BY <1>1, <1>2
<1>4. j # 0
  <2>1. ShareBefore(grid, n, 0) = 0
    BY ShareFacts
  <2> QED BY <1>3, <2>1
<1>5. PICK i : i = j - 1
  OBVIOUS
<1>6. i \in Nat /\ i \in 0 .. n - 1 /\ i + 1 = j /\ ~(j <= i)
  BY <1>3, <1>4, <1>5
<1>7. ShareBefore(grid, n, i) \in Nat /\ ShareBefore(grid, n, i + 1) = ShareBefore(grid, n, i) + WarpsFor(grid, n, i)
  BY <1>6, ShareFacts
<1>8. ~(w < ShareBefore(grid, n, i))
  BY <1>2, <1>6
<1> QED BY <1>3, <1>6, <1>7, <1>8

(***************************************************************************)
(* What has ended of launch l on one GPU: exactly its warps from first on, *)
(* as many as its share, each at its place in the grid.                    *)
(***************************************************************************)
Within(w, first, share) == first <= w /\ w < first + share

InShare(g, l, first, share, offset) ==
    /\ first + share <= g.next_warp
    /\ \A e \in g.ended : /\ e.launch = l <=> Within(e.warp, first, share)
                          /\ e.launch = l => e.global_warp = e.warp + offset
    /\ g.launch = l => g.start_warp = first /\ g.total_warps = share /\ g.offset = offset
    /\ g.launch # l => share = 0 \/ first + share <= g.start_warp

LEMMA EndedWarps ==
    ASSUME NEW g, GpuInv(g), NEW e \in g.ended
    PROVE  e.warp \in Nat /\ e.warp < g.next_warp
<1>1. e.warp \in 0 .. g.next_warp - 1 /\ g.next_warp \in Nat
  <2>1. e.warp \in Gone(g)
    BY DEF Gone
  <2> QED BY <2>1 DEF GpuInv, Placed, Apart, GpuTypes
<1> QED BY <1>1

\* simulationProcess() ends only warps of the launch it runs.
LEMMA ActivateInShare ==
    ASSUME NEW g, NEW h, GpuInv(h), SameShare(h, g), OneLaunch(h), PastKept(h, g),
           NEW l \in Nat, NEW first \in Nat, NEW share \in Nat, NEW offset \in Nat,
           InShare(g, l, first, share, offset)
    PROVE  InShare(h, l, first, share, offset)
<1>1. /\ h.start_warp = g.start_warp /\ h.offset = g.offset /\ h.total_warps = g.total_warps
      /\ h.next_warp = g.next_warp /\ h.launch = g.launch
  BY DEF SameShare
<1>2. EndedRight(h) /\ h.start_warp + h.total_warps = h.next_warp
  BY DEF OneLaunch, Current
<1>3. h.start_warp \in Nat /\ h.total_warps \in Nat /\ h.next_warp \in Nat
  BY DEF GpuInv, GpuTypes
<1>4. ASSUME NEW e \in h.ended
      PROVE  /\ e.launch = l <=> Within(e.warp, first, share)
             /\ e.launch = l => e.global_warp = e.warp + offset
  <2>1. e.warp \in Nat /\ e.warp < h.next_warp
    BY EndedWarps
  <2>2. CASE e.launch # g.launch
    <3>1. e \in g.ended
      BY <2>2 DEF PastKept
    <3> QED BY <3>1 DEF InShare
  <2>3. CASE e.launch = g.launch
    <3>1. e.warp >= h.start_warp /\ e.global_warp = e.warp + h.offset
      BY <1>1, <1>2, <2>3 DEF EndedRight
    <3>2. CASE g.launch = l
      <4>1. h.start_warp = first /\ h.total_warps = share /\ h.offset = offset
        BY <1>1, <3>2 DEF InShare
      <4>2. Within(e.warp, first, share)
        BY <1>2, <1>3, <2>1, <3>1, <4>1 DEF Within
      <4> QED BY <2>3, <3>1, <3>2, <4>1, <4>2
    <3>3. CASE g.launch # l
      <4>1. share = 0 \/ first + share <= h.start_warp
        BY <1>1, <3>3 DEF InShare
      <4>2. ~Within(e.warp, first, share)
        BY <1>3, <2>1, <3>1, <4>1 DEF Within
      <4> QED BY <2>3, <3>3, <4>2
    <3> QED BY <3>2, <3>3
  <2> QED BY <2>2, <2>3
<1> QED BY <1>1, <1>4 DEF InShare

\* launchKernel() leaves the launches before it as they are, ...
LEMMA LaunchInShare ==
    ASSUME NEW g, GpuInv(g), NEW h, NEW total \in Nat, NEW new, NEW offset2 \in Nat,
           Submitted(h, g, total, offset2, new), NEW l, l # new,
           NEW first \in Nat, NEW share \in Nat, NEW offset \in Nat,
           InShare(g, l, first, share, offset)
    PROVE  InShare(h, l, first, share, offset)
<1>1. g.next_warp \in Nat /\ first + share <= g.next_warp
  BY DEF GpuInv, GpuTypes, InShare
<1>2. h.start_warp = g.next_warp /\ h.next_warp = g.next_warp + total /\ h.launch = new /\ h.ended = g.ended
  BY DEF Submitted
<1>3. first + share <= h.next_warp /\ first + share <= h.start_warp
  BY <1>1, <1>2
<1> QED BY <1>2, <1>3 DEF InShare

\* ... and starts one of which no warp has ended.
LEMMA NewInShare ==
    ASSUME NEW g, GpuInv(g), NEW h, NEW total \in Nat, NEW l \in Nat, NEW offset \in Nat,
           Submitted(h, g, total, offset, l), OneLaunch(g), g.launch < l
    PROVE  InShare(h, l, g.next_warp, total, offset)
<1>1. /\ h.start_warp = g.next_warp /\ h.offset = offset /\ h.total_warps = total
      /\ h.next_warp = g.next_warp + total /\ h.launch = l /\ h.ended = g.ended
  BY DEF Submitted
<1>2. g.next_warp \in Nat /\ g.launch \in Nat
  BY DEF GpuInv, GpuTypes
<1>3. ASSUME NEW e \in h.ended PROVE e.launch # l /\ ~Within(e.warp, g.next_warp, total)
  <2>1. e \in g.ended
    BY <1>1
  <2>2. e.warp \in Nat /\ e.warp < g.next_warp
    BY <2>1, EndedWarps
  <2>3. e.launch \in Nat /\ e.launch <= g.launch
    BY <2>1 DEF OneLaunch, Current, EndedRight
  <2> QED BY <1>2, <2>2, <2>3 DEF Within
<1> QED BY <1>1, <1>2, <1>3 DEF InShare

\* A GPU without a share of the launch is left alone.
LEMMA SkippedInShare ==
    ASSUME NEW g, GpuInv(g), NEW l \in Nat, NEW offset, OneLaunch(g), g.launch < l
    PROVE  InShare(g, l, g.next_warp, 0, offset)
<1>1. g.next_warp \in Nat /\ g.launch \in Nat
  BY DEF GpuInv, GpuTypes
<1>2. ASSUME NEW e \in g.ended PROVE e.launch # l /\ ~Within(e.warp, g.next_warp, 0)
  <2>1. e.warp \in Nat /\ e.warp < g.next_warp
    BY EndedWarps
  <2>2. e.launch \in Nat /\ e.launch <= g.launch
    BY DEF OneLaunch, Current, EndedRight
  <2> QED BY <1>1, <2>1, <2>2 DEF Within
<1> QED BY <1>1, <1>2 DEF InShare

(***************************************************************************)
(* The launches, as one GPU has them                                       *)
(***************************************************************************)
EvenUpTo(L, n, l) == \A j \in 1 .. l - 1 : L[j].grid % n = 0

InShareOf(g, L, n, i, l) ==
    InShare(g, l, WarpsBefore(L, n, l), WarpsFor(L[l].grid, n, i), ShareBefore(L[l].grid, n, i))

Tiled(g, L, n, i) ==
    /\ g.launch <= Len(L)
    /\ \A l \in 1 .. Len(L) : EvenUpTo(L, n, l) => InShareOf(g, L, n, i, l)
    /\ EvenUpTo(L, n, Len(L) + 1) => g.next_warp = WarpsBefore(L, n, Len(L) + 1)

LEMMA ShareTypes ==
    ASSUME NEW L, IsLaunches(L), NEW n \in Nat \ {0}, NEW i \in Nat, NEW l \in 1 .. Len(L)
    PROVE  /\ l \in Nat /\ WarpsBefore(L, n, l) \in Nat
           /\ WarpsFor(L[l].grid, n, i) \in Nat /\ ShareBefore(L[l].grid, n, i) \in Nat
<1>1. Len(L) \in Nat /\ DOMAIN L = 1 .. Len(L)
  BY DEF IsLaunches, IsSeq
<1>2. l \in 1 .. Len(L) + 1 /\ L[l].grid \in Nat /\ l \in Nat
  BY <1>1 DEF IsLaunches
<1>3. WarpsBefore(L, n, l) \in Nat
  BY <1>2, BeforeFacts
<1>4. WarpsFor(L[l].grid, n, i) \in Nat /\ ShareBefore(L[l].grid, n, i) \in Nat
  BY <1>2, ShareFacts
<1> QED BY <1>2, <1>3, <1>4

LEMMA ActivateTiled ==
    ASSUME NEW g, NEW h, GpuInv(h), SameShare(h, g), OneLaunch(h), PastKept(h, g),
           NEW L, IsLaunches(L), NEW n \in Nat \ {0}, NEW i \in Nat, Tiled(g, L, n, i)
    PROVE  Tiled(h, L, n, i)
<1>1. ASSUME NEW l \in 1 .. Len(L), EvenUpTo(L, n, l) PROVE InShareOf(h, L, n, i, l)
  <2>1. PICK first, share, offset : /\ first = WarpsBefore(L, n, l) /\ share = WarpsFor(L[l].grid, n, i)
                                    /\ offset = ShareBefore(L[l].grid, n, i)
    OBVIOUS
  <2>2. l \in Nat /\ first \in Nat /\ share \in Nat /\ offset \in Nat
    BY <2>1, ShareTypes
  <2>3. InShare(g, l, first, share, offset)
    BY <1>1, <2>1 DEF Tiled, InShareOf
  <2>4. InShare(h, l, first, share, offset)
    BY <2>2, <2>3, ActivateInShare
  <2> QED BY <2>1, <2>4 DEF InShareOf
<1>2. h.launch = g.launch /\ h.next_warp = g.next_warp
  BY DEF SameShare
<1> QED BY <1>1, <1>2 DEF Tiled

\* The shares of a grid the GPUs divide are equal.
LEMMA EvenShare ==
    ASSUME NEW grid \in Nat, NEW n \in Nat \ {0}, NEW i \in Nat, grid % n = 0
    PROVE  WarpsFor(grid, n, i) = grid \div n
<1>1. grid \div n \in Nat /\ ~(i < grid % n)
  BY DivMod
<1> QED BY <1>1 DEF WarpsFor

\* What a launch of index Len(L) + 1 makes of one GPU.
LaunchedOn(h, g, L, grid, n, i) ==
    \/ WarpsFor(grid, n, i) = 0 /\ h = g
    \/ WarpsFor(grid, n, i) # 0
       /\ Submitted(h, g, WarpsFor(grid, n, i), ShareBefore(grid, n, i), Len(L) + 1)

LEMMA LaunchTiled ==
    ASSUME NEW g, GpuInv(g), OneLaunch(g), NEW L, IsLaunches(L), NEW n \in Nat \ {0}, NEW i \in Nat,
           Tiled(g, L, n, i), NEW x, x.grid \in Nat, NEW M, M = Append(L, x),
           NEW h, LaunchedOn(h, g, L, x.grid, n, i)
    PROVE  IsLaunches(M) /\ Tiled(h, M, n, i)
<1>1. Len(L) \in Nat /\ DOMAIN L = 1 .. Len(L)
  BY DEF IsLaunches, IsSeq
<1>2. IsSeq(M) /\ Len(M) = Len(L) + 1 /\ M[Len(L) + 1] = x /\ \A j \in 1 .. Len(L) : M[j] = L[j]
  <2>1. PICK S : L \in Seq(S)
    BY DEF IsLaunches, IsSeq
  <2>2. Appended(M, L, S, x)
    BY <2>1, AppendFacts
  <2> QED BY <2>2 DEF Appended, IsSeq
<1>3. PICK m : m = Len(L) + 1
  OBVIOUS
<1>4. DOMAIN M = 1 .. m /\ m \in Nat /\ m \in 1 .. Len(L) + 1 /\ m # 0
  BY <1>1, <1>2, <1>3 DEF IsSeq
<1>5. \A l \in 1 .. m : l \in 1 .. Len(L) \/ l = m
  BY <1>1, <1>3
<1>6. IsLaunches(M)
  BY <1>1, <1>2, <1>3, <1>4, <1>5 DEF IsLaunches
<1>7. ASSUME NEW l \in 1 .. m
      PROVE  WarpsBefore(M, n, l) = WarpsBefore(L, n, l) /\ (EvenUpTo(M, n, l) <=> EvenUpTo(L, n, l))
  <2>1. l \in 1 .. Len(L) + 1 /\ \A j \in 1 .. l - 1 : j \in 1 .. Len(L)
    BY <1>1, <1>3
  <2>2. WarpsBefore(M, n, l) = WarpsBefore(L, n, l)
    BY <1>2, <2>1, BeforeKept
  <2>3. \A j \in 1 .. l - 1 : M[j] = L[j]
    BY <1>2, <2>1
  <2> QED BY <2>2, <2>3 DEF EvenUpTo
<1>8. PICK total, offset : total = WarpsFor(x.grid, n, i) /\ offset = ShareBefore(x.grid, n, i)
  OBVIOUS
<1>9. total \in Nat /\ offset \in Nat
  BY <1>8, ShareFacts
<1>10. \/ total = 0 /\ h = g
       \/ total # 0 /\ Submitted(h, g, total, offset, m)
  BY <1>3, <1>8 DEF LaunchedOn
<1>11. g.launch \in Nat /\ g.launch <= Len(L) /\ g.launch < m /\ g.next_warp \in Nat
  <2>1. g.launch \in Nat /\ g.launch <= Len(L) /\ g.next_warp \in Nat
    BY DEF GpuInv, GpuTypes, Tiled
  <2> QED BY <1>1, <1>3, <2>1
<1>12. h.launch <= m /\ h.next_warp = g.next_warp + total
  <2>1. CASE total = 0 /\ h = g
    BY <1>4, <1>11, <2>1
  <2>2. CASE Submitted(h, g, total, offset, m)
    BY <1>4, <2>2 DEF Submitted
  <2> QED BY <1>10, <2>1, <2>2
<1>13. ASSUME NEW l \in 1 .. Len(L), EvenUpTo(M, n, l) PROVE InShareOf(h, M, n, i, l)
  <2>1. PICK first, share, off : /\ first = WarpsBefore(L, n, l) /\ share = WarpsFor(L[l].grid, n, i)
                                 /\ off = ShareBefore(L[l].grid, n, i)
    OBVIOUS
  <2>2. l \in Nat /\ first \in Nat /\ share \in Nat /\ off \in Nat
    BY <2>1, ShareTypes
  <2>3. l \in 1 .. m /\ l # m
    BY <1>1, <1>3
  <2>4. InShare(g, l, first, share, off)
    BY <1>7, <1>13, <2>1, <2>3 DEF Tiled, InShareOf
  <2>5. InShare(h, l, first, share, off)
    <3>1. CASE h = g
      BY <2>4, <3>1
    <3>2. CASE Submitted(h, g, total, offset, m)
      BY <1>9, <2>2, <2>3, <2>4, <3>2, LaunchInShare
    <3> QED BY <1>10, <3>1, <3>2
  <2>6. WarpsBefore(M, n, l) = first /\ M[l] = L[l]
    BY <1>2, <1>7, <2>1, <2>3
  <2> QED BY <2>1, <2>5, <2>6 DEF InShareOf
<1>14. ASSUME EvenUpTo(M, n, m) PROVE InShareOf(h, M, n, i, m) /\ g.next_warp = WarpsBefore(M, n, m)
  <2>1. m \in 1 .. m
    BY <1>4
  <2>2. g.next_warp = WarpsBefore(M, n, m)
    <3>1. EvenUpTo(L, n, m) /\ WarpsBefore(M, n, m) = WarpsBefore(L, n, m)
      BY <1>7, <1>14, <2>1
    <3> QED BY <1>3, <3>1 DEF Tiled
  <2>3. InShare(h, m, g.next_warp, total, offset)
    <3>1. CASE total = 0 /\ h = g
      BY <1>4, <1>11, <3>1, SkippedInShare
    <3>2. CASE Submitted(h, g, total, offset, m)
      BY <1>4, <1>9, <1>11, <3>2, NewInShare
    <3> QED BY <1>10, <3>1, <3>2
  <2> QED BY <1>2, <1>3, <1>8, <2>2, <2>3 DEF InShareOf
<1>15. ASSUME EvenUpTo(M, n, m + 1) PROVE h.next_warp = WarpsBefore(M, n, m + 1)
  <2>1. m \in 1 .. (m + 1) - 1 /\ m + 1 \in 1 .. Len(M) + 1 /\ m + 1 # 1 /\ (m + 1) - 1 = m
        /\ \A j \in 1 .. m - 1 : j \in 1 .. (m + 1) - 1
    BY <1>1, <1>2, <1>3, <1>4
  <2>2. x.grid % n = 0 /\ EvenUpTo(M, n, m)
    BY <1>2, <1>3, <1>15, <2>1 DEF EvenUpTo
  <2>3. WarpsBefore(M, n, m + 1) = WarpsBefore(M, n, m) + (x.grid \div n)
    <3>1. PICK k : k = m + 1
      OBVIOUS
    <3>2. k \in 1 .. Len(M) + 1 /\ k # 1 /\ k - 1 = m /\ M[m] = x
      BY <1>2, <1>3, <2>1, <3>1
    <3>3. WarpsBefore(M, n, k) = WarpsBefore(M, n, k - 1) + (M[k - 1].grid \div n)
      BY <1>6, <3>2, BeforeFacts
    <3> QED BY <3>1, <3>2, <3>3
  <2>4. total = x.grid \div n
    BY <1>8, <2>2, EvenShare
  <2> QED BY <1>12, <1>14, <2>2, <2>3, <2>4
<1>16. \A l \in 1 .. Len(M) : EvenUpTo(M, n, l) => InShareOf(h, M, n, i, l)
  BY <1>2, <1>3, <1>5, <1>13, <1>14
<1> QED BY <1>2, <1>3, <1>6, <1>12, <1>15, <1>16 DEF Tiled

(***************************************************************************)
(* When nothing runs, the ended warps of a launch are its grid             *)
(***************************************************************************)
LEMMA AllHaveEnded ==
    ASSUME NEW g, GpuInv(g), Over(g)
    PROVE  \A w \in 0 .. g.next_warp - 1 : \E e \in g.ended : e.warp = w
<1>1. \A c \in Cu : ToSet(g.ready[c]) = {}
  BY DEF Over, SchedulerComplete, ToSet
<1>2. Queued(g) = {}
  BY <1>1 DEF Queued
<1>3. g.barrier_queue = << >>
  BY DEF Over
<1>4. DOMAIN g.barrier_queue = {}
  BY <1>3
<1>5. Waiting(g) = {}
  BY <1>4 DEF Waiting
<1>6. Gone(g) = 0 .. g.next_warp - 1
  <2>1. PICK Q, W, E : Q = Queued(g) /\ W = Waiting(g) /\ E = Gone(g)
    OBVIOUS
  <2>2. Q \cup W \cup E \cup {} = 0 .. g.next_warp - 1
    BY <2>1 DEF GpuInv, Placed, Apart
  <2> QED BY <1>2, <1>5, <2>1, <2>2
<1> QED BY <1>6 DEF Gone

\* Where the warps of GPU i end in the grid.
LEMMA InShareGlobal ==
    ASSUME NEW g, GpuInv(g), NEW grid \in Nat, NEW n \in Nat \ {0}, NEW i \in 0 .. n - 1,
           NEW l, NEW first \in Nat, InShare(g, l, first, WarpsFor(grid, n, i), ShareBefore(grid, n, i)),
           NEW e \in g.ended, e.launch = l
    PROVE  /\ e.global_warp = e.warp + ShareBefore(grid, n, i) /\ e.warp \in Nat
           /\ e.global_warp \in first + ShareBefore(grid, n, i) .. first + ShareBefore(grid, n, i + 1) - 1
           /\ e.global_warp \in first .. first + grid - 1
<1>1. PICK share, off : share = WarpsFor(grid, n, i) /\ off = ShareBefore(grid, n, i)
  OBVIOUS
<1>2. share \in Nat /\ off \in Nat /\ ShareBefore(grid, n, i + 1) = off + share
  BY <1>1, ShareFacts
<1>3. off + share <= grid
  <2>1. ShareBefore(grid, n, i + 1) <= ShareBefore(grid, n, n)
    BY SharesApart
  <2>2. ShareBefore(grid, n, n) = grid
    BY ShareFacts
  <2> QED BY <1>2, <2>1, <2>2
<1>4. e.warp \in Nat
  BY EndedWarps
<1>5. first <= e.warp /\ e.warp < first + share /\ e.global_warp = e.warp + off
  BY <1>1 DEF InShare, Within
<1>6. PICK w, v : w = e.warp /\ v = e.global_warp
  OBVIOUS
<1>7. v = w + off /\ v \in first + off .. first + (off + share) - 1 /\ v \in first .. first + grid - 1
  BY <1>2, <1>3, <1>4, <1>5, <1>6
<1> QED BY <1>1, <1>2, <1>4, <1>6, <1>7

EndedShare(i, n, l, first, grid) ==
    /\ GpuInv(gpu[i]) /\ Over(gpu[i])
    /\ InShare(gpu[i], l, first, WarpsFor(grid, n, i), ShareBefore(grid, n, i))

FillsGrid(l, first, grid) ==
    /\ {x[2].global_warp : x \in EndedOf(l)} = first .. first + grid - 1
    /\ Cardinality(EndedOf(l)) = grid

LEMMA GridTiled ==
    ASSUME NEW n \in Nat \ {0}, Gpu = 0 .. n - 1, NEW l, NEW first \in Nat, NEW grid \in Nat,
           \A i \in Gpu : EndedShare(i, n, l, first, grid)
    PROVE  FillsGrid(l, first, grid)
<1>0. ASSUME NEW i \in Gpu
      PROVE  /\ GpuInv(gpu[i]) /\ Over(gpu[i])
             /\ InShare(gpu[i], l, first, WarpsFor(grid, n, i), ShareBefore(grid, n, i))
  BY DEF EndedShare
<1>1. PICK E, I : E = EndedOf(l) /\ I = first .. first + grid - 1
  OBVIOUS
<1>2. ASSUME NEW x \in E
      PROVE  \E i \in 0 .. n - 1 : \E e \in gpu[i].ended : x = <<i, e>> /\ e.launch = l
  BY <1>1 DEF EndedOf
<1>3. ASSUME NEW i \in 0 .. n - 1, NEW e \in gpu[i].ended, e.launch = l PROVE <<i, e>> \in E
  BY <1>1, <1>3 DEF EndedOf
<1>4. ASSUME NEW i \in 0 .. n - 1, NEW e \in gpu[i].ended, e.launch = l
      PROVE  /\ e.global_warp = e.warp + ShareBefore(grid, n, i) /\ e.warp \in Nat
             /\ e.global_warp \in first + ShareBefore(grid, n, i) .. first + ShareBefore(grid, n, i + 1) - 1
             /\ e.global_warp \in I
  BY <1>0, <1>1, <1>4, InShareGlobal
<1>5. PICK F : F = [x \in E |-> x[2].global_warp]
  OBVIOUS
<1>6. F \in [E -> I]
  <2>1. ASSUME NEW x \in E PROVE x[2].global_warp \in I
    <3>0. PICK i \in 0 .. n - 1 : \E e \in gpu[i].ended : x = <<i, e>> /\ e.launch = l
      BY <1>2
    <3>1. PICK e \in gpu[i].ended : x = <<i, e>> /\ e.launch = l
      BY <3>0
    <3>2. e.global_warp \in I /\ x[2] = e
      BY <1>4, <3>1
    <3> QED BY <3>2
  <2> QED BY <1>5, <2>1
<1>7. ASSUME NEW x \in E, NEW y \in E, F[x] = F[y] PROVE x = y
  <2>0. PICK i \in 0 .. n - 1 : \E e \in gpu[i].ended : x = <<i, e>> /\ e.launch = l
    BY <1>2
  <2>1. PICK e \in gpu[i].ended : x = <<i, e>> /\ e.launch = l
    BY <2>0
  <2>14. PICK j \in 0 .. n - 1 : \E f \in gpu[j].ended : y = <<j, f>> /\ f.launch = l
    BY <1>2
  <2>2. PICK f \in gpu[j].ended : y = <<j, f>> /\ f.launch = l
    BY <2>14
  <2>3. PICK v : v = e.global_warp /\ v = f.global_warp
    <3>1. x[2] = e /\ y[2] = f
      BY <2>1, <2>2
    <3> QED BY <1>5, <1>7, <3>1
  <2>4. PICK a, b, c, d : /\ a = ShareBefore(grid, n, i) /\ b = ShareBefore(grid, n, i + 1)
                          /\ c = ShareBefore(grid, n, j) /\ d = ShareBefore(grid, n, j + 1)
    OBVIOUS
  <2>5. a \in Nat /\ b \in Nat /\ c \in Nat /\ d \in Nat
    <3>1. i \in Nat /\ j \in Nat /\ i + 1 \in Nat /\ j + 1 \in Nat
      OBVIOUS
    <3> QED BY <2>4, <3>1, ShareFacts
  <2>6. v \in first + a .. first + b - 1 /\ v = e.warp + a /\ e.warp \in Nat
    BY <1>4, <2>1, <2>3, <2>4
  <2>7. v \in first + c .. first + d - 1 /\ v = f.warp + c /\ f.warp \in Nat
    BY <1>4, <2>2, <2>3, <2>4
  <2>8. ~(i < j)
    <3>1. ASSUME i < j PROVE b <= c
      BY <2>4, <3>1, SharesApart
    <3> QED BY <2>5, <2>6, <2>7, <3>1
  <2>9. ~(j < i)
    <3>1. ASSUME j < i PROVE d <= a
      BY <2>4, <3>1, SharesApart
    <3> QED BY <2>5, <2>6, <2>7, <3>1
  <2>10. i = j
    BY <2>8, <2>9
  <2>11. e.warp = f.warp
    <3>1. a = c
      BY <2>4, <2>10
    <3>2. PICK p, q : p = e.warp /\ q = f.warp
      OBVIOUS
    <3>3. p \in Nat /\ q \in Nat /\ v = p + a /\ v = q + a
      BY <2>6, <2>7, <3>1, <3>2
    <3>4. p = q
      BY <2>5, <3>3
    <3> QED BY <3>2, <3>4
  <2>12. EndedOnce(gpu[i]) /\ e \in gpu[i].ended /\ f \in gpu[i].ended
    BY <1>0, <2>1, <2>2, <2>10 DEF GpuInv, Placed
  <2>13. e = f
    BY <2>11, <2>12 DEF EndedOnce
  <2> QED BY <2>1, <2>2, <2>10, <2>13
<1>8. ASSUME NEW v \in I PROVE \E x \in E : F[x] = v
  <2>1. PICK w : w = v - first
    OBVIOUS
  <2>2. w \in 0 .. grid - 1 /\ v = first + w
    BY <1>1, <2>1
  <2>3. PICK i \in 0 .. n - 1 : /\ ShareBefore(grid, n, i) <= w
                                /\ w < ShareBefore(grid, n, i) + WarpsFor(grid, n, i)
    BY <2>2, ShareOf
  <2>4. PICK share, off, g : share = WarpsFor(grid, n, i) /\ off = ShareBefore(grid, n, i) /\ g = gpu[i]
    OBVIOUS
  <2>5. share \in Nat /\ off \in Nat
    BY <2>4, ShareFacts
  <2>6. GpuInv(g) /\ Over(g) /\ InShare(g, l, first, share, off)
    BY <1>0, <2>4
  <2>7. first + share <= g.next_warp /\ g.next_warp \in Nat
    BY <2>6 DEF InShare, GpuInv, GpuTypes
  <2>8. PICK u : u = first + (w - off)
    OBVIOUS
  <2>9. u \in 0 .. g.next_warp - 1 /\ first <= u /\ u < first + share /\ u + off = v
    <3>1. PICK N : N = g.next_warp
      OBVIOUS
    <3>2. N \in Nat /\ first + share <= N /\ w \in Nat /\ off <= w /\ w < off + share
      BY <2>2, <2>3, <2>4, <2>7, <3>1
    <3>3. u \in 0 .. N - 1 /\ first <= u /\ u < first + share /\ u + off = v
      BY <2>2, <2>5, <2>8, <3>2
    <3> QED BY <3>1, <3>3
  <2>10. PICK e \in g.ended : e.warp = u
    BY <2>6, <2>9, AllHaveEnded
  <2>11. e.launch = l /\ e.global_warp = v
    BY <2>6, <2>9, <2>10 DEF InShare, Within
  <2>12. PICK x : x = <<i, e>>
    OBVIOUS
  <2>13. x \in E
    BY <1>3, <2>4, <2>10, <2>11, <2>12
  <2>14. F[x] = v
    BY <1>5, <2>11, <2>12, <2>13
  <2> QED BY <2>13, <2>14
<1>9. {x[2].global_warp : x \in E} = I
  <2>1. \A x \in E : F[x] = x[2].global_warp /\ F[x] \in I
    BY <1>5, <1>6
  <2> QED BY <1>8, <2>1
<1>10. ExistsBijection(E, I)
  <2>1. F \in Injection(E, I)
    BY <1>6, <1>7, Fun_IsInj
  <2>2. F \in Surjection(E, I)
    BY <1>6, <1>8, Fun_IsSurj
  <2>3. F \in Bijection(E, I)
    BY <2>1, <2>2, Fun_IsBij
  <2> QED BY <2>3, Fun_ExistsBij
<1>11. Cardinality(E) = grid
  <2>1. first \in Int /\ first + grid - 1 \in Int
    OBVIOUS
  <2>2. IsFiniteSet(I) /\ Cardinality(I) = grid
    <3>1. PICK b : b = first + grid - 1
      OBVIOUS
    <3>2. IsFiniteSet(first .. b) /\ Cardinality(first .. b) = IF first > b THEN 0 ELSE b - first + 1
      BY <2>1, <3>1, FS_Interval
    <3> QED BY <1>1, <3>1, <3>2
  <2>3. ExistsBijection(I, E)
    BY <1>10, Fun_ExistsBijSymmetric
  <2>4. Cardinality(E) = Cardinality(I)
    BY <2>2, <2>3, FS_Bijection
  <2> QED BY <2>2, <2>4
<1> QED BY <1>1, <1>9, <1>11 DEF FillsGrid

(***************************************************************************)
(* The inductive invariant.  For a host that waits, a GPU has one launch   *)
(* at a time; for any other, it still loses and repeats no warp.           *)
(***************************************************************************)
GpuIs(i, n) ==
    /\ GpuInv(gpu[i])
    /\ device[i].total_warps = gpu[i].total_warps /\ device[i].warp_id_offset = gpu[i].offset
    /\ host = "idle" => OneLaunch(gpu[i]) /\ Tiled(gpu[i], launched, n, i)

Fleet(n) ==
    /\ DOMAIN gpu = 0 .. n - 1 /\ device \in Devices(n)
    /\ \A i \in 0 .. n - 1 : GpuIs(i, n)

IInv == host \in HOSTS /\ IsLaunches(launched) /\ \E n \in Nat \ {0} : Fleet(n)

LEMMA NewGpuIs ==
    ASSUME NEW g, g = NewGpu
    PROVE  GpuInv(g) /\ OneLaunch(g) /\ g.total_warps = 0 /\ g.offset = 0 /\ g.launch = 0 /\ g.next_warp = 0
<1>1. PICK r, t, no : /\ r = [c \in Cu |-> << >>] /\ t = [c \in Cu |-> [b \in BarrierId |-> {}]]
                      /\ no = FALSE
  OBVIOUS
<1>2. g = [program |-> << >>, kernel |-> "none", start_warp |-> 0, offset |-> 0, total_warps |-> 0,
           ready |-> r, next_warp |-> 0, event |-> no, in_loop |-> no, barrier_queue |-> << >>,
           barrier_table |-> t, mem |-> << >>, instructions |-> 0,
           launch |-> 0, started |-> << >>, ended |-> {}, pass |-> no]
  BY <1>1 DEF NewGpu
<1>3. IsGpu(g)
  BY <1>2 DEF IsGpu
<1>4. /\ g.program = << >> /\ g.start_warp = 0 /\ g.offset = 0 /\ g.total_warps = 0 /\ g.ready = r
      /\ g.next_warp = 0 /\ g.barrier_queue = << >> /\ g.barrier_table = t /\ g.launch = 0
      /\ g.started = << >> /\ g.ended = {}
  BY <1>2
<1>5. r \in [Cu -> Seq(Nat)] /\ \A c \in Cu : r[c] = << >>
  BY <1>1
<1>6. \A c \in Cu : ToSet(g.ready[c]) = {} /\ IsInjective(g.ready[c])
  BY <1>4, <1>5 DEF ToSet, IsInjective
<1>7. Queued(g) = {} /\ Waiting(g) = {} /\ Gone(g) = {}
  <2>1. Queued(g) = {}
    BY <1>6 DEF Queued
  <2>2. DOMAIN g.barrier_queue = {}
    BY <1>4
  <2> QED BY <1>4, <2>1, <2>2 DEF Waiting, Gone
<1>8. IsSeq(g.barrier_queue) /\ DOMAIN g.barrier_queue = {}
  BY <1>4 DEF IsSeq
<1>9. GpuTypes(g)
  <2>1. t \in [Cu -> [BarrierId -> SUBSET (0 .. 0 - 1)]]
    BY <1>1
  <2>2. g.program \in Programs /\ g.started \in Seq(Nat)
    BY <1>4 DEF Programs
  <2> QED BY <1>3, <1>4, <1>5, <1>8, <2>1, <2>2 DEF GpuTypes
<1>10. Placed(g, {})
  <2>1. 0 .. g.next_warp - 1 = {}
    BY <1>4
  <2>2. Apart(g, {})
    BY <1>7, <2>1 DEF Apart
  <2>3. StartedOnce(g, {})
    BY <1>4, <1>7 DEF StartedOnce, ToSet, IsInjective
  <2>4. QueuesOnce(g) /\ BarrierOnce(g) /\ EndedOnce(g)
    BY <1>4, <1>6, <1>8 DEF QueuesOnce, BarrierOnce, EndedOnce
  <2> QED BY <2>2, <2>3, <2>4 DEF Placed
<1>11. Over(g)
  BY <1>4, <1>5 DEF Over, SchedulerComplete
<1>12. Level(g.ready)
  <2>1. \A c \in Cu : Len(g.ready[c]) = 0
    BY <1>4, <1>5
  <2> QED BY <2>1 DEF Level
<1>13. Current(g, {})
  BY <1>4, <1>7, <1>8 DEF Current, EndedRight
<1>14. TablesMatch(g)
  <2>1. ToSet(g.barrier_queue) = {}
    BY <1>8 DEF ToSet
  <2>2. \A c \in Cu, b \in BarrierId : g.barrier_table[c][b] = {}
    BY <1>1, <1>4
  <2> QED BY <2>1, <2>2 DEF TablesMatch
<1> QED BY <1>4, <1>9, <1>10, <1>11, <1>12, <1>13, <1>14 DEF GpuInv, IdleIsOver, OneLaunch, Wave

LEMMA NothingTiled ==
    ASSUME NEW g, g.launch = 0, g.next_warp = 0, NEW n \in Nat \ {0}, NEW i, NEW L, L = << >>
    PROVE  IsLaunches(L) /\ Tiled(g, L, n, i)
<1>1. IsSeq(L) /\ Len(L) = 0 /\ DOMAIN L = {}
  BY DEF IsSeq
<1>2. IsLaunches(L)
  BY <1>1 DEF IsLaunches
<1>3. WarpsBefore(L, n, 1) = 0
  <2>1. 1 \in 1 .. Len(L) + 1
    BY <1>1
  <2> QED BY <1>2, <2>1, BeforeFacts
<1> QED BY <1>1, <1>2, <1>3 DEF Tiled

LEMMA InitIInv == Init => IInv
<1> SUFFICES ASSUME Init PROVE IInv
  OBVIOUS
<1>1. host \in HOSTS /\ launched = << >>
  BY DEF Init
<1>2. PICK n \in GPU_COUNTS : /\ gpu = [i \in 0 .. n - 1 |-> NewGpu]
                              /\ device = [i \in 0 .. n - 1 |-> [warp_id_offset |-> 0, total_warps |-> 0,
                                                                 start |-> FALSE, done |-> FALSE]]
  BY DEF Init
<1>3. n \in Nat \ {0}
  BY GoldenAssumption
<1>4. IsLaunches(launched)
  BY <1>1, <1>3, NothingTiled, NewGpuIs
<1>5. PICK d, no : no = FALSE /\ d = [warp_id_offset |-> 0, total_warps |-> 0, start |-> no, done |-> no]
  OBVIOUS
<1>6. device = [i \in 0 .. n - 1 |-> d]
  BY <1>2, <1>5
<1>7. d \in Device /\ d.total_warps = 0 /\ d.warp_id_offset = 0
  BY <1>5 DEF Device
<1>8. device \in Devices(n)
  BY <1>6, <1>7 DEF Devices
<1>9. ASSUME NEW i \in 0 .. n - 1 PROVE GpuIs(i, n)
  <2>1. gpu[i] = NewGpu /\ device[i] = d
    BY <1>2, <1>6
  <2>2. /\ GpuInv(gpu[i]) /\ OneLaunch(gpu[i]) /\ gpu[i].total_warps = 0 /\ gpu[i].offset = 0
        /\ gpu[i].launch = 0 /\ gpu[i].next_warp = 0
    BY <2>1, NewGpuIs
  <2>3. Tiled(gpu[i], launched, n, i)
    BY <1>1, <1>3, <2>2, NothingTiled
  <2> QED BY <1>7, <2>1, <2>2, <2>3 DEF GpuIs
<1>10. DOMAIN gpu = 0 .. n - 1
  BY <1>2
<1>11. Fleet(n)
  BY <1>8, <1>9, <1>10 DEF Fleet
<1> QED BY <1>1, <1>3, <1>4, <1>11 DEF IInv

LEMMA FleetSize ==
    ASSUME NEW n \in Nat \ {0}, Gpu = 0 .. n - 1
    PROVE  Cardinality(Gpu) = n
<1>1. PICK b : b = n - 1
  OBVIOUS
<1>2. Cardinality(0 .. b) = IF 0 > b THEN 0 ELSE b - 0 + 1
  BY <1>1, FS_Interval
<1> QED BY <1>1, <1>2

\* What a host that waits sees when it launches.
LEMMA IdleOver ==
    ASSUME NEW n, Fleet(n), AllIdle, NEW i \in 0 .. n - 1
    PROVE  Over(gpu[i])
<1>1. ~gpu[i].event /\ ~gpu[i].in_loop /\ GpuInv(gpu[i])
  BY DEF Fleet, GpuIs, AllIdle, Gpu
<1> QED BY <1>1 DEF GpuInv, IdleIsOver

LEMMA LaunchIInv ==
    ASSUME IInv, NEW k \in KERNELS[host], NEW grid \in GRIDS, Launch(k, grid)
    PROVE  IInv'
<1>1. host \in HOSTS /\ IsLaunches(launched)
  BY DEF IInv
<1>2. PICK n \in Nat \ {0} : Fleet(n)
  BY DEF IInv
<1>3. k \in DOMAIN Program /\ grid \in Nat
  BY <1>1, GoldenAssumption
<1>4. Gpu = 0 .. n - 1 /\ Cardinality(Gpu) = n
  <2>1. Gpu = 0 .. n - 1
    BY <1>2 DEF Fleet, Gpu
  <2> QED BY <2>1, FleetSize
<1>5. /\ gpu' = [i \in 0 .. n - 1 |->
                   IF WarpsFor(grid, n, i) = 0 THEN gpu[i]
                   ELSE LaunchTop(gpu[i], k, WarpsFor(grid, n, i), WarpOffset(grid, n, i))]
      /\ device' = HlsLaunch(device, grid)
      /\ launched' = Append(launched, [kernel |-> k, grid |-> grid])
      /\ host' = host
  BY <1>4 DEF Launch
<1>6. PICK x : x = [kernel |-> k, grid |-> grid]
  OBVIOUS
<1>7. x.grid = grid /\ launched' = Append(launched, x)
  BY <1>5, <1>6
<1>8. Len(launched) + 1 \in Nat
  BY <1>1 DEF IsLaunches, IsSeq
<1>9. device \in Devices(n)
  BY <1>2 DEF Fleet
<1>10. device' \in Devices(n) /\ \A i \in 0 .. n - 1 : device'[i] = SharedDevice(device[i], grid, n, i)
  BY <1>3, <1>5, <1>9, HlsLaunchFacts
<1>11. ASSUME NEW i \in 0 .. n - 1 PROVE GpuIs(i, n)'
  <2>1. PICK g, h, share, off, l : /\ g = gpu[i] /\ h = gpu'[i] /\ share = WarpsFor(grid, n, i)
                                   /\ off = ShareBefore(grid, n, i) /\ l = Len(launched) + 1
    OBVIOUS
  <2>2. share \in Nat /\ off \in Nat /\ l \in Nat /\ i \in Nat
    <3>1. i \in Nat /\ grid \in Nat /\ n \in Nat \ {0}
      BY <1>3
    <3>2. ShareBefore(grid, n, i) \in Nat /\ WarpsFor(grid, n, i) \in Nat
      BY <3>1, ShareFacts
    <3> QED BY <1>8, <2>1, <3>1, <3>2
  <2>3. /\ GpuInv(g) /\ device[i].total_warps = g.total_warps /\ device[i].warp_id_offset = g.offset
        /\ host = "idle" => OneLaunch(g) /\ Tiled(g, launched, n, i)
    BY <1>2, <2>1 DEF Fleet, GpuIs
  <2>4. /\ share = 0 => h = g
        /\ share # 0 => h = LaunchTop(g, k, share, off)
    <3>1. WarpOffset(grid, n, i) = off
      BY <1>3, <2>1, <2>2, OffsetIsShare
    <3> QED BY <1>5, <2>1, <3>1
  <2>5. /\ GpuInv(h)
        /\ share # 0 => Submitted(h, g, share, off, l)
        /\ share # 0 /\ OneLaunch(g) /\ Over(g) /\ g.launch < l => OneLaunch(h)
    <3>1. CASE share = 0
      BY <2>3, <2>4, <3>1
    <3>2. CASE share # 0
      <4>1. h = LaunchTop(g, k, share, off)
        BY <2>4, <3>2
      <4>2. GpuInv(g) /\ k \in DOMAIN Program /\ l = Len(launched) + 1
        BY <1>3, <2>1, <2>3
      <4> QED BY <2>2, <4>1, <4>2, LaunchFacts
    <3> QED BY <3>1, <3>2
  <2>6. device'[i].total_warps = h.total_warps /\ device'[i].warp_id_offset = h.offset
    <3>1. CASE share = 0
      <4>1. device'[i] = device[i]
        BY <1>10, <2>1, <3>1 DEF SharedDevice
      <4> QED BY <2>3, <2>4, <3>1, <4>1
    <3>2. CASE share # 0
      <4>1. PICK d, e : d = device[i] /\ e = device'[i]
        OBVIOUS
      <4>2. e = HlsLaunchDevice(d, off, share)
        BY <1>10, <2>1, <3>2, <4>1 DEF SharedDevice
      <4>3. d \in Device
        BY <1>9, <4>1 DEF Devices
      <4>4. e.total_warps = share /\ e.warp_id_offset = off
        BY <2>2, <4>2, <4>3, LaunchDeviceType
      <4>5. h.total_warps = share /\ h.offset = off
        BY <2>5, <3>2 DEF Submitted
      <4> QED BY <4>1, <4>4, <4>5
    <3> QED BY <3>1, <3>2
  <2>7. ASSUME host = "idle" PROVE OneLaunch(h) /\ Tiled(h, launched', n, i)
    <3>1. OneLaunch(g) /\ Tiled(g, launched, n, i) /\ Over(g)
      <4>1. AllIdle
        BY <2>7 DEF Launch, HostMayLaunch
      <4> QED BY <1>2, <2>1, <2>3, <2>7, <4>1, IdleOver
    <3>2. g.launch < l
      <4>1. g.launch \in Nat /\ g.launch <= Len(launched)
        BY <2>3, <3>1 DEF GpuInv, GpuTypes, Tiled
      <4> QED BY <2>1, <2>2, <4>1
    <3>3. OneLaunch(h)
      BY <2>4, <2>5, <3>1, <3>2
    <3>4. LaunchedOn(h, g, launched, grid, n, i)
      BY <2>1, <2>4, <2>5 DEF LaunchedOn
    <3>5. Tiled(h, launched', n, i)
      BY <1>1, <1>3, <1>7, <2>2, <2>3, <3>1, <3>4, LaunchTiled
    <3> QED BY <3>3, <3>5
  <2> QED BY <1>5, <2>1, <2>5, <2>6, <2>7 DEF GpuIs
<1>12. IsLaunches(launched')
  <2>1. PICK S : launched \in Seq(S)
    BY <1>1 DEF IsLaunches, IsSeq
  <2>2. PICK M : M = launched'
    OBVIOUS
  <2>3. Appended(M, launched, S, x)
    BY <1>7, <2>1, <2>2, AppendFacts
  <2>4. /\ IsSeq(M) /\ DOMAIN M = 1 .. Len(launched) + 1 /\ M[Len(launched) + 1] = x
        /\ DOMAIN launched = 1 .. Len(launched) /\ Len(launched) \in Nat
        /\ \A j \in 1 .. Len(launched) : M[j] = launched[j]
    BY <2>3 DEF Appended, IsSeq
  <2>5. \A j \in 1 .. Len(launched) + 1 : j \in 1 .. Len(launched) \/ j = Len(launched) + 1
    BY <2>4
  <2> QED BY <1>1, <1>3, <1>7, <2>2, <2>4, <2>5 DEF IsLaunches
<1>13. Fleet(n)'
  <2>1. DOMAIN gpu' = 0 .. n - 1
    BY <1>5
  <2> QED BY <1>10, <1>11, <2>1 DEF Fleet
<1> QED BY <1>1, <1>5, <1>12, <1>13 DEF IInv

LEMMA ActivateIInv ==
    ASSUME IInv, NEW i \in Gpu, Activate(i)
    PROVE  IInv'
<1>1. host \in HOSTS /\ IsLaunches(launched)
  BY DEF IInv
<1>2. PICK n \in Nat \ {0} : Fleet(n)
  BY DEF IInv
<1>3. i \in 0 .. n - 1 /\ DOMAIN gpu = 0 .. n - 1
  BY <1>2 DEF Fleet, Gpu
<1>4. PICK g, s, p, h : g = gpu[i] /\ s = SimulationStep(g) /\ p = (~s.pass) /\ h = [s EXCEPT !.pass = p]
  OBVIOUS
<1>13. PassSet(h, s, p) /\ Activation(gpu[i]) = h
  BY <1>4 DEF PassSet, Activation
<1>5. gpu' = [gpu EXCEPT ![i] = h] /\ host' = host /\ device' = device /\ launched' = launched
  BY <1>13 DEF Activate
<1>6. /\ GpuInv(g) /\ device[i].total_warps = g.total_warps /\ device[i].warp_id_offset = g.offset
      /\ host = "idle" => OneLaunch(g) /\ Tiled(g, launched, n, i)
  BY <1>2, <1>3, <1>4 DEF Fleet, GpuIs
<1>7. /\ GpuInv(h) /\ SameShare(h, g)
      /\ OneLaunch(g) => OneLaunch(h) /\ PastKept(h, g)
  <2>1. g = gpu[i] /\ s = SimulationStep(g)
    BY <1>4
  <2> QED BY <1>6, <1>13, <2>1, ActivateFacts
<1>8. ASSUME host = "idle" PROVE OneLaunch(h) /\ Tiled(h, launched, n, i)
  <2>1. OneLaunch(h) /\ PastKept(h, g) /\ Tiled(g, launched, n, i)
    BY <1>6, <1>7, <1>8
  <2> QED BY <1>1, <1>3, <1>7, <2>1, ActivateTiled
<1>9. gpu'[i] = h /\ DOMAIN gpu' = 0 .. n - 1 /\ \A j \in 0 .. n - 1 : j # i => gpu'[j] = gpu[j]
  BY <1>3, <1>5
<1>10. GpuIs(i, n)'
  <2>1. h.total_warps = g.total_warps /\ h.offset = g.offset
    BY <1>7 DEF SameShare
  <2> QED BY <1>5, <1>6, <1>7, <1>8, <1>9, <2>1 DEF GpuIs
<1>11. ASSUME NEW j \in 0 .. n - 1, j # i PROVE GpuIs(j, n)'
  <2>1. GpuIs(j, n) /\ gpu'[j] = gpu[j]
    BY <1>2, <1>9, <1>11 DEF Fleet
  <2> QED BY <1>5, <2>1 DEF GpuIs
<1>12. Fleet(n)'
  BY <1>2, <1>5, <1>9, <1>10, <1>11 DEF Fleet
<1> QED BY <1>1, <1>5, <1>12 DEF IInv

LEMMA DeviceIInv ==
    ASSUME IInv, NEW i \in Gpu, DeviceFinishes(i)
    PROVE  IInv'
<1>1. host \in HOSTS /\ IsLaunches(launched)
  BY DEF IInv
<1>2. PICK n \in Nat \ {0} : Fleet(n)
  BY DEF IInv
<1>3. i \in 0 .. n - 1 /\ DOMAIN gpu = 0 .. n - 1 /\ device \in Devices(n)
  BY <1>2 DEF Fleet, Gpu
<1>4. PICK no, yes : no = FALSE /\ yes = TRUE
  OBVIOUS
<1>5. PICK d, e : d = device[i] /\ e = [warp_id_offset |-> d.warp_id_offset, total_warps |-> d.total_warps,
                                        start |-> no, done |-> yes]
  OBVIOUS
<1>6. d \in Device
  BY <1>3, <1>5 DEF Devices
<1>7. [d EXCEPT !.start = no, !.done = yes] = e
  <2>1. PICK f : f = [d EXCEPT !.start = no, !.done = yes]
    OBVIOUS
  <2>2. f = [warp_id_offset |-> d.warp_id_offset, total_warps |-> d.total_warps,
             start |-> no, done |-> yes]
    BY <1>6, <2>1 DEF Device
  <2> QED BY <1>5, <2>1, <2>2
<1>8. device' = [device EXCEPT ![i] = e] /\ host' = host /\ gpu' = gpu /\ launched' = launched
  <2>1. device' = [device EXCEPT ![i] = [device[i] EXCEPT !.start = FALSE, !.done = TRUE]]
    BY DEF DeviceFinishes
  <2> QED BY <1>4, <1>5, <1>7, <2>1 DEF DeviceFinishes
<1>9. e \in Device /\ e.total_warps = d.total_warps /\ e.warp_id_offset = d.warp_id_offset
  BY <1>4, <1>5, <1>6 DEF Device
<1>10. device' \in Devices(n)
  BY <1>3, <1>8, <1>9 DEF Devices
<1>11. ASSUME NEW j \in 0 .. n - 1 PROVE GpuIs(j, n)'
  <2>1. GpuIs(j, n)
    BY <1>2 DEF Fleet
  <2>2. /\ device'[j].total_warps = device[j].total_warps
        /\ device'[j].warp_id_offset = device[j].warp_id_offset
    <3>1. CASE j = i
      <4>1. device'[j] = e
        BY <1>3, <1>8, <3>1 DEF Devices
      <4> QED BY <1>5, <1>9, <3>1, <4>1
    <3>2. CASE j # i
      BY <1>3, <1>8, <3>2 DEF Devices
    <3> QED BY <3>1, <3>2
  <2> QED BY <1>8, <2>1, <2>2 DEF GpuIs
<1>12. Fleet(n)'
  BY <1>3, <1>8, <1>10, <1>11 DEF Fleet
<1> QED BY <1>1, <1>8, <1>12 DEF IInv

LEMMA NextIInv == IInv /\ [Next]_vars => IInv'
<1> SUFFICES ASSUME IInv, [Next]_vars PROVE IInv'
  OBVIOUS
<1>1. ASSUME host' = host, gpu' = gpu, device' = device, launched' = launched PROVE IInv'
  BY <1>1 DEF IInv, Fleet, GpuIs
<1>2. CASE UNCHANGED vars
  BY <1>1, <1>2 DEF vars
<1>3. ASSUME NEW k \in KERNELS[host], NEW grid \in GRIDS, Launch(k, grid) PROVE IInv'
  BY <1>3, LaunchIInv
<1>4. ASSUME NEW i \in Gpu, Wake(i) \/ Resume(i) \/ DeviceFinishes(i) PROVE IInv'
  <2>1. Activate(i) \/ DeviceFinishes(i)
    BY <1>4 DEF Wake, Resume
  <2> QED BY <2>1, ActivateIInv, DeviceIInv
<1>5. ASSUME NEW k \in DIRECT_KERNELS, NEW a \in DIRECT_SEEDS, NEW b \in DIRECT_SEEDS, RunDirect(k, a, b)
      PROVE  IInv'
  <2>1. host' = host /\ gpu' = gpu /\ device' = device /\ launched' = launched
    BY <1>5 DEF RunDirect
  <2> QED BY <1>1, <2>1
<1> QED BY <1>2, <1>3, <1>4, <1>5 DEF Next

LEMMA SeqOver ==
    ASSUME NEW S, NEW T, NEW s \in Seq(S), ToSet(s) \subseteq T
    PROVE  s \in Seq(T)
<1>1. PICK m : m = Len(s)
  OBVIOUS
<1>2. m \in Nat /\ s \in [1 .. m -> S] /\ DOMAIN s = 1 .. m
  BY <1>1
<1>3. \A i \in 1 .. m : s[i] \in T
  BY <1>2 DEF ToSet
<1>4. s \in [1 .. m -> T]
  BY <1>2, <1>3
<1> QED BY <1>2, <1>4, SeqDef

(***************************************************************************)
(* What the inductive invariant says of each property                      *)
(***************************************************************************)
LEMMA IInvScheduler == IInv => SchedulerInv
<1> SUFFICES ASSUME IInv PROVE SchedulerInv
  OBVIOUS
<1>1. PICK n \in Nat \ {0} : Fleet(n)
  BY DEF IInv
<1>2. Gpu = 0 .. n - 1 /\ device \in [0 .. n - 1 -> Device]
  BY <1>1 DEF Fleet, Gpu, Devices
<1>3. ASSUME NEW i \in Gpu PROVE GpuInv(gpu[i])
  BY <1>1, <1>2, <1>3 DEF Fleet, GpuIs
<1>4. ASSUME NEW i \in Gpu, NEW g, g = gpu[i]
      PROVE  /\ g.total_warps \in Nat /\ g.next_warp \in Nat
             /\ g.ready \in [Cu -> Seq(0 .. g.next_warp)]
             /\ g.barrier_table \in [Cu -> [BarrierId -> SUBSET (0 .. g.next_warp)]]
             /\ \A m \in DOMAIN g.barrier_queue :
                  g.barrier_queue[m].cu_id \in Cu /\ g.barrier_queue[m].bid \in BarrierId
  <2>1. GpuTypes(g) /\ Placed(g, {})
    BY <1>3, <1>4 DEF GpuInv
  <2>2. PICK N, A : N = g.next_warp /\ A = 0 .. N
    OBVIOUS
  <2>3. N \in Nat /\ 0 .. N - 1 \subseteq A
    BY <2>1, <2>2 DEF GpuTypes
  <2>4. g.ready \in [Cu -> Seq(A)]
    <3>1. g.ready \in [Cu -> Seq(Nat)]
      BY <2>1 DEF GpuTypes
    <3>2. ASSUME NEW c \in Cu PROVE g.ready[c] \in Seq(A)
      <4>1. ToSet(g.ready[c]) \subseteq Queued(g)
        BY DEF Queued
      <4>2. Queued(g) \subseteq 0 .. N - 1
        BY <2>1, <2>2 DEF Placed, Apart
      <4>3. g.ready[c] \in Seq(Nat) /\ ToSet(g.ready[c]) \subseteq A
        BY <2>3, <3>1, <4>1, <4>2
      <4> QED BY <4>3, SeqOver
    <3> QED BY <3>1, <3>2
  <2>5. g.barrier_table \in [Cu -> [BarrierId -> SUBSET A]]
    <3>1. PICK B : B = 0 .. N - 1
      OBVIOUS
    <3>2. g.barrier_table \in [Cu -> [BarrierId -> SUBSET B]] /\ B \subseteq A
      BY <2>1, <2>2, <2>3, <3>1 DEF GpuTypes
    <3> QED BY <3>2
  <2> QED BY <2>1, <2>2, <2>4, <2>5 DEF GpuTypes, WaitTypes
<1>5. TypeOK
  <2>1. host \in HOSTS
    BY DEF IInv
  <2>2. \A i \in Gpu : device[i] \in [warp_id_offset : Nat, total_warps : Nat, start : BOOLEAN, done : BOOLEAN]
    BY <1>2 DEF Device
  <2> QED BY <1>4, <2>1, <2>2 DEF TypeOK
<1>6. EachWarpOnce
  <2> SUFFICES ASSUME NEW i \in Gpu, NEW g, g = gpu[i]
               PROVE  /\ ToSet(g.started) \cup Queued(g) = 0 .. g.next_warp - 1
                      /\ ToSet(g.started) \cap Queued(g) = {} /\ IsInjective(g.started)
                      /\ \A c \in Cu : IsInjective(g.ready[c])
                      /\ \A c, d \in Cu : c # d => ToSet(g.ready[c]) \cap ToSet(g.ready[d]) = {}
    BY DEF EachWarpOnce
  <2>1. Placed(g, {})
    BY <1>3 DEF GpuInv
  <2>2. PICK Q, W, E, S, A : /\ Q = Queued(g) /\ W = Waiting(g) /\ E = Gone(g) /\ S = ToSet(g.started)
                             /\ A = 0 .. g.next_warp - 1
    OBVIOUS
  <2>3. Q \cap W = {} /\ Q \cap E = {} /\ Q \cup W \cup E \cup {} = A /\ S = W \cup E \cup {}
    BY <2>1, <2>2 DEF Placed, Apart, StartedOnce
  <2>4. S \cup Q = A /\ S \cap Q = {}
    BY <2>3
  <2> QED BY <2>1, <2>2, <2>4 DEF Placed, StartedOnce, QueuesOnce
<1>7. QueuesBalanced
  BY <1>3 DEF QueuesBalanced, GpuInv, Level
<1> QED BY <1>5, <1>6, <1>7 DEF SchedulerInv

LEMMA IInvBarrier == IInv => BarrierInv
<1> SUFFICES ASSUME IInv, host = "idle" PROVE BarrierInv
  BY DEF BarrierInv, NoWarpOvertakes, BarrierTablesMatch
<1>1. PICK n \in Nat \ {0} : Fleet(n)
  BY DEF IInv
<1>2. ASSUME NEW i \in Gpu PROVE GpuTypes(gpu[i]) /\ OneLaunch(gpu[i])
  <2>1. i \in 0 .. n - 1
    BY <1>1 DEF Fleet, Gpu
  <2> QED BY <1>1, <2>1 DEF Fleet, GpuIs, GpuInv
<1>3. NoWarpOvertakes
  <2> SUFFICES ASSUME NEW i \in Gpu, NEW q, q = gpu[i].barrier_queue, q # << >>
               PROVE  /\ \A e \in gpu[i].ended : e.launch # gpu[i].launch
                      /\ \A m \in DOMAIN q : q[m].ctx.pc = q[1].ctx.pc
                      /\ q[1].ctx.pc # SelectInSeq(gpu[i].program, LAMBDA x : x.op = "BARRIER")
                           => Len(q) = gpu[i].total_warps
    BY DEF NoWarpOvertakes
  <2> QED BY <1>2, NoneOvertakes
<1>4. BarrierTablesMatch
  BY <1>2 DEF BarrierTablesMatch, OneLaunch, TablesMatch
<1> QED BY <1>3, <1>4 DEF BarrierInv

LEMMA IInvSplit == IInv => SplitInv
<1> SUFFICES ASSUME IInv PROVE SplitInv
  OBVIOUS
<1>1. PICK n \in Nat \ {0} : Fleet(n)
  BY DEF IInv
<1>2. IsLaunches(launched)
  BY DEF IInv
<1>3. Gpu = 0 .. n - 1 /\ Cardinality(Gpu) = n
  <2>1. Gpu = 0 .. n - 1
    BY <1>1 DEF Fleet, Gpu
  <2> QED BY <2>1, FleetSize
<1>4. SplitParity
  BY <1>1, <1>3 DEF SplitParity, Fleet, GpuIs
<1>5. ASSUME host = "idle", AllIdle, NEW l \in DOMAIN launched, EvenUpTo(launched, n, l),
             NEW first, first = WarpsBefore(launched, n, l), NEW grid, grid = launched[l].grid
      PROVE  FillsGrid(l, first, grid)
  <2>1. l \in 1 .. Len(launched) /\ l \in 1 .. Len(launched) + 1 /\ grid \in Nat
    BY <1>2, <1>5 DEF IsLaunches, IsSeq
  <2>2. first \in Nat
    BY <1>2, <1>5, <2>1, BeforeFacts
  <2>3. ASSUME NEW i \in Gpu
        PROVE  EndedShare(i, n, l, first, grid)
    <3>1. i \in 0 .. n - 1
      BY <1>3
    <3>2. GpuInv(gpu[i]) /\ Tiled(gpu[i], launched, n, i)
      BY <1>1, <1>5, <3>1 DEF Fleet, GpuIs
    <3>3. Over(gpu[i])
      BY <1>1, <1>5, <3>1, IdleOver
    <3>4. InShareOf(gpu[i], launched, n, i, l)
      BY <1>5, <2>1, <3>2 DEF Tiled
    <3> QED BY <1>5, <3>2, <3>3, <3>4 DEF InShareOf, EndedShare
  <2> QED BY <1>3, <2>1, <2>2, <2>3, GridTiled
<1>6. TidsTileTheGrid
  BY <1>3, <1>5 DEF TidsTileTheGrid, EvenUpTo, FillsGrid
<1> QED BY <1>4, <1>6 DEF SplitInv

LEMMA Invariant == Spec => []IInv
<1>1. Init => IInv
  BY InitIInv
<1>2. IInv /\ [Next]_vars => IInv'
  BY NextIInv
<1> QED BY <1>1, <1>2, PTL DEF Spec

(***************************************************************************)
(* warp_scheduler.cpp: for any number of GPUs and compute units, any       *)
(* grids and kernels of the library, and any host: every warp is in one    *)
(* place, and the ready queues stay level.                                 *)
(***************************************************************************)
THEOREM SchedulerProof == Spec => []SchedulerInv
  BY Invariant, IInvScheduler, PTL

(***************************************************************************)
(* simulationProcess() (top.cpp:127): its barrier holds every warp of a    *)
(* launch until all are there, and the tables name those that wait.        *)
(***************************************************************************)
THEOREM BarrierProof == Spec => []BarrierInv
  BY Invariant, IInvBarrier, PTL

(***************************************************************************)
(* SystemTop::launchKernel() and SystemTopHLS::launchKernel(): the same    *)
(* split on both sides, and shares that tile the grid.                     *)
(***************************************************************************)
THEOREM SplitProof == Spec => []SplitInv
  BY Invariant, IInvSplit, PTL
=============================================================================
