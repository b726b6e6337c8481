----------------------------- MODULE GoldenIsa -----------------------------
(***************************************************************************)
(* The instruction set of the golden model and the execution of one warp:  *)
(* Instruction and makeInstr (models/systemc/src/common/types.h), the      *)
(* kernel library (kernel_programs.h), SIMTController's masks and          *)
(* ComputeUnit::executeWarp (compute_unit.cpp).                            *)
(*                                                                         *)
(* A mask is the set of the threads whose bit is set.  A register holds a  *)
(* number below WORD (2^32 in the code).  A float is one of the integers   *)
(* floats represent exactly, the values the repository's tests use;        *)
(* floatAsReg is any injective encoding with floatAsReg(0) = 0.  The       *)
(* memory hierarchy is a word memory that reads 0 where nothing was        *)
(* stored: its caches are the subject of module MemorySubsystem.           *)
(***************************************************************************)
EXTENDS Integers, Sequences, SequencesExt

CONSTANTS
    TPW,    \* threads_per_warp, 32 in the default Config
    WORD    \* number of values of a register

Thread == 0 .. TPW - 1
ThreadOrder == [n \in 1 .. TPW |-> n - 1]
Reg == 0 .. 31
Wrap(n) == n % WORD
Signed(n) == IF 2 * n >= WORD THEN n - WORD ELSE n

\* x itself; TLC evaluates the element of the set only once.
Once(x) == CHOOSE v \in {x} : TRUE

FloatTag == WORD \div 2
floatAsReg(n) == IF n = 0 THEN 0 ELSE FloatTag + n
regAsFloat(b) == IF b = 0 THEN 0 ELSE b - FloatTag
-----------------------------------------------------------------------------
(***************************************************************************)
(* Instructions.  BEQ, BNE, JAL and JALR exist as opcodes and execute as   *)
(* no operation, so a program is a straight line.                          *)
(***************************************************************************)
makeInstr(op, rd, rs1, rs2, imm) == [op |-> op, rd |-> rd, rs1 |-> rs1, rs2 |-> rs2, imm |-> imm]

HALT == makeInstr("HALT", 0, 0, 0, 0)
VJOIN == makeInstr("VJOIN", 0, 0, 0, 0)
BARRIER(bid) == makeInstr("BARRIER", 0, 0, 0, bid)

is_memory(op) == op \in {"LW", "SW"}
is_vector(op) == op \in {"VADD", "VSUB", "VMUL", "VFMADD", "VFADD", "VFSUB", "VFMUL", "VFFMADD"}

intSaxpy(alpha, y) ==
    << makeInstr("ADDI", 3, 0, 0, alpha), makeInstr("ADDI", 4, 1, 0, 1),
       makeInstr("ADDI", 5, 0, 0, y), makeInstr("VMUL", 6, 4, 3, 0),
       makeInstr("VADD", 6, 6, 5, 0), HALT >>

fpUniformSaxpy(alpha, x, y) ==
    << makeInstr("ADDI", 3, 0, 0, floatAsReg(alpha)), makeInstr("ADDI", 4, 0, 0, floatAsReg(x)),
       makeInstr("ADDI", 5, 0, 0, floatAsReg(y)), makeInstr("VFMUL", 6, 4, 3, 0),
       makeInstr("VFADD", 6, 6, 5, 0), HALT >>

memoryRoundTrip ==
    << makeInstr("SW", 0, 2, 1, 0), makeInstr("LW", 3, 2, 0, 0), makeInstr("LW", 4, 2, 0, 0), HALT >>

divergentOddEven ==
    << makeInstr("ADDI", 3, 0, 0, 1), makeInstr("AND", 4, 1, 3, 0), makeInstr("VBRANCH", 0, 4, 0, 2),
       makeInstr("ADDI", 5, 0, 0, 100), VJOIN, HALT >>

barrierRoundTrip(bid) ==
    << makeInstr("SW", 0, 2, 1, 0), BARRIER(bid), makeInstr("LW", 3, 2, 0, 0), HALT >>

\* The distance to the partner warp is 128 bytes in the source: 4 * 32 threads.
parallelReduction ==
    << makeInstr("ADDI", 4, 1, 0, 1), makeInstr("SW", 0, 2, 4, 0), BARRIER(0),
       makeInstr("ADDI", 9, 0, 0, 1), makeInstr("SLT", 7, 3, 9, 0), makeInstr("XOR", 8, 7, 9, 0),
       makeInstr("VBRANCH", 0, 7, 0, 2), makeInstr("LW", 5, 2, 0, -(4 * TPW)), VJOIN,
       makeInstr("VBRANCH", 0, 8, 0, 2), makeInstr("LW", 5, 2, 0, 4 * TPW), VJOIN,
       makeInstr("VADD", 6, 4, 5, 0), makeInstr("SW", 0, 2, 6, 8), HALT >>

fpSaxpy == << makeInstr("VFMUL", 6, 4, 3, 0), makeInstr("VFADD", 6, 6, 5, 0), HALT >>

fpFmadd == << makeInstr("VFFMADD", 5, 3, 4, 0), HALT >>

fpDivergentSaxpy ==
    << makeInstr("ADDI", 8, 0, 0, 1), makeInstr("AND", 7, 0, 8, 0), makeInstr("VBRANCH", 0, 7, 0, 3),
       makeInstr("VFMUL", 6, 4, 3, 0), makeInstr("VFADD", 6, 6, 5, 0), VJOIN, HALT >>

fpGemm == [k \in 1 .. 4 |-> makeInstr("VFFMADD", 7, 2 + k, 7 + k, 0)] \o <<HALT>>

conv2d3x3 == [k \in 1 .. 9 |-> makeInstr("VFMADD", 21, 2 + k, 11 + k, 0)] \o <<HALT>>
-----------------------------------------------------------------------------
(***************************************************************************)
(* One instruction.  s is what a running warp can change: its registers,   *)
(* its mask and divergence stack in the SIMT controller, and memory.       *)
(***************************************************************************)
\* a & b, bit by bit.  a | b and a ^ b follow from it: a + b is the sum of a | b
\* and a & b, and a ^ b is what a | b has over a & b.
And[a, b \in Nat] ==
    IF a = 0 \/ b = 0 THEN 0 ELSE 2 * And[a \div 2, b \div 2] + (a % 2) * (b % 2)

\* executeALU(): an opcode it does not know leaves rd alone.
AluResult(i, a, b, old) ==
    CASE i.op \in {"ADD", "ADDI"} -> Wrap(a + b)
      [] i.op = "SUB" -> Wrap(a - b)
      [] i.op = "AND" -> And[a, b]
      [] i.op = "OR"  -> a + b - And[a, b]
      [] i.op = "XOR" -> a + b - 2 * And[a, b]
      [] i.op = "SLT" -> IF Signed(a) < Signed(b) THEN 1 ELSE 0
      [] i.op = "LUI" -> Wrap(b * 4096)
      [] i.op = "FADD" -> floatAsReg(regAsFloat(a) + regAsFloat(b))
      [] i.op = "FMUL" -> floatAsReg(regAsFloat(a) * regAsFloat(b))
      [] OTHER -> old

\* executeVector()
VectorResult(i, a, b, c) ==
    CASE i.op = "VADD" -> Wrap(a + b)
      [] i.op = "VSUB" -> Wrap(a - b)
      [] i.op = "VMUL" -> Wrap(a * b)
      [] i.op = "VFMADD" -> Wrap(a * b + c)
      [] i.op = "VFADD" -> floatAsReg(regAsFloat(a) + regAsFloat(b))
      [] i.op = "VFSUB" -> floatAsReg(regAsFloat(a) - regAsFloat(b))
      [] i.op = "VFMUL" -> floatAsReg(regAsFloat(a) * regAsFloat(b))
      [] i.op = "VFFMADD" -> floatAsReg(regAsFloat(a) * regAsFloat(b) + regAsFloat(c))

\* rd of every active thread becomes value[thread].
WriteRd(s, i, value) ==
    LET Write(regs, t) == IF t \in s.mask THEN [regs EXCEPT ![t][i.rd] = value[t]] ELSE regs
    IN  [s EXCEPT !.regs = FoldLeft(Write, @, ThreadOrder)]

executeALU(s, i) ==
    LET Value(t) == LET r == s.regs[t]
                        b == IF i.op \in {"ADDI", "LUI"} THEN i.imm ELSE r[i.rs2]
                    IN  AluResult(i, r[i.rs1], b, r[i.rd])
    IN  WriteRd(s, i, [t \in s.mask |-> Value(t)])

executeVector(s, i) ==
    LET Value(t) == VectorResult(i, s.regs[t][i.rs1], s.regs[t][i.rs2], s.regs[t][i.rd])
    IN  WriteRd(s, i, [t \in s.mask |-> Value(t)])

loadWord(mem, a) == IF a \in DOMAIN mem THEN mem[a] ELSE 0
storeWord(mem, a, v) == (a :> v) @@ mem

\* executeMemOp(): the threads in ascending order; of two stores to one word the later stays.
executeMemOp(s, i) ==
    LET Addr(t) == s.regs[t][i.rs1] + i.imm
        Load(t) == loadWord(s.mem, Addr(t))
        Store(mem, t) == IF t \in s.mask THEN storeWord(mem, Addr(t), s.regs[t][i.rs2]) ELSE mem
    IN  IF i.op = "LW" THEN WriteRd(s, i, [t \in s.mask |-> Load(t)])
        ELSE [s EXCEPT !.mem = FoldLeft(Store, @, ThreadOrder)]

\* handleBranch(): threads whose rs1 is not 0 are masked until VJOIN.
executeBranch(s, i) ==
    LET taken == {t \in s.mask : s.regs[t][i.rs1] = 0}
    IN  [s EXCEPT !.mask = taken,
                  !.stack = IF taken = s.mask THEN @ ELSE <<s.mask \ taken>> \o @]

\* handleJoin(): with an empty stack it is ignored.
executeJoin(s) ==
    IF s.stack = << >> THEN s ELSE [s EXCEPT !.mask = @ \cup Head(s.stack), !.stack = Tail(@)]

executeInstr(s, i) ==
    CASE i.op = "VBRANCH" -> executeBranch(s, i)
      [] i.op = "VJOIN" -> executeJoin(s)
      [] is_memory(i.op) -> executeMemOp(s, i)
      [] is_vector(i.op) -> executeVector(s, i)
      [] OTHER -> executeALU(s, i)
-----------------------------------------------------------------------------
(***************************************************************************)
(* executeWarp(ctx): runs from ctx.pc to the next BARRIER or HALT, or to   *)
(* the end of the program, without yielding.  initializeWarp() activates   *)
(* every thread and keeps the divergence stack.  ctx.stack is the entry    *)
(* the CU's SIMT controller keeps for this warp id: a resumed warp returns *)
(* to the same CU and ids are never reused.                                *)
(***************************************************************************)
StopAt(ctx) == SelectInSubSeq(ctx.program, ctx.pc + 1, Len(ctx.program),
                              LAMBDA i : i.op \in {"BARRIER", "HALT"})

\* The instructions up to the stop, and what they leave.
Body(ctx, stop) ==
    SubSeq(ctx.program, ctx.pc + 1, IF stop = 0 THEN Len(ctx.program) ELSE stop - 1)

RunBody(ctx, mem, stop) ==
    FoldLeft(LAMBDA st, i : Once(executeInstr(st, i)),
             [regs |-> ctx.regs, mask |-> Thread, stack |-> ctx.stack, mem |-> mem], Body(ctx, stop))

executeWarp(ctx, mem) ==
    LET stop == StopAt(ctx)
        ends == stop = 0 \/ ctx.program[stop].op = "HALT"
        len == Len(Body(ctx, stop))
        s == RunBody(ctx, mem, stop)
    IN  [ctx |-> [ctx EXCEPT !.regs = s.regs, !.stack = s.stack,
                             !.pc = IF ends THEN @ + len ELSE stop,
                             !.state = IF ends THEN "COMPLETE" ELSE "STALLED"],
         mem |-> s.mem,
         bid |-> IF ends THEN 0 ELSE ctx.program[stop].imm,
         instructions |-> len + IF stop = 0 THEN 0 ELSE 1]
=============================================================================
