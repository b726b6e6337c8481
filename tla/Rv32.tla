------------------------------- MODULE Rv32 -------------------------------
(***************************************************************************)
(* RV32IMF as the ComputeUnit executes it in binary mode: decodeRV32       *)
(* (models/systemc/integration/riscv_isa.h) and executeRV32                *)
(* (models/systemc/src/compute_unit/compute_unit.cpp), for the             *)
(* instructions the transpiler's assembly assembles to.                    *)
(*                                                                         *)
(* A word has XLEN bits and an I-type immediate ILEN of them (32 and 12 in *)
(* the code), so that every immediate of a small instance is tried.  A     *)
(* float is the word of its bits; the arithmetic on floats is any          *)
(* arithmetic, here one on words, as nothing depends on rounding: what     *)
(* matters is which registers it reads and writes.                         *)
(***************************************************************************)
EXTENDS Integers, Sequences, Bitwise

CONSTANTS
    XLEN,       \* bits of a register
    ILEN        \* bits of an I-type immediate

ASSUME Widths == XLEN \in Nat /\ ILEN \in 2 .. XLEN

WORD == 2 ^ XLEN
Word == 0 .. WORD - 1
IMM_MIN == -(2 ^ (ILEN - 1))
IMM_MAX == 2 ^ (ILEN - 1) - 1
Signed(v) == IF 2 * v >= WORD THEN v - WORD ELSE v
Bool(b) == IF b THEN 1 ELSE 0
Shift(v) == v % XLEN
-----------------------------------------------------------------------------
(***************************************************************************)
(* Encodings: opcode, funct3 and funct7 of the instructions, from the      *)
(* RISC-V manual.                                                          *)
(***************************************************************************)
Encoding ==
    [ add |-> <<51, 0, 0>>, sub |-> <<51, 0, 32>>, sll |-> <<51, 1, 0>>, slt |-> <<51, 2, 0>>,
      sltu |-> <<51, 3, 0>>, xor |-> <<51, 4, 0>>, srl |-> <<51, 5, 0>>, sra |-> <<51, 5, 32>>,
      or |-> <<51, 6, 0>>, and |-> <<51, 7, 0>>, mul |-> <<51, 0, 1>>, div |-> <<51, 4, 1>>,
      divu |-> <<51, 5, 1>>, rem |-> <<51, 6, 1>>, remu |-> <<51, 7, 1>>,
      addi |-> <<19, 0, 0>>, slli |-> <<19, 1, 0>>, slti |-> <<19, 2, 0>>, sltiu |-> <<19, 3, 0>>,
      xori |-> <<19, 4, 0>>, srli |-> <<19, 5, 0>>, srai |-> <<19, 5, 32>>,
      lw |-> <<3, 2, 0>>, sw |-> <<35, 2, 0>>, beq |-> <<99, 0, 0>>, bne |-> <<99, 1, 0>>,
      lui |-> <<55, 0, 0>>, jal |-> <<111, 0, 0>>, jalr |-> <<103, 0, 0>>, fence |-> <<15, 0, 0>>,
      flw |-> <<7, 2, 0>>, fsw |-> <<39, 2, 0>>, fmadd |-> <<67, 0, 0>>,
      fadd |-> <<83, 0, 0>>, fsub |-> <<83, 0, 4>>, fmul |-> <<83, 0, 8>>, fdiv |-> <<83, 0, 12>>,
      fsqrt |-> <<83, 0, 44>>, fsgnj |-> <<83, 0, 16>>, fsgnjn |-> <<83, 1, 16>>,
      fsgnjx |-> <<83, 2, 16>>, fle |-> <<83, 0, 80>>, flt |-> <<83, 1, 80>>, feq |-> <<83, 2, 80>>,
      fcvt_w_s |-> <<83, 0, 96>>, fcvt_s_w |-> <<83, 0, 104>>,
      fmv_x_w |-> <<83, 0, 112>>, fmv_w_x |-> <<83, 0, 120>> ]

\* funct3 -> operation, in the order of the case labels.
MOps == <<"mul", "mulh", "mulhsu", "mulhu", "div", "divu", "rem", "remu">>
AluOps == <<"add", "sll", "slt", "sltu", "xor", "srl", "or", "and">>
ImmOps == <<"addi", "slli", "slti", "sltiu", "xori", "srli", "ori", "andi">>
LoadOps == <<"lb", "lh", "lw", "UNKNOWN", "lbu", "lhu", "UNKNOWN", "UNKNOWN">>
StoreOps == <<"sb", "sh", "sw", "UNKNOWN", "UNKNOWN", "UNKNOWN", "UNKNOWN", "UNKNOWN">>
BranchOps == <<"beq", "bne", "UNKNOWN", "UNKNOWN", "blt", "bge", "bltu", "bgeu">>
CompareOps == <<"fle", "flt", "feq", "UNKNOWN", "UNKNOWN", "UNKNOWN", "UNKNOWN", "UNKNOWN">>

\* decodeRV32(): the operation of an encoding.  Of the OP-FP group, the sign
\* injections (funct7 0x10) are missing.
Decode(opcode, f3, f7, rs2) ==
    CASE opcode = 51 /\ f7 = 1 -> MOps[f3 + 1]
      [] opcode = 51 /\ f7 # 1 ->
            IF f7 = 32 /\ f3 = 0 THEN "sub" ELSE IF f7 = 32 /\ f3 = 5 THEN "sra" ELSE AluOps[f3 + 1]
      [] opcode = 19 -> IF f3 = 5 /\ f7 = 32 THEN "srai" ELSE ImmOps[f3 + 1]
      [] opcode = 3 -> LoadOps[f3 + 1]
      [] opcode = 103 -> "jalr"
      [] opcode = 35 -> StoreOps[f3 + 1]
      [] opcode = 99 -> BranchOps[f3 + 1]
      [] opcode = 55 -> "lui"
      [] opcode = 23 -> "auipc"
      [] opcode = 111 -> "jal"
      [] opcode = 15 -> "fence"
      [] opcode = 7 /\ f3 = 2 -> "flw"
      [] opcode = 39 /\ f3 = 2 -> "fsw"
      [] opcode = 67 /\ f7 % 4 = 0 -> "fmadd"
      [] opcode = 83 /\ f7 = 0 -> "fadd"
      [] opcode = 83 /\ f7 = 4 -> "fsub"
      [] opcode = 83 /\ f7 = 8 -> "fmul"
      [] opcode = 83 /\ f7 = 12 -> "fdiv"
      [] opcode = 83 /\ f7 = 44 -> "fsqrt"
      [] opcode = 83 /\ f7 = 80 -> CompareOps[f3 + 1]
      [] opcode = 83 /\ f7 = 96 -> IF rs2 = 0 THEN "fcvt_w_s" ELSE "fcvt_wu_s"
      [] opcode = 83 /\ f7 = 104 -> IF rs2 = 0 THEN "fcvt_s_w" ELSE "fcvt_s_wu"
      [] opcode = 83 /\ f7 = 112 /\ f3 = 0 -> "fmv_x_w"
      [] opcode = 83 /\ f7 = 120 /\ f3 = 0 -> "fmv_w_x"
      [] OTHER -> "UNKNOWN"

\* The same for an instruction given as a number: the custom opcode 0x0B is
\* the barrier only with rd, funct3 and rs1 zero.
DecodeWord(w) ==
    IF w % 128 = 11 THEN IF (w \div 2 ^ 7) % 2 ^ 13 = 0 THEN "bar" ELSE "UNKNOWN"
    ELSE Decode(w % 128, (w \div 2 ^ 12) % 8, w \div 2 ^ 25, (w \div 2 ^ 20) % 32)

\* The operation an assembled instruction executes as.  The second source of
\* the conversions the assembler produces is register 0.
Op(a) ==
    IF a.op = "word" THEN DecodeWord(a.imm)
    ELSE LET e == Encoding[a.op] IN Decode(e[1], e[2], e[3], 0)
-----------------------------------------------------------------------------
(***************************************************************************)
(* executeRV32().  A machine is [r, f, mem, taken, bar]: the two register  *)
(* files, the memory (0 where nothing was stored), whether the last branch *)
(* was taken and the barrier the last instruction arrived at.              *)
(***************************************************************************)
Quotient(a, b) == LET q == (IF a < 0 THEN -a ELSE a) \div (IF b < 0 THEN -b ELSE b)
                  IN  IF (a < 0) = (b < 0) THEN q ELSE -q
Remainder(a, b) == a - b * Quotient(a, b)

\* The value an operation writes to its integer destination.
IntResult(op, a, b, imm) ==
    CASE op = "add" -> (a + b) % WORD
      [] op = "sub" -> (a - b) % WORD
      [] op = "and" -> a & b
      [] op = "or" -> a | b
      [] op = "xor" -> a ^^ b
      [] op = "sll" -> (a * 2 ^ Shift(b)) % WORD
      [] op = "srl" -> a \div 2 ^ Shift(b)
      [] op = "sra" -> (Signed(a) \div 2 ^ Shift(b)) % WORD
      [] op = "slt" -> Bool(Signed(a) < Signed(b))
      [] op = "sltu" -> Bool(a < b)
      [] op = "mul" -> (Signed(a) * Signed(b)) % WORD
      [] op = "div" -> IF b = 0 THEN WORD - 1 ELSE Quotient(Signed(a), Signed(b)) % WORD
      [] op = "divu" -> IF b = 0 THEN WORD - 1 ELSE a \div b
      [] op = "rem" -> IF b = 0 THEN a ELSE Remainder(Signed(a), Signed(b)) % WORD
      [] op = "remu" -> IF b = 0 THEN a ELSE a % b
      [] op = "addi" -> (a + imm) % WORD
      [] op = "slti" -> Bool(Signed(a) < imm)
      [] op = "sltiu" -> Bool(a < imm % WORD)
      [] op = "xori" -> a ^^ (imm % WORD)
      [] op = "slli" -> (a * 2 ^ Shift(imm)) % WORD
      [] op = "srli" -> a \div 2 ^ Shift(imm)
      [] op = "srai" -> (Signed(a) \div 2 ^ Shift(imm)) % WORD
      [] op = "lui" -> imm % WORD

IntOps == {"add", "sub", "and", "or", "xor", "sll", "srl", "sra", "slt", "sltu", "mul", "div", "divu",
           "rem", "remu", "addi", "slti", "sltiu", "xori", "slli", "srli", "srai", "lui"}

FpArith(op, a, b, c) ==
    CASE op = "fadd" -> (a + b) % WORD
      [] op = "fsub" -> (a - b) % WORD
      [] op = "fmul" -> (a * b) % WORD
      [] op = "fdiv" -> (3 * a + b) % WORD
      [] op = "fmadd" -> (a * b + c) % WORD
      [] op = "fsqrt" -> (a * a + 1) % WORD
FpOps == {"fadd", "fsub", "fmul", "fdiv", "fmadd", "fsqrt"}

\* float(int) and int(float): not the identity on bits.
ToFloat(v) == (v + 1) % WORD
ToInt(v) == (v - 1) % WORD

FpCompare(op, a, b) ==
    Bool(CASE op = "feq" -> a = b [] op = "flt" -> a < b [] op = "fle" -> a <= b)

\* A write to x0 is lost; an unknown instruction does nothing.
Execute(m, a) ==
    LET op == Op(a)
        IntReg(x) == IF x = "x0" THEN 0 ELSE m.r[x]
        at == (IntReg(a.rs1) + a.imm) % WORD
        SetInt(v) == IF a.rd = "x0" THEN m ELSE [m EXCEPT !.r[a.rd] = v]
        Load == IF at \in DOMAIN m.mem THEN m.mem[at] ELSE 0
        Store(v) == [m EXCEPT !.mem = [x \in DOMAIN m.mem \cup {at} |-> IF x = at THEN v ELSE m.mem[x]]]
        SetFp(v) == [m EXCEPT !.f[a.rd] = v]
    IN  CASE op \in IntOps -> SetInt(IntResult(op, IntReg(a.rs1), IntReg(a.rs2), a.imm))
          [] op \in FpOps -> SetFp(FpArith(op, m.f[a.rs1], IF op = "fsqrt" THEN 0 ELSE m.f[a.rs2],
                                           IF op = "fmadd" THEN m.f[a.rs3] ELSE 0))
          [] op \in {"feq", "flt", "fle"} -> SetInt(FpCompare(op, m.f[a.rs1], m.f[a.rs2]))
          [] op = "fmv_x_w" -> SetInt(m.f[a.rs1])
          [] op = "fmv_w_x" -> SetFp(IntReg(a.rs1))
          [] op = "fcvt_w_s" -> SetInt(ToInt(m.f[a.rs1]))
          [] op = "fcvt_s_w" -> SetFp(ToFloat(IntReg(a.rs1)))
          [] op = "lw" -> SetInt(Load)
          [] op = "flw" -> SetFp(Load)
          [] op = "sw" -> Store(IntReg(a.rs2))
          [] op = "fsw" -> Store(m.f[a.rs2])
          [] op = "beq" -> [m EXCEPT !.taken = IntReg(a.rs1) = IntReg(a.rs2)]
          [] op = "bne" -> [m EXCEPT !.taken = IntReg(a.rs1) # IntReg(a.rs2)]
          [] op \in {"jal", "jalr"} -> [m EXCEPT !.taken = TRUE]
          [] op = "bar" -> [m EXCEPT !.bar = a.imm \div 2 ^ 20]
          [] OTHER -> m
=============================================================================
