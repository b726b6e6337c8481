--------------------------- MODULE PtxTranspiler ---------------------------
(***************************************************************************)
(* RvEmitter (driver/src/ptx_transpiler/rv_emitter.cpp): a PTX kernel,     *)
(* parsed by PtxParser, becomes RV32IMF assembly, which clang assembles    *)
(* and a ComputeUnit executes (Rv32).  Beside the compute unit runs a PTX  *)
(* machine, the reference: both execute statement after statement, and     *)
(* their registers, memories, branches and barriers are compared.          *)
(*                                                                         *)
(* One step parses a statement, checks it, emits, assembles and executes   *)
(* its code.  The code does one after the other for the whole kernel; a    *)
(* statement refused at any of these stages refuses the kernel, as here.   *)
(* The register maps only grow and a statement's code depends on nothing   *)
(* else, so the statements executed along any path through the branches    *)
(* of a kernel are a behaviour of this model.                              *)
(***************************************************************************)
EXTENDS Rv32, PtxParser, FiniteSets

CONSTANTS
    IRegs, FRegs,   \* kIRegs, kFRegs: the register pools
    ParamRegs,      \* kParamRegs
    CTX_BASE,       \* THREAD_CTX_BASE of the thread, in gp (addresses count words)
    SHARED_BASE,    \* where shared memory is mapped
    Params,         \* the kernel's parameters: [name, space]
    ParamValues,    \* the argument lists to try
    FloatRegs,      \* the PTX register names that start with an f
    Headers,        \* .address_size with the registers declared .u64, .s64 or .b64
    Statements,     \* position -> the statements a kernel may have there; its length
                    \* bounds the kernels
    GlobalCells, SharedCells    \* the words of the buffers and of shared memory

VARIABLES
    address_size, wide_regs,    \* of the kernel's header
    ireg_map, freg_map,         \* PTX register -> RV register
    error,      \* "" or the stage that refused the kernel
    written,    \* the last statement, as its author meant it
    instr,      \* the last statement, as parsed
    code,       \* the machine code of the last statement
    n,          \* number of statements so far
    m,          \* the compute unit
    p           \* the PTX machine

vars == <<address_size, wide_regs, ireg_map, freg_map, error, written, instr, code, n, m, p>>

AllStatements == UNION Range(Statements)
PtxRegs == UNION {{i.args[k].name : k \in DOMAIN i.args} : i \in AllStatements}
ContextCell(k) == CTX_BASE + k - 1
\* Any values that differ.
ContextValue(k) == (3 * k + 1) % WORD

Init ==
    /\ \E h \in Headers : address_size = h[1] /\ wide_regs = h[2]
    /\ ireg_map = << >> /\ freg_map = << >>
    /\ error = "" /\ n = 0
    /\ written = NoInstr /\ instr = NoInstr /\ code = << >>
    /\ \E args \in ParamValues :
          /\ m = [r |-> [x \in ToSet(IRegs) \cup ToSet(ParamRegs) \cup {"t6", "gp", "ra"} |->
                            IF x = "gp" THEN CTX_BASE
                            ELSE IF \E k \in DOMAIN ParamRegs : ParamRegs[k] = x
                            THEN args[CHOOSE k \in DOMAIN ParamRegs : ParamRegs[k] = x]
                            ELSE 0],
                  f |-> [x \in ToSet(FRegs) |-> 0],
                  mem |-> [x \in {ContextCell(k) : k \in DOMAIN SpecialOrder} |->
                              ContextValue(x - CTX_BASE + 1)],
                  taken |-> FALSE, bar |-> -1]
          /\ p = [v |-> [x \in PtxRegs |-> 0], defined |-> {}, args |-> args,
                  global |-> [x \in GlobalCells |-> 0], shared |-> [x \in SharedCells |-> 0],
                  taken |-> FALSE, bar |-> -1]
-----------------------------------------------------------------------------
(***************************************************************************)
(* Emitted code names its registers <<"i", PTX name>>, <<"f", PTX name>>   *)
(* or <<"x", RV register>>.  uses lists the calls of ireg() and freg() in  *)
(* their order.                                                            *)
(***************************************************************************)
I(x) == <<"i", x>>
F(x) == <<"f", x>>
X(x) == <<"x", x>>
Asm(op, rd, rs1, rs2, rs3, imm) ==
    [op |-> op, rd |-> rd, rs1 |-> rs1, rs2 |-> rs2, rs3 |-> rs3, imm |-> imm]
Rrr(op, rd, rs1, rs2) == Asm(op, rd, rs1, rs2, X("x0"), 0)
Rri(op, rd, rs1, imm) == Asm(op, rd, rs1, X("x0"), X("x0"), imm)
Rr(op, rd, rs1) == Rri(op, rd, rs1, 0)
Li(rd, imm) == Rri("li", rd, X("x0"), imm)

Emitted(uses, lines) == [ok |-> TRUE, uses |-> uses, code |-> lines]
Reject == [ok |-> FALSE, uses |-> << >>, code |-> << >>]
Shape(i, kinds) == Len(i.args) = Len(kinds) /\ \A k \in DOMAIN kinds : i.args[k].kind \in kinds[k]

is64(ty) == ty \in {"u64", "s64", "b64", "f64"}

validateInstruction(i) ==
    /\ i.pred # "" => i.op.op = "bra"
    /\ ~(i.op.op \in {"ld.global", "st.global", "ld.shared", "st.shared"} /\ is64(i.op.ty))
    /\ i.op.op # "mad.wide"
    /\ ~(i.op.op \in {"mul.lo", "div", "rem"} /\ i.op.ty \in {"u64", "s64"})

\* A parameter is in the argument register of its index.
emitLdParam(i) ==
    IF ~Shape(i, <<{"Reg"}, {"MemRef"}>>) THEN Reject
    ELSE LET dst == i.args[1].name
             known == {k \in DOMAIN Params : Params[k].name = i.args[2].param}
             idx == CHOOSE k \in known : \A j \in known : k <= j
             float == \/ dst \in FloatRegs \/ i.op.ty \in {"f32", "f64"}
                      \/ i.op.ty \notin {"u32", "u64", "b32", "b64", "s32"} /\ dst \in DOMAIN freg_map
         IN  IF \/ known = {} \/ idx > Len(ParamRegs)
                \/ i.args[2].off # 0
                \/ /\ i.op.ty \in {"u64", "b64"}
                   /\ \/ address_size # 64 \/ dst \notin wide_regs
                      \/ Params[idx].space \notin {"u64", "b64"}
             THEN Reject
             ELSE IF float
             THEN Emitted(<<F(dst)>>, << Rr("fmv_w_x", F(dst), X(ParamRegs[idx])) >>)
             ELSE Emitted(<<I(dst)>>, << Rr("mv", I(dst), X(ParamRegs[idx])) >>)

\* The register of a loaded or stored value.
Data(i, name) == IF i.op.ty = "f32" THEN F(name) ELSE I(name)

emitLdGlobal(i) ==
    IF ~(Shape(i, <<{"Reg"}, {"MemRef"}>>) /\ i.args[2].base # "") THEN Reject
    ELSE LET base == I(i.args[2].base)
             dst == Data(i, i.args[1].name)
         IN  Emitted(<<base, dst>>,
                     << Rri(IF i.op.ty = "f32" THEN "flw" ELSE "lw", dst, base, i.args[2].off) >>)

emitStGlobal(i) ==
    IF ~(Shape(i, <<{"MemRef"}, {"Reg"}>>) /\ i.args[1].base # "") THEN Reject
    ELSE LET base == I(i.args[1].base)
             src == Data(i, i.args[2].name)
         IN  Emitted(<<base, src>>,
                     << Asm(IF i.op.ty = "f32" THEN "fsw" ELSE "sw", X("x0"), base, src, X("x0"),
                            i.args[1].off) >>)

\* t6 := the address in the shared window.
SharedAddress(ref) ==
    << Li(X("t6"), SHARED_BASE) >>
    \o (IF ref.base = "" THEN << >> ELSE << Rrr("add", X("t6"), X("t6"), I(ref.base)) >>)
BaseUse(ref) == IF ref.base = "" THEN << >> ELSE <<I(ref.base)>>

emitLdShared(i) ==
    IF ~Shape(i, <<{"Reg"}, {"MemRef"}>>) THEN Reject
    ELSE LET dst == Data(i, i.args[1].name)
         IN  Emitted(Append(BaseUse(i.args[2]), dst),
                     Append(SharedAddress(i.args[2]),
                            Rri(IF i.op.ty = "f32" THEN "flw" ELSE "lw", dst, X("t6"), i.args[2].off)))

\* Fault: the store goes to the address in the kernel's register itself.
emitStSharedNoBase(i) ==
    IF ~Shape(i, <<{"MemRef"}, {"Reg"}>>) \/ i.args[1].base = "" THEN Reject
    ELSE LET base == I(i.args[1].base)
             src == Data(i, i.args[2].name)
         IN  Emitted(<<base, src>>,
                     << Asm(IF i.op.ty = "f32" THEN "fsw" ELSE "sw", X("x0"), base, src, X("x0"),
                            i.args[1].off) >>)

emitStShared(i) ==
    IF ~Shape(i, <<{"MemRef"}, {"Reg"}>>) THEN Reject
    ELSE LET src == Data(i, i.args[2].name)
         IN  Emitted(Append(BaseUse(i.args[1]), src),
                     Append(SharedAddress(i.args[1]),
                            Asm(IF i.op.ty = "f32" THEN "fsw" ELSE "sw", X("x0"), X("t6"), src,
                                X("x0"), i.args[1].off)))

\* mv, unless both are the same register.
Move(dst, src) == IF dst = src THEN << >> ELSE << Rr("mv", I(dst), I(src)) >>

\* A special register without an offset in the context gives no code.
emitMov(i) ==
    IF ~Shape(i, <<{"Reg"}, {"Reg", "SpecialReg", "IntImm"}>>) THEN Reject
    ELSE LET dst == i.args[1].name
             src == i.args[2]
             offsets == {k \in DOMAIN SpecialOrder : SpecialOrder[k] = src.name}
         IN  CASE src.kind = "SpecialReg" /\ offsets = {} -> Emitted(<< >>, << >>)
               [] src.kind = "SpecialReg" /\ offsets # {} ->
                     Emitted(<<I(dst)>>,
                             << Rri("lw", I(dst), X("gp"), (CHOOSE k \in offsets : TRUE) - 1) >>)
               [] src.kind = "Reg" /\ dst \in FloatRegs ->
                     Emitted(<<F(dst), F(src.name)>>, << Rr("fmv_s", F(dst), F(src.name)) >>)
               [] src.kind = "Reg" /\ dst \notin FloatRegs ->
                     Emitted(<<I(src.name), I(dst)>>, Move(dst, src.name))
               [] src.kind = "IntImm" -> Emitted(<<I(dst)>>, << Li(I(dst), src.val) >>)

\* The types of the opcode: i.op.ty from i.op.from.
emitCvt(i) ==
    IF ~Shape(i, <<{"Reg"}, {"Reg"}>>) THEN Reject
    ELSE LET dst == i.args[1].name
             src == i.args[2].name
             types == {i.op.ty, i.op.from}
             narrowed == <<i.op.ty, i.op.from>> \in {<<"u64", "u32">>, <<"s64", "s32">>, <<"u32", "u64">>}
             plain == Emitted(<<I(dst), I(src)>>, Move(dst, src))
         IN  CASE i.op.op = "cvta" ->
                     IF address_size = 64 /\ {dst, src} \subseteq wide_regs THEN plain ELSE Reject
               [] i.op.op = "cvt" /\ narrowed -> IF address_size = 64 THEN plain ELSE Reject
               [] i.op.op = "cvt" /\ ~narrowed /\ \E ty \in types : is64(ty) -> Reject
               [] i.op.op = "cvt" /\ types = {"f32", "s32"} ->
                     IF dst \in FloatRegs
                     THEN Emitted(<<F(dst), I(src)>>, << Rr("fcvt_s_w", F(dst), I(src)) >>)
                     ELSE Emitted(<<I(dst), F(src)>>, << Rr("fcvt_w_s", I(dst), F(src)) >>)
               [] OTHER ->
                     CASE dst \in FloatRegs /\ src \notin FloatRegs ->
                             Emitted(<<F(dst), I(src)>>, << Rr("fmv_w_x", F(dst), I(src)) >>)
                       [] dst \notin FloatRegs /\ src \in FloatRegs ->
                             Emitted(<<I(dst), F(src)>>, << Rr("fmv_x_w", I(dst), F(src)) >>)
                       [] dst \in FloatRegs /\ src \in FloatRegs ->
                             Emitted(<<F(dst), F(src)>>, << Rr("fmv_s", F(dst), F(src)) >>)
                       [] dst \notin FloatRegs /\ src \notin FloatRegs -> plain

\* Floats: an operand that is no register has the empty name.
emitSetpFloat(cmp, d, a, b) ==
    CASE cmp = "lt" -> << Rrr("flt", d, a, b) >>
      [] cmp = "gt" -> << Rrr("flt", d, b, a) >>
      [] cmp = "le" -> << Rrr("fle", d, a, b) >>
      [] cmp = "ge" -> << Rrr("fle", d, b, a) >>
      [] cmp = "eq" -> << Rrr("feq", d, a, b) >>
      [] cmp = "ne" -> << Rrr("feq", d, a, b), Rri("xori", d, d, 1) >>
      [] OTHER -> << >>

\* Integers, with a register or an immediate on the right.
emitSetpReg(cmp, slt, d, a, b) ==
    CASE cmp = "lt" -> << Rrr(slt, d, a, b) >>
      [] cmp = "ge" -> << Rrr(slt, d, a, b), Rri("xori", d, d, 1) >>
      [] cmp = "gt" -> << Rrr(slt, d, b, a) >>
      [] cmp = "le" -> << Rrr(slt, d, b, a), Rri("xori", d, d, 1) >>
      [] cmp = "eq" -> << Rrr("xor", d, a, b), Rr("seqz", d, d) >>
      [] cmp = "ne" -> << Rrr("xor", d, a, b), Rr("snez", d, d) >>

emitSetpImm(cmp, slti, d, a, v) ==
    CASE cmp = "lt" -> << Rri(slti, d, a, v) >>
      [] cmp = "ge" -> << Rri(slti, d, a, v), Rri("xori", d, d, 1) >>
      [] cmp = "gt" -> << Rri(slti, d, a, v + 1), Rri("xori", d, d, 1) >>
      [] cmp = "le" -> << Rri(slti, d, a, v + 1) >>
      [] cmp = "eq" -> << Rri("addi", d, a, -v), Rr("seqz", d, d) >>
      [] cmp = "ne" -> << Rri("addi", d, a, -v), Rr("snez", d, d) >>

emitSetp(i) ==
    IF ~(Len(i.args) = 3 /\ i.args[1].kind = "Reg" /\ i.args[2].kind = "Reg") THEN Reject
    ELSE LET d == I(i.args[1].name)
             a == i.args[2].name
             b == i.args[3]
             signed == i.op.ty = "s32"
         IN  IF i.op.ty \in {"f32", "f64"}
             THEN Emitted(<<d, F(a), F(b.name)>>, emitSetpFloat(i.op.cmp, d, F(a), F(b.name)))
             ELSE IF i.op.cmp \notin {"lt", "le", "gt", "ge", "eq", "ne"} THEN Reject
             ELSE IF b.kind = "IntImm"
             THEN Emitted(<<d, I(a)>>,
                          emitSetpImm(i.op.cmp, IF signed THEN "slti" ELSE "sltiu", d, I(a), b.val))
             ELSE Emitted(<<d, I(a), I(b.name)>>,
                          emitSetpReg(i.op.cmp, IF signed THEN "slt" ELSE "sltu", d, I(a), I(b.name)))

\* A conditional branch takes whatever operand it has for a label.
emitBra(i) ==
    CASE i.op.op = "ret" -> Emitted(<< >>, << Rr("ret", X("x0"), X("ra")) >>)
      [] i.op.op = "bra" /\ i.pred = "" ->
            IF i.args # << >> /\ i.args[1].kind = "Label"
            THEN Emitted(<< >>, << Rr("j", X("x0"), X("x0")) >>) ELSE Reject
      [] i.op.op = "bra" /\ i.pred # "" ->
            Emitted(<<I(i.pred)>>, << Rr(IF i.pred_not THEN "beqz" ELSE "bnez", X("x0"), I(i.pred)) >>)

emitBarSync(i) ==
    IF ~(i.pred = "" /\ Shape(i, <<{"IntImm"}>>) /\ i.args[1].val \in 0 .. 15) THEN Reject
    ELSE Emitted(<< >>, << Rri("word", X("x0"), X("x0"), i.args[1].val * 2 ^ 20 + 11) >>)

\* Operations on floats; the ones with a single source are below the operand
\* count that is asked for and give no code.
FpMachine == [add |-> "fadd", sub |-> "fsub", mul |-> "fmul", div |-> "fdiv"]

emitFloat(i) ==
    LET R1(k) == F(i.args[k].name)
        op == i.op.op
    IN  IF Len(i.args) < 3 /\ op # "fma" THEN Emitted(<< >>, << >>)
        ELSE CASE op = "fma" /\ Len(i.args) < 4 -> Emitted(<<R1(1)>>, << >>)
               [] op = "fma" /\ Len(i.args) >= 4 ->
                     Emitted(<<R1(1), R1(2), R1(3), R1(4)>>,
                             << Asm("fmadd", R1(1), R1(2), R1(3), R1(4), 0) >>)
               [] op \in DOMAIN FpMachine ->
                     Emitted(<<R1(1), R1(2), R1(3)>>, << Rrr(FpMachine[op], R1(1), R1(2), R1(3)) >>)
               [] op = "neg" -> Emitted(<<R1(1), R1(2)>>, << Rr("fneg_s", R1(1), R1(2)) >>)
               [] op = "abs" -> Emitted(<<R1(1), R1(2)>>, << Rr("fabs_s", R1(1), R1(2)) >>)
               [] op = "sqrt" -> Emitted(<<R1(1), R1(2)>>, << Rr("fsqrt", R1(1), R1(2)) >>)
               [] OTHER -> Reject

\* addi, or add with the immediate in t6 when it is too long.
AddImmediate(rd, ra, v) ==
    IF v \in IMM_MIN .. IMM_MAX THEN << Rri("addi", rd, ra, v) >>
    ELSE << Li(X("t6"), v), Rrr("add", rd, ra, X("t6")) >>

\* Fault: one shift too few.
MultiplyImmediateShort(rd, ra, v) ==
    IF \E k \in 1 .. XLEN : v = 2 ^ k
    THEN << Rri("slli", rd, ra, (CHOOSE k \in 1 .. XLEN : v = 2 ^ k) - 1) >>
    ELSE << Li(X("t6"), v), Rrr("mul", rd, ra, X("t6")) >>

\* A shift for a power of two.  From 2^(XLEN-1) on, the loop that counts the
\* shift overflows (undefined): no statement has such a factor.
MultiplyImmediate(rd, ra, v) ==
    IF \E k \in 0 .. XLEN - 2 : v = 2 ^ k
    THEN << Rri("slli", rd, ra, CHOOSE k \in 0 .. XLEN - 2 : v = 2 ^ k) >>
    ELSE << Li(X("t6"), v), Rrr("mul", rd, ra, X("t6")) >>

\* In the register form an operand that is no register is x0.
emitInteger(i) ==
    LET rd == I(i.args[1].name)
        rarg(k) == IF k <= Len(i.args) /\ i.args[k].kind = "Reg" THEN I(i.args[k].name) ELSE X("x0")
        v == IF Len(i.args) >= 3 THEN i.args[3].val ELSE 0
        imm == Len(i.args) >= 3 /\ i.args[3].kind = "IntImm"
        signed == i.op.ty = "s32"
        Register(op) == << Rrr(op, rd, rarg(2), rarg(3)) >>
        Logical(op) == IF imm THEN << Li(X("t6"), v), Rrr(op, rd, rarg(2), X("t6")) >> ELSE Register(op)
        op == i.op.op
        lines ==
            CASE op = "not" -> << Rr("not", rd, rarg(2)) >>
              [] op = "neg" -> << Rr("neg", rd, rarg(2)) >>
              [] op = "membar" -> << Rr("fence", X("x0"), X("x0")) >>
              [] op \notin {"not", "neg", "membar"} /\ Len(i.args) < 3 -> << >>
              [] op = "mad.lo" ->
                    IF Len(i.args) < 4 THEN << >>
                    ELSE << Rrr("mul", rd, rarg(2), rarg(3)), Rrr("add", rd, rd, rarg(4)) >>
              [] op = "add" -> IF imm THEN AddImmediate(rd, rarg(2), v) ELSE Register("add")
              [] op = "sub" -> IF imm THEN AddImmediate(rd, rarg(2), -v) ELSE Register("sub")
              [] op \in {"mul.lo", "mul.wide"} ->
                    IF imm THEN MultiplyImmediate(rd, rarg(2), v) ELSE Register("mul")
              [] op = "div" -> Register(IF signed THEN "div" ELSE "divu")
              [] op \in {"rem", "mod"} -> Register(IF signed THEN "rem" ELSE "remu")
              [] op = "shl" -> IF imm THEN << Rri("slli", rd, rarg(2), v) >> ELSE Register("sll")
              [] op = "shr" -> IF imm THEN << Rri(IF signed THEN "srai" ELSE "srli", rd, rarg(2), v) >>
                               ELSE Register(IF signed THEN "sra" ELSE "srl")
              [] op \in {"and", "or", "xor"} -> Logical(op)
    IN  IF Len(i.args) < 2 THEN Emitted(<< >>, << >>)
        ELSE IF op \notin {"add", "sub", "mul.lo", "mul.wide", "mad.lo", "div", "rem", "mod", "shl", "shr",
                           "and", "or", "xor", "not", "neg", "membar"} THEN Reject
        ELSE Emitted(IF lines = << >> THEN <<rd>> ELSE [k \in DOMAIN i.args |-> rarg(k)], lines)

emitArith(i) ==
    IF i.args = << >> THEN Reject
    ELSE IF i.op.ty \in {"f32", "f64"} THEN emitFloat(i) ELSE emitInteger(i)

emitInstr(i) ==
    CASE i.op.op = "ld.param" -> emitLdParam(i)
      [] i.op.op = "ld.global" -> emitLdGlobal(i)
      [] i.op.op = "st.global" -> emitStGlobal(i)
      [] i.op.op = "st.shared" -> emitStShared(i)
      [] i.op.op = "ld.shared" -> emitLdShared(i)
      [] i.op.op = "mov" -> emitMov(i)
      [] i.op.op \in {"cvta", "cvt"} -> emitCvt(i)
      [] i.op.op = "setp" -> emitSetp(i)
      [] i.op.op = "bar.sync" -> emitBarSync(i)
      [] i.op.op \in {"bra", "ret"} -> emitBra(i)
      [] OTHER -> emitArith(i)
-----------------------------------------------------------------------------
(***************************************************************************)
(* The register allocator.                                                 *)
(***************************************************************************)
\* Fault: out of registers, the fallback is used as if it were free.
AllocateFallback(map, pool, name) ==
    [ok |-> TRUE,
     map |-> IF name \in DOMAIN map THEN map
             ELSE [x \in DOMAIN map \cup {name} |->
                      IF x # name THEN map[x]
                      ELSE IF Cardinality(DOMAIN map) < Len(pool) THEN pool[Cardinality(DOMAIN map) + 1]
                      ELSE pool[1]]]

\* ireg(), freg(): the next of the pool on first use.
Allocate(map, pool, name) ==
    IF name \in DOMAIN map THEN [ok |-> TRUE, map |-> map]
    ELSE IF Cardinality(DOMAIN map) >= Len(pool) THEN [ok |-> FALSE, map |-> map]
    ELSE [ok |-> TRUE,
          map |-> [x \in DOMAIN map \cup {name} |->
                      IF x = name THEN pool[Cardinality(DOMAIN map) + 1] ELSE map[x]]]

AllocateAll(map, pool, file, uses) ==
    FoldLeft(LAMBDA acc, u :
                IF u[1] # file THEN acc
                ELSE LET next == Allocate(acc.map, pool, u[2])
                     IN  [ok |-> acc.ok /\ next.ok, map |-> next.map],
             [ok |-> TRUE, map |-> map], uses)

Resolve(u, imap, fmap) == CASE u[1] = "i" -> imap[u[2]] [] u[1] = "f" -> fmap[u[2]] [] u[1] = "x" -> u[2]
-----------------------------------------------------------------------------
(***************************************************************************)
(* clang: pseudo-instructions become instructions; an immediate that does  *)
(* not fit is an error.                                                    *)
(***************************************************************************)
Low(v) == LET l == v % 2 ^ ILEN IN IF l > IMM_MAX THEN l - 2 ^ ILEN ELSE l

Expand(a) ==
    CASE a.op = "mv" -> << [a EXCEPT !.op = "addi"] >>
      [] a.op = "li" ->
            IF a.imm \in IMM_MIN .. IMM_MAX THEN << [a EXCEPT !.op = "addi"] >>
            ELSE << [a EXCEPT !.op = "lui", !.imm = a.imm - Low(a.imm)],
                    [a EXCEPT !.op = "addi", !.rs1 = a.rd, !.imm = Low(a.imm)] >>
      [] a.op = "j" -> << [a EXCEPT !.op = "jal"] >>
      [] a.op = "ret" -> << [a EXCEPT !.op = "jalr"] >>
      [] a.op = "beqz" -> << [a EXCEPT !.op = "beq"] >>
      [] a.op = "bnez" -> << [a EXCEPT !.op = "bne"] >>
      [] a.op = "seqz" -> << [a EXCEPT !.op = "sltiu", !.imm = 1] >>
      [] a.op = "snez" -> << [a EXCEPT !.op = "sltu", !.rs1 = "x0", !.rs2 = a.rs1] >>
      [] a.op = "not" -> << [a EXCEPT !.op = "xori", !.imm = -1] >>
      [] a.op = "neg" -> << [a EXCEPT !.op = "sub", !.rs1 = "x0", !.rs2 = a.rs1] >>
      [] a.op = "fmv_s" -> << [a EXCEPT !.op = "fsgnj", !.rs2 = a.rs1] >>
      [] a.op = "fneg_s" -> << [a EXCEPT !.op = "fsgnjn", !.rs2 = a.rs1] >>
      [] a.op = "fabs_s" -> << [a EXCEPT !.op = "fsgnjx", !.rs2 = a.rs1] >>
      [] OTHER -> << a >>

Assembles(a) ==
    CASE a.op \in {"addi", "slti", "sltiu", "xori", "lw", "sw", "flw", "fsw"} -> a.imm \in IMM_MIN .. IMM_MAX
      [] a.op \in {"slli", "srli", "srai"} -> a.imm \in 0 .. XLEN - 1
      [] a.op = "li" -> a.imm \in -(WORD \div 2) .. WORD - 1
      [] OTHER -> TRUE

\* What becomes of a parsed statement: the maps and the machine code, or the
\* stage that refuses it.
Translate(i) ==
    LET e == emitInstr(i)
        ia == AllocateAll(ireg_map, IRegs, "i", e.uses)
        fa == AllocateAll(freg_map, FRegs, "f", e.uses)
        Located(a) == [a EXCEPT !.rd = Resolve(a.rd, ia.map, fa.map),
                                !.rs1 = Resolve(a.rs1, ia.map, fa.map),
                                !.rs2 = Resolve(a.rs2, ia.map, fa.map),
                                !.rs3 = Resolve(a.rs3, ia.map, fa.map)]
        Refused(stage) == [error |-> stage, ireg_map |-> ireg_map, freg_map |-> freg_map, code |-> << >>]
    IN  IF ~validateInstruction(i) THEN Refused("validate")
        ELSE IF ~e.ok \/ ~ia.ok \/ ~fa.ok THEN Refused("emit")
        ELSE IF \E k \in DOMAIN e.code : ~Assembles(e.code[k]) THEN Refused("assemble")
        ELSE [error |-> "", ireg_map |-> ia.map, freg_map |-> fa.map,
              code |-> FlattenSeq([k \in DOMAIN e.code |-> Expand(Located(e.code[k]))])]
-----------------------------------------------------------------------------
(***************************************************************************)
(* The PTX machine.                                                        *)
(***************************************************************************)
Sources(i) == IF i.op.op \in {"st.global", "st.shared", "bra"} THEN DOMAIN i.args ELSE DOMAIN i.args \ {1}
Reads(i) ==
    {i.args[k].name : k \in {k \in Sources(i) : i.args[k].kind = "Reg"}}
    \cup ({i.args[k].base : k \in DOMAIN i.args} \ {""}) \cup ({i.pred} \ {""})

Operand(o) ==
    CASE o.kind = "Reg" -> p.v[o.name]
      [] o.kind = "SpecialReg" -> ContextValue(CHOOSE k \in DOMAIN SpecialOrder : SpecialOrder[k] = o.name)
      [] o.kind \in {"IntImm", "FltImm"} -> o.val % WORD
Address(o) == ((IF o.base = "" THEN 0 ELSE p.v[o.base]) + o.off) % WORD
Reference(i) == CHOOSE o \in Range(i.args) : o.kind = "MemRef"

\* A well-formed kernel reads what it has written, and stays in its buffers.
Runnable(i) ==
    /\ Reads(i) \subseteq p.defined
    /\ i.op.op \in {"ld.global", "st.global"} => Address(Reference(i)) \in GlobalCells
    /\ i.op.op \in {"ld.shared", "st.shared"} => Address(Reference(i)) \in SharedCells

Compare(cmp, a, b) ==
    Bool(CASE cmp = "lt" -> a < b [] cmp = "le" -> a <= b [] cmp = "gt" -> a > b
           [] cmp = "ge" -> a >= b [] cmp = "eq" -> a = b [] cmp = "ne" -> a # b)

\* The value a statement computes.
Value(i) ==
    LET a == Operand(i.args[2])
        b == Operand(i.args[3])
        signed == i.op.ty = "s32"
        op == i.op.op
    IN  CASE op = "ld.param" -> p.args[CHOOSE k \in DOMAIN Params : Params[k].name = i.args[2].param]
          [] op = "ld.global" -> p.global[Address(i.args[2])]
          [] op = "ld.shared" -> p.shared[Address(i.args[2])]
          [] op \in {"mov", "cvta"} -> a
          [] op = "cvt" -> CASE <<i.op.ty, i.op.from>> = <<"f32", "s32">> -> ToFloat(a)
                             [] <<i.op.ty, i.op.from>> = <<"s32", "f32">> -> ToInt(a)
                             [] OTHER -> a
          [] op = "setp" -> IF signed THEN Compare(i.op.cmp, Signed(a), Signed(b)) ELSE Compare(i.op.cmp, a, b)
          [] op = "fma" -> FpArith("fmadd", a, b, Operand(i.args[4]))
          [] i.op.ty = "f32" /\ op \in DOMAIN FpMachine -> FpArith(FpMachine[op], a, b, 0)
          [] i.op.ty # "f32" /\ op = "add" -> (a + b) % WORD
          [] i.op.ty # "f32" /\ op = "sub" -> (a - b) % WORD
          [] op \in {"mul.lo", "mul.wide"} -> (a * b) % WORD
          [] op = "mad.lo" -> (a * b + Operand(i.args[4])) % WORD
          [] i.op.ty # "f32" /\ op = "div" -> IntResult(IF signed THEN "div" ELSE "divu", a, b, 0)
          [] op = "rem" -> IntResult(IF signed THEN "rem" ELSE "remu", a, b, 0)
          [] op = "shl" -> IF b >= XLEN THEN 0 ELSE (a * 2 ^ b) % WORD
          [] op = "shr" -> IF signed THEN (Signed(a) \div 2 ^ (IF b >= XLEN THEN XLEN ELSE b)) % WORD
                           ELSE IF b >= XLEN THEN 0 ELSE a \div 2 ^ b
          [] op \in {"and", "or", "xor"} -> IntResult(op, a, b, 0)
          [] op = "not" -> WORD - 1 - a
          [] op = "neg" -> (-a) % WORD

Meaning(i) ==
    CASE i.op.op = "st.global" -> [p EXCEPT !.global[Address(i.args[1])] = Operand(i.args[2])]
      [] i.op.op = "st.shared" -> [p EXCEPT !.shared[Address(i.args[1])] = Operand(i.args[2])]
      [] i.op.op = "bra" -> [p EXCEPT !.taken = i.pred = "" \/ ((p.v[i.pred] # 0) # i.pred_not)]
      [] i.op.op = "ret" -> [p EXCEPT !.taken = TRUE]
      [] i.op.op = "bar.sync" -> [p EXCEPT !.bar = i.args[1].val]
      [] i.op.op = "membar" -> p
      [] OTHER -> [p EXCEPT !.v[i.args[1].name] = Value(i), !.defined = @ \cup {i.args[1].name}]
-----------------------------------------------------------------------------
\* What the parser makes of the spellings of a statement.
Spellings(s) == {ParseInstr(Write(s, spaced)) : spaced \in BOOLEAN}

\* One statement of the kernel.
Statement(s, parsed) ==
    /\ error = ""
    /\ LET t == Translate(parsed.instr)
       IN  /\ written' = s /\ instr' = parsed.instr /\ n' = n + 1
           /\ IF ~parsed.ok
              THEN error' = "parse" /\ code' = << >> /\ UNCHANGED <<ireg_map, freg_map, m, p>>
              ELSE /\ error' = t.error
                   /\ ireg_map' = t.ireg_map /\ freg_map' = t.freg_map
                   /\ code' = t.code /\ m' = FoldLeft(Execute, m, t.code)
                   /\ p' = IF t.error = "" THEN Meaning(s) ELSE p
    /\ UNCHANGED <<address_size, wide_regs>>

Next ==
    /\ n < Len(Statements)
    /\ \E s \in Statements[n + 1] :
          Runnable(s) /\ \E parsed \in Spellings(s) : Statement(s, parsed)

Spec == Init /\ [][Next]_vars
-----------------------------------------------------------------------------
TypeOK ==
    /\ error \in {"", "parse", "validate", "emit", "assemble"}
    /\ \A x \in DOMAIN ireg_map : ireg_map[x] \in Range(IRegs)
    /\ \A x \in DOMAIN freg_map : freg_map[x] \in Range(FRegs)
    /\ \A x \in DOMAIN m.r : m.r[x] \in Word
    /\ \A x \in DOMAIN m.f : m.f[x] \in Word
    /\ \A x \in DOMAIN m.mem : x \in Word /\ m.mem[x] \in Word

(***************************************************************************)
(* parseInstr() (ptx_parser.cpp:310) reads what was written: predicates,   *)
(* registers, special registers, signed immediates and offsets with and    *)
(* without spaces; or the kernel is refused.                               *)
(***************************************************************************)
ParsesWhatIsWritten == error # "parse" => instr = written

(***************************************************************************)
(* Two PTX registers never share a register, however many a kernel uses    *)
(* (ireg() and freg() return t0 and fa0 when the pool is empty,            *)
(* rv_emitter.cpp:93).                                                     *)
(***************************************************************************)
OneRegisterEach ==
    \A map \in {ireg_map, freg_map} : \A x, y \in DOMAIN map : map[x] = map[y] => x = y

(***************************************************************************)
(* As long as the kernel is accepted, every register it has written holds, *)
(* after the emitted code was decoded and executed, the value PTX gives    *)
(* it: also when a destination is one of the sources, when t6 holds an     *)
(* immediate or an address, and at the limits of an immediate.             *)
(***************************************************************************)
ComputesThePtx ==
    error = "" =>
        \A x \in p.defined :
            IF x \in FloatRegs THEN x \in DOMAIN freg_map /\ m.f[freg_map[x]] = p.v[x]
            ELSE x \in DOMAIN ireg_map /\ m.r[ireg_map[x]] = p.v[x]

(***************************************************************************)
(* Stores reach the word they name, in the buffers or in the shared window *)
(* at SHARED_BASE, and no other: the two memories agree and the thread     *)
(* context is never written.                                               *)
(***************************************************************************)
StoresReachTheirWord ==
    LET Word0(x) == IF x \in DOMAIN m.mem THEN m.mem[x] ELSE 0
    IN  /\ \A x \in GlobalCells : Word0(x) = p.global[x]
        /\ \A x \in SharedCells : Word0(SHARED_BASE + x) = p.shared[x]
        /\ \A k \in DOMAIN SpecialOrder : Word0(ContextCell(k)) = ContextValue(k)

(***************************************************************************)
(* The compute unit branches where PTX branches and arrives at the barrier *)
(* PTX names: setp, the predicate's register and its negation together     *)
(* (emitBra, rv_emitter.cpp:616), and the barrier's number through the     *)
(* custom word (rv_emitter.cpp:655) and its decoding (riscv_isa.h:222).    *)
(***************************************************************************)
SameControl == m.taken = p.taken /\ m.bar = p.bar

(***************************************************************************)
(* The decoder knows every instruction that is emitted ("Supports: RV32I   *)
(* base ISA + M extension (MUL/DIV/REM) + F extension (single-precision    *)
(* FP)", riscv_isa.h:6): none is executed as no operation.                 *)
(***************************************************************************)
EmittedIsDecoded == \A k \in DOMAIN code : Op(code[k]) # "UNKNOWN"

(***************************************************************************)
(* The front end: statements are read as written and registers are never   *)
(* shared, or the kernel is refused (ptx_parser.cpp:310,                   *)
(* rv_emitter.cpp:91).                                                     *)
(***************************************************************************)
FrontEndInv == TypeOK /\ ParsesWhatIsWritten /\ OneRegisterEach

(***************************************************************************)
(* Everything a kernel does to its surroundings - stores, branches,        *)
(* barriers - is what PTX says.                                            *)
(***************************************************************************)
SameEffects == StoresReachTheirWord /\ SameControl
=============================================================================
