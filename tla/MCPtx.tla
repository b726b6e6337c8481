------------------------------- MODULE MCPtx -------------------------------
(***************************************************************************)
(* Kernels for TLC: every form of every statement the emitter lowers, with *)
(* immediates at the limits of their range, and statements it refuses.     *)
(***************************************************************************)
EXTENDS PtxTranspiler

St(op, ty, args) == PtxInstr(Opcode(op, "", ty, ""), args, "", FALSE)
Cvt(ty, from, a, b) == PtxInstr(Opcode("cvt", "", ty, from), <<R(a), R(b)>>, "", FALSE)
Setp(cmp, ty, a, b) == PtxInstr(Opcode("setp", cmp, ty, ""), <<R("p1"), R(a), b>>, "", FALSE)
Bra(pred, neg) == PtxInstr(Opcode("bra", "", "", ""), <<L("end")>>, pred, neg)
r1 == R("r1")
r2 == R("r2")
Cmp == {"lt", "le", "gt", "ge", "eq", "ne"}

\* Limits of an immediate, and one beyond.
Limits == {IMM_MIN - 1, IMM_MIN, IMM_MAX, IMM_MAX + 1}

MCParams == << [name |-> "a", space |-> "u32"], [name |-> "b", space |-> "u64"],
               [name |-> "c", space |-> "u32"] >>
MCParamValues == { <<2, 1>>, <<61, 2>> }
MCIRegs == <<"t0", "t1", "s0", "s1">>
MCFRegs == <<"fa0", "ft0">>
MCParamRegs == <<"a0", "a1">>

Moves ==
    { St("ld.param", "u32", <<r1, P("a", 0)>>), St("ld.param", "u32", <<r2, P("b", 0)>>),
      St("ld.param", "f32", <<R("f1"), P("a", 0)>>), St("ld.param", "f32", <<R("f2"), P("b", 0)>>),
      St("ld.param", "u64", <<R("rd1"), P("b", 0)>>),
      St("mov", "u32", <<r1, S("tid.x")>>), St("mov", "u32", <<r2, S("ntid.z")>>),
      St("mov", "u32", <<r2, r1>>), St("mov", "u32", <<r1, r1>>),
      St("mov", "u32", <<r1, N(-1)>>), St("mov", "u32", <<r2, N(IMM_MAX + 6)>>),
      PtxInstr(Opcode("cvta", "", "u64", ""), <<R("rd1"), R("rd1")>>, "", FALSE),
      Cvt("u64", "u32", "rd1", "r1"), Cvt("u32", "u64", "r2", "rd1"),
      Cvt("f32", "s32", "f1", "r1"), Cvt("s32", "f32", "r2", "f1") }

Arithmetic ==
    { St(op, "u32", <<r1, r1, r2>>) : op \in {"add", "sub", "mul.lo", "and", "or", "xor", "div", "rem"} }
    \cup { St(op, "s32", <<r2, r1, r2>>) : op \in {"div", "rem"} }
    \cup { St(op, "u32", <<r2, r1, N(v)>>) : op \in {"add", "sub"}, v \in Limits }
    \cup { St(op, "u32", <<r1, r1, N(IMM_MAX + 6)>>) : op \in {"mul.lo", "and", "or", "xor"} }
    \cup { St("mul.lo", "u32", <<r1, r2, N(8)>>), St("mul.wide", "u32", <<R("rd1"), r1, N(1)>>),
           St("shl", "b32", <<r1, r1, N(2)>>), St("shl", "b32", <<r1, r1, N(XLEN)>>),
           St("shr", "s32", <<r2, r1, N(2)>>), St("shr", "u32", <<r2, r1, N(2)>>),
           St("not", "b32", <<r2, r1>>), St("neg", "s32", <<r1, r1>>),
           St("mad.lo", "u32", <<r2, r1, r2, r1>>) }

Floats ==
    { St(op, "f32", <<R("f1"), R("f1"), R("f2")>>) : op \in {"add", "sub", "mul", "div"} }
    \cup { St("fma", "f32", <<R("f1"), R("f2"), R("f1"), R("f1")>>) }
    \cup { Setp(cmp, "f32", "f1", R("f2")) : cmp \in Cmp }

\* Not setp.gt and setp.le without sign against -1, the greatest word: see
\* README.
Predicates ==
    { Setp(cmp, ty, "r1", b) : cmp \in Cmp, ty \in {"u32", "s32"}, b \in {r2} \cup {N(v) : v \in Limits} }
    \cup { Bra("", FALSE), Bra("p1", FALSE), Bra("p1", TRUE), St("ret", "", << >>) }
    \cup { St("bar.sync", "", <<N(id)>>) : id \in {0, 15} }

Memory ==
    { St("ld.global", "u32", <<r1, M("rd1", 1)>>), St("ld.global", "u32", <<R("rd1"), M("rd1", -1)>>),
      St("ld.global", "f32", <<R("f1"), M("rd1", 0)>>),
      St("st.global", "u32", <<M("rd1", -1), r1>>), St("st.global", "f32", <<M("rd1", 1), R("f1")>>),
      St("ld.shared", "u32", <<r2, M("r2", 0)>>), St("ld.shared", "f32", <<R("f1"), P("tile", 1)>>),
      St("st.shared", "u32", <<M("r2", -1), r1>>), St("st.shared", "f32", <<P("tile", 2), R("f1")>>) }

Refused ==
    { St("ld.param", "u32", <<r1, P("a", 1)>>), St("ld.param", "u32", <<r1, P("c", 0)>>),
      St("ld.param", "u64", <<R("rd1"), P("a", 0)>>), St("ld.global", "u64", <<R("rd1"), M("rd1", 0)>>),
      St("mad.wide", "u32", <<R("rd1"), r1, r1, R("rd1")>>), St("vote", "b32", <<r1, r1>>),
      St("membar", "", << >>),
      St("bar.sync", "", <<N(16)>>), St("mov", "u32", <<r1, Vector>>), St("ld.param", "f32", <<R("f3"), P("a", 0)>>),
      St("ld.param", "u64", <<R("rd2"), P("b", 0)>>), Cvt("f64", "s32", "f1", "r1"),
      PtxInstr(Opcode("add", "", "u32", ""), <<r1, r1, r1>>, "p1", FALSE) }

\* A kernel loads two registers, does anything and then uses the results.
Loads == {s \in Moves : s.op.op \in {"ld.param", "mov"} /\ s.args[2] \notin {r1}}
Uses ==
    Memory \cup { Bra("p1", FALSE), Bra("p1", TRUE) }
    \cup { St("sub", "u32", <<r1, r2, r1>>), St("add", "u32", <<r2, R("rd1"), N(IMM_MAX + 6)>>),
           Setp("lt", "u32", "r1", r2), Cvt("s32", "f32", "r2", "f1"),
           St("fma", "f32", <<R("f2"), R("f1"), R("f2"), R("f2")>>) }
Anything == Moves \cup Arithmetic \cup Floats \cup Predicates \cup Memory \cup Refused

MCStatements == << Loads, Loads \cup Refused, Anything, Uses >>

\* A multiply-add that accumulates into its destination.
MCAccumulate == << Loads, Loads, { St("mad.lo", "u32", <<r1, r1, r2, r1>>) } >>
\* A move between floats.
MCFloatMove == << Loads, { St("mov", "f32", <<R("f2"), R("f1")>>) } >>
MCHeaders == { <<64, {"rd1", "rd2"}>>, <<32, {}>> }
=============================================================================
