----------------------------- MODULE PtxParser -----------------------------
(***************************************************************************)
(* The statements of a PTX kernel: their abstract syntax (ptx_parser.h)    *)
(* and PtxParser::parseInstr (ptx_parser.cpp), from tokens.  An opcode is  *)
(* kept in its parts: the operation, the comparison of a setp, the type    *)
(* and, for a conversion, the type it converts from.                       *)
(***************************************************************************)
EXTENDS Integers, Sequences, SequencesExt

Opcode(op, cmp, ty, from) == [op |-> op, cmp |-> cmp, ty |-> ty, from |-> from]

\* PtxOperand with its defaults.
NoOperand == [kind |-> "IntImm", name |-> "", val |-> 0, base |-> "", param |-> "", off |-> 0]
R(n) == [NoOperand EXCEPT !.kind = "Reg", !.name = n]
S(n) == [NoOperand EXCEPT !.kind = "SpecialReg", !.name = n]
N(v) == [NoOperand EXCEPT !.val = v]
FltImm(v) == [NoOperand EXCEPT !.kind = "FltImm", !.val = v]
L(n) == [NoOperand EXCEPT !.kind = "Label", !.name = n]
M(base, off) == [NoOperand EXCEPT !.kind = "MemRef", !.base = base, !.off = off]
P(param, off) == [NoOperand EXCEPT !.kind = "MemRef", !.param = param, !.off = off]
\* An operand the subset does not have: {%r1, %r2}.
Vector == [NoOperand EXCEPT !.kind = "Vector"]

PtxInstr(op, args, pred, neg) == [op |-> op, args |-> args, pred |-> pred, pred_not |-> neg]
NoInstr == PtxInstr(Opcode("", "", "", ""), << >>, "", FALSE)

\* The special registers in the order of their context offsets, and the ones
\* the parser knows but no offset exists for.
SpecialOrder == << "tid.x", "tid.y", "tid.z", "ctaid.x", "ctaid.y", "ctaid.z", "ntid.x", "ntid.y", "ntid.z" >>
SpecialNames == ToSet(SpecialOrder) \cup {"warpid", "laneid", "nwarpid"}
-----------------------------------------------------------------------------
(***************************************************************************)
(* A statement as its author writes it: the tokens, with or without spaces *)
(* around the sign of a number ("-4" is one token, "- 4" two).             *)
(***************************************************************************)
T(type, v) == [type |-> type, v |-> v]
Mark(type) == T(type, "")

Number(v, spaced) == IF v < 0 /\ spaced THEN << Mark("MINUS"), T("INT", -v) >> ELSE << T("INT", v) >>

Offset(v, spaced) ==
    CASE v = 0 -> << >>
      [] v > 0 -> << Mark("PLUS"), T("INT", v) >>
      [] v < 0 -> Number(v, spaced)

WriteOperand(o, spaced) ==
    CASE o.kind \in {"Reg", "SpecialReg"} -> << T("PERCENT", o.name) >>
      [] o.kind = "Label" -> << T("DOLLAR", o.name) >>
      [] o.kind = "FltImm" -> << T("FLOAT", o.val) >>
      [] o.kind = "IntImm" -> Number(o.val, spaced)
      [] o.kind = "Vector" -> << Mark("LBRACE"), T("PERCENT", "r1"), Mark("RBRACE") >>
      [] o.kind = "MemRef" ->
            << Mark("LBRACKET") >>
            \o (IF o.base # "" THEN << T("PERCENT", o.base) >> ELSE << T("WORD", o.param) >>)
            \o Offset(o.off, spaced) \o << Mark("RBRACKET") >>

Write(i, spaced) ==
    (IF i.pred = "" THEN << >>
     ELSE << Mark("AT") >> \o (IF i.pred_not THEN << Mark("BANG") >> ELSE << >>) \o << T("PERCENT", i.pred) >>)
    \o << T("WORD", i.op) >>
    \o FlattenSeq([k \in DOMAIN i.args |->
                      (IF k = 1 THEN << >> ELSE << Mark("COMMA") >>) \o WriteOperand(i.args[k], spaced)])
    \o << Mark("SEMICOLON") >>
-----------------------------------------------------------------------------
(***************************************************************************)
(* Parsing: what is left of the tokens, and whether it failed.             *)
(***************************************************************************)
Cur(ts) == IF ts = << >> THEN Mark("END") ELSE Head(ts)
Is(ts, type) == Cur(ts).type = type
Skip(ts, n) == SubSeq(ts, n + 1, Len(ts))

Parsed(o, rest) == [ok |-> TRUE, o |-> o, rest |-> rest]
Failed(rest) == [ok |-> FALSE, o |-> NoOperand, rest |-> rest]

CloseBracket(o, ts) == IF Is(ts, "RBRACKET") THEN Parsed(o, Skip(ts, 1)) ELSE Failed(ts)

\* parseMemRef(), after the opening bracket: [%r], [%r+n], [%r-n], [name],
\* [name+n].
ParseMemRef(ts) ==
    LET rest == Skip(ts, 1)
        value == Skip(rest, 1)
        signed == Cur(rest).type \in {"PLUS", "MINUS"}
    IN  CASE Is(ts, "PERCENT") /\ signed ->
                IF ~Is(value, "INT") THEN Failed(value)
                ELSE CloseBracket(M(Cur(ts).v, IF Is(rest, "PLUS") THEN Cur(value).v ELSE -Cur(value).v),
                                  Skip(value, 1))
          [] Is(ts, "PERCENT") /\ Is(rest, "INT") /\ Cur(rest).v < 0 ->
                CloseBracket(M(Cur(ts).v, Cur(rest).v), value)
          [] Is(ts, "PERCENT") /\ ~signed /\ ~(Is(rest, "INT") /\ Cur(rest).v < 0) ->
                CloseBracket(M(Cur(ts).v, 0), rest)
          [] Is(ts, "WORD") /\ Is(rest, "PLUS") ->
                IF ~Is(value, "INT") THEN Failed(value)
                ELSE CloseBracket(P(Cur(ts).v, Cur(value).v), Skip(value, 1))
          [] Is(ts, "WORD") /\ ~Is(rest, "PLUS") -> CloseBracket(P(Cur(ts).v, 0), rest)
          [] OTHER -> Failed(ts)

\* parseOperand(); a minus that no number follows is the number 0.
ParseOperand(ts) ==
    LET t == Cur(ts)
        rest == Skip(ts, 1)
    IN  CASE t.type = "PERCENT" -> Parsed(IF t.v \in SpecialNames THEN S(t.v) ELSE R(t.v), rest)
          [] t.type \in {"DOLLAR", "WORD"} -> Parsed(L(t.v), rest)
          [] t.type = "LBRACKET" -> ParseMemRef(rest)
          [] t.type = "INT" -> Parsed(N(t.v), rest)
          [] t.type = "FLOAT" -> Parsed(FltImm(t.v), rest)
          [] t.type = "MINUS" ->
                CASE Is(rest, "INT") -> Parsed(N(-Cur(rest).v), Skip(rest, 1))
                  [] Is(rest, "FLOAT") -> Parsed(FltImm(-Cur(rest).v), Skip(rest, 1))
                  [] OTHER -> Parsed(NoOperand, rest)
          [] OTHER -> Failed(ts)

\* The operands up to the end of the statement.
RECURSIVE ParseOperands(_, _)
ParseOperands(ts, args) ==
    IF Cur(ts).type \in {"SEMICOLON", "RBRACE", "END"} THEN [ok |-> TRUE, args |-> args]
    ELSE LET first == ParseOperand(ts)
         IN  IF ~first.ok THEN [ok |-> FALSE, args |-> args]
             ELSE ParseOperands(IF Is(first.rest, "COMMA") THEN Skip(first.rest, 1) ELSE first.rest,
                                Append(args, first.o))

\* parseInstr().
ParseInstr(ts) ==
    LET at == Is(ts, "AT")
        neg == at /\ Is(Skip(ts, 1), "BANG")
        name == Skip(ts, IF neg THEN 2 ELSE 1)
        opcode == IF at THEN Skip(name, 1) ELSE ts
        operands == ParseOperands(Skip(opcode, 1), << >>)
    IN  IF (at /\ ~Is(name, "PERCENT")) \/ ~Is(opcode, "WORD") \/ ~operands.ok
        THEN [ok |-> FALSE, instr |-> NoInstr]
        ELSE [ok |-> TRUE,
              instr |-> PtxInstr(Cur(opcode).v, operands.args, IF at THEN Cur(name).v ELSE "", neg)]
=============================================================================
