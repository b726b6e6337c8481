---------------------------- MODULE MemPathProofs ----------------------------
(***************************************************************************)
(* mem_arbiter and memory_pipeline never wait for each other, for every    *)
(* number of compute units and every depth of the links.                   *)
(***************************************************************************)
EXTENDS MemPath, SequenceTheorems, FiniteSetTheorems, TLAPS

\* The entries between the arbiter's request write and its response read.
Load == Len(mem_req) + Len(mem_held) + Len(mem_resp)

\* What the processes hold, and what the links hold.
Held ==
    /\ mem = "write" => Len(mem_held) = 1
    /\ mem = "read" => mem_held = <<>>
    /\ arb \in {"write_req", "write_resp"} => Len(arb_held) = 1
    /\ arb \in {"scan", "route"} => arb_held = <<>>
    /\ Len(mem_req) <= REQ_DEPTH /\ Len(mem_resp) <= RESP_DEPTH

\* Except between the two steps of a pass, one place of the loop is free.
RoomInLoop == arb # "route" => Load <= REQ_DEPTH + RESP_DEPTH

PathInv == TypeOK /\ Held /\ RoomInLoop

-----------------------------------------------------------------------------
LEMMA Pop ==
    ASSUME NEW S, NEW s \in Seq(S), s # <<>>
    PROVE  Head(s) \in S /\ Tail(s) \in Seq(S) /\ Len(Tail(s)) = Len(s) - 1 /\ Len(s) \in Nat \ {0}
  OBVIOUS

LEMMA One ==
    ASSUME NEW S, NEW x \in S
    PROVE  <<x>> \in Seq(S) /\ Len(<<x>>) = 1
  OBVIOUS

LEMMA Join ==
    ASSUME NEW S, NEW s \in Seq(S), NEW t \in Seq(S)
    PROVE  s \o t \in Seq(S) /\ Len(s \o t) = Len(s) + Len(t)
  OBVIOUS

\* Links within their depths leave a place free once a response is taken.
LEMMA TakenFrees ==
    ASSUME NEW q \in Nat, NEW h \in {0, 1}, NEW p \in Nat,
           NEW Q \in Nat, NEW P \in Nat, q <= Q, p <= P
    PROVE  q + h + (p - 1) <= Q + P /\ p - 1 <= P
  OBVIOUS

LEMMA InitHolds == Init => PathInv
  BY MemPathAssumption DEF Init, PathInv, TypeOK, Held, RoomInLoop, Load, CU, Lane, Request

-----------------------------------------------------------------------------
\* An id names some unit, and the unit itself where ids do not wrap.
LEMMA IdInRange ==
    ASSUME NEW c \in CU
    PROVE  CuId(c) \in CU /\ (NUM_CUS <= CU_ID_VALUES => CuId(c) = c)
<1>1. c \in Nat /\ c < NUM_CUS /\ NUM_CUS \in Nat /\ CU_ID_VALUES \in Nat \ {0}
  BY MemPathAssumption DEF CU
<1>2. c % CU_ID_VALUES \in Nat /\ c % CU_ID_VALUES <= c
  BY <1>1
<1>3. c < CU_ID_VALUES => c % CU_ID_VALUES = c
  BY <1>1
<1> QED BY <1>1, <1>2, <1>3 DEF CuId, CU

\* A compute unit's steps change neither the arbiter nor the links.
LEMMA ComputeStep ==
    ASSUME PathInv, NEW c \in CU,
           (\E t \in Lane : BeginMemOp(c, t)) \/ ExecuteMemOp(c)
    PROVE  PathInv'
<1>1. UNCHANGED <<next_cu, arb, arb_held, mem_req, mem_resp, mem, mem_held>>
  BY DEF BeginMemOp, ExecuteMemOp, WriteRequest, ReadResponse, arbVars, memVars
<1>2. /\ stage' \in [CU -> {"idle", "write", "read"}] /\ lane' \in [CU -> Lane]
      /\ cu_mem_req' \in [CU -> Seq(Request)] /\ cu_mem_resp' \in [CU -> Seq(Request)]
  <2>1. CASE \E t \in Lane : BeginMemOp(c, t)
    BY <2>1 DEF BeginMemOp, PathInv, TypeOK
  <2>2. CASE WriteRequest(c)
    <3>1. [cu_id |-> CuId(c), lane_id |-> lane[c]] \in Request
      BY IdInRange DEF PathInv, TypeOK, Request
    <3>2. Append(cu_mem_req[c], [cu_id |-> CuId(c), lane_id |-> lane[c]]) \in Seq(Request)
      BY <3>1 DEF PathInv, TypeOK
    <3> QED BY <2>2, <3>2 DEF WriteRequest, PathInv, TypeOK
  <2>3. CASE ReadResponse(c)
    <3>1. Tail(cu_mem_resp[c]) \in Seq(Request)
      BY <2>3, Pop DEF ReadResponse, PathInv, TypeOK
    <3>2. cu_mem_resp' \in [CU -> Seq(Request)]
      BY <2>3, <3>1 DEF ReadResponse, PathInv, TypeOK
    <3>3. 0 \in Lane
      BY MemPathAssumption DEF Lane
    <3> QED BY <2>3, <3>2, <3>3 DEF ReadResponse, PathInv, TypeOK
  <2> QED BY <2>1, <2>2, <2>3 DEF ExecuteMemOp
<1>3. TypeOK'
  BY <1>1, <1>2 DEF PathInv, TypeOK
<1>4. Held' /\ RoomInLoop'
  BY <1>1 DEF PathInv, Held, RoomInLoop, Load
<1> QED BY <1>3, <1>4 DEF PathInv

\* The arbiter's scan moves a request from a compute unit's stream into its hand.
LEMMA ScanStep ==
    ASSUME PathInv, ArbReadRequest \/ ArbNoRequest
    PROVE  PathInv'
<1>1. CASE ArbReadRequest
  <2>1. PICK idx \in CU : /\ IsScanned(idx)
                          /\ arb_held' = <<Head(cu_mem_req[idx])>>
                          /\ cu_mem_req' = [cu_mem_req EXCEPT ![idx] = Tail(@)]
                          /\ next_cu' = Advance(idx)
    BY <1>1 DEF ArbReadRequest
  <2>2. Head(cu_mem_req[idx]) \in Request /\ Tail(cu_mem_req[idx]) \in Seq(Request)
    BY <2>1, Pop DEF IsScanned, PathInv, TypeOK
  <2>3. arb_held' \in Seq(Request) /\ Len(arb_held') = 1
    BY <2>1, <2>2, One
  <2>4. next_cu' \in CU
    BY <2>1, MemPathAssumption DEF Advance, CU
  <2>5. cu_mem_req' \in [CU -> Seq(Request)]
    BY <2>1, <2>2 DEF PathInv, TypeOK
  <2>6. TypeOK'
    BY <1>1, <2>3, <2>4, <2>5 DEF ArbReadRequest, cuVars, memVars, PathInv, TypeOK
  <2>7. Held' /\ RoomInLoop'
    BY <1>1, <2>3 DEF ArbReadRequest, memVars, PathInv, Held, RoomInLoop, Load
  <2> QED BY <2>6, <2>7 DEF PathInv
<1>2. CASE ArbNoRequest
  <2>1. TypeOK'
    BY <1>2 DEF ArbNoRequest, cuVars, memVars, PathInv, TypeOK
  <2>2. Held' /\ RoomInLoop'
    BY <1>2 DEF ArbNoRequest, memVars, PathInv, Held, RoomInLoop, Load
  <2> QED BY <2>1, <2>2 DEF PathInv
<1> QED BY <1>1, <1>2

\* The request goes to the link; the response step of the pass comes next.
LEMMA WriteRequestStep ==
    ASSUME PathInv, ArbWriteRequest
    PROVE  PathInv'
<1>1. mem_req' \in Seq(Request) /\ Len(mem_req') = Len(mem_req) + 1
  <2>1. Len(arb_held) = 1
    BY DEF ArbWriteRequest, PathInv, Held
  <2>2. mem_req' = mem_req \o arb_held
    BY DEF ArbWriteRequest
  <2>3. mem_req \in Seq(Request) /\ arb_held \in Seq(Request)
    BY DEF PathInv, TypeOK
  <2> QED BY <2>1, <2>2, <2>3, Join
<1>2. Len(mem_req) \in Nat
  BY DEF PathInv, TypeOK
<1>3. Len(mem_req') <= REQ_DEPTH
  BY <1>1, <1>2, MemPathAssumption DEF ArbWriteRequest
<1>4. TypeOK'
  BY <1>1 DEF ArbWriteRequest, cuVars, memVars, PathInv, TypeOK
<1>5. Held' /\ RoomInLoop'
  BY <1>3 DEF ArbWriteRequest, memVars, PathInv, Held, RoomInLoop
<1> QED BY <1>4, <1>5 DEF PathInv

\* Taking a response frees a place; finding none means the response link is empty.
LEMMA RouteStep ==
    ASSUME PathInv, ArbReadResponse \/ ArbNoResponse
    PROVE  PathInv'
<1>1. /\ Len(mem_req) \in Nat /\ Len(mem_held) \in {0, 1} /\ Len(mem_resp) \in Nat
      /\ Len(mem_req) <= REQ_DEPTH /\ Len(mem_resp) <= RESP_DEPTH
      /\ REQ_DEPTH \in Nat /\ RESP_DEPTH \in Nat /\ 1 <= RESP_DEPTH
  BY MemPathAssumption DEF PathInv, TypeOK, Held
<1>2. CASE ArbReadResponse
  <2>1. Head(mem_resp) \in Request /\ mem_resp' \in Seq(Request) /\ Len(mem_resp') = Len(mem_resp) - 1
    BY <1>2, Pop DEF ArbReadResponse, PathInv, TypeOK
  <2>2. arb_held' \in Seq(Request) /\ Len(arb_held') = 1
    BY <1>2, <2>1, One DEF ArbReadResponse
  <2>3. TypeOK'
    BY <1>2, <2>1, <2>2 DEF ArbReadResponse, cuVars, memVars, PathInv, TypeOK
  <2>4. Len(mem_resp') <= RESP_DEPTH /\ Load' <= REQ_DEPTH + RESP_DEPTH
    <3>1. Len(mem_req') = Len(mem_req) /\ Len(mem_held') = Len(mem_held)
      BY <1>2 DEF ArbReadResponse, memVars
    <3>2. Load' = Len(mem_req) + Len(mem_held) + (Len(mem_resp) - 1)
      BY <2>1, <3>1 DEF Load
    <3>3. /\ Len(mem_req) + Len(mem_held) + (Len(mem_resp) - 1) <= REQ_DEPTH + RESP_DEPTH
          /\ Len(mem_resp) - 1 <= RESP_DEPTH
      BY <1>1, TakenFrees
    <3> QED BY <2>1, <3>2, <3>3
  <2>5. Held' /\ RoomInLoop'
    BY <1>2, <2>2, <2>4 DEF ArbReadResponse, memVars, PathInv, Held, RoomInLoop
  <2> QED BY <2>3, <2>5 DEF PathInv
<1>3. CASE ArbNoResponse
  <2>1. TypeOK'
    BY <1>3 DEF ArbNoResponse, cuVars, memVars, PathInv, TypeOK
  <2>2. Load' <= REQ_DEPTH + RESP_DEPTH
    <3>1. /\ Len(mem_req') = Len(mem_req) /\ Len(mem_held') = Len(mem_held)
          /\ Len(mem_resp') = 0
      BY <1>3 DEF ArbNoResponse, memVars
    <3>2. Load' = Len(mem_req) + Len(mem_held) + (1 - 1)
      BY <3>1 DEF Load
    <3>3. Len(mem_req) + Len(mem_held) + (1 - 1) <= REQ_DEPTH + RESP_DEPTH
      BY <1>1, TakenFrees
    <3> QED BY <3>2, <3>3
  <2>3. Held' /\ RoomInLoop'
    BY <1>3, <2>2 DEF ArbNoResponse, memVars, PathInv, Held, RoomInLoop
  <2> QED BY <2>1, <2>3 DEF PathInv
<1> QED BY <1>2, <1>3

\* The response goes to a compute unit.
LEMMA WriteResponseStep ==
    ASSUME PathInv, ArbWriteResponse
    PROVE  PathInv'
<1> DEFINE to == RouteTo(Head(arb_held))
<1>1. arb_held # <<>> /\ Head(arb_held) \in Request
  <2>1. Len(arb_held) = 1 /\ arb_held \in Seq(Request)
    BY DEF ArbWriteResponse, PathInv, Held, TypeOK
  <2>2. arb_held # <<>>
    BY <2>1
  <2> QED BY <2>1, <2>2, Pop
<1>2. to \in CU
  <2>1. Head(arb_held).cu_id \in Nat
    BY <1>1 DEF Request, CU
  <2> QED BY <2>1, MemPathAssumption DEF RouteTo, CU
<1>3. cu_mem_resp[to] \o arb_held \in Seq(Request)
  BY <1>2, Join DEF PathInv, TypeOK
<1>4. cu_mem_resp' \in [CU -> Seq(Request)]
  BY <1>2, <1>3 DEF ArbWriteResponse, PathInv, TypeOK
<1>5. TypeOK'
  BY <1>4 DEF ArbWriteResponse, cuVars, memVars, PathInv, TypeOK
<1>6. Held' /\ RoomInLoop'
  BY DEF ArbWriteResponse, memVars, PathInv, Held, RoomInLoop, Load
<1> QED BY <1>5, <1>6 DEF PathInv

\* memory_pipeline moves an entry from one link to the other.
LEMMA MemoryStep ==
    ASSUME PathInv, MemoryPipeline
    PROVE  PathInv'
<1>1. CASE MemRead
  <2>1. Head(mem_req) \in Request /\ mem_req' \in Seq(Request) /\ Len(mem_req') = Len(mem_req) - 1
    BY <1>1, Pop DEF MemRead, PathInv, TypeOK
  <2>2. mem_held' \in Seq(Request) /\ Len(mem_held') = 1 /\ Len(mem_held) = 0
    BY <1>1, <2>1, One DEF MemRead, PathInv, Held
  <2>3. TypeOK'
    BY <1>1, <2>1, <2>2 DEF MemRead, cuVars, arbVars, PathInv, TypeOK
  <2>4. Len(mem_req) \in Nat /\ Len(mem_resp) \in Nat /\ mem_resp' = mem_resp
    BY <1>1 DEF MemRead, PathInv, TypeOK
  <2>5. Load' = Load /\ Len(mem_req') <= Len(mem_req)
    BY <2>1, <2>2, <2>4 DEF Load
  <2>6. Len(mem_req') <= REQ_DEPTH
    BY <2>1, <2>4, <2>5, MemPathAssumption DEF PathInv, Held
  <2>7. Held' /\ RoomInLoop'
    BY <1>1, <2>2, <2>5, <2>6 DEF MemRead, arbVars, PathInv, Held, RoomInLoop
  <2> QED BY <2>3, <2>7 DEF PathInv
<1>2. CASE MemWrite
  <2>1. mem_resp' \in Seq(Request) /\ Len(mem_resp') = Len(mem_resp) + 1 /\ Len(mem_held) = 1
    <3>1. Len(mem_held) = 1 /\ mem_resp' = mem_resp \o mem_held
      BY <1>2 DEF MemWrite, PathInv, Held
    <3>2. mem_resp \in Seq(Request) /\ mem_held \in Seq(Request)
      BY DEF PathInv, TypeOK
    <3> QED BY <3>1, <3>2, Join
  <2>2. TypeOK'
    BY <1>2, <2>1 DEF MemWrite, cuVars, arbVars, PathInv, TypeOK
  <2>3. Len(mem_req) \in Nat /\ Len(mem_resp) \in Nat /\ mem_req' = mem_req /\ Len(mem_held') = 0
    BY <1>2 DEF MemWrite, PathInv, TypeOK
  <2>4. Load' = Load
    BY <2>1, <2>3 DEF Load
  <2>5. Len(mem_resp') <= RESP_DEPTH
    BY <1>2, <2>1, <2>3, MemPathAssumption DEF MemWrite
  <2>6. Held' /\ RoomInLoop'
    BY <1>2, <2>4, <2>5 DEF MemWrite, arbVars, PathInv, Held, RoomInLoop
  <2> QED BY <2>2, <2>6 DEF PathInv
<1> QED BY <1>1, <1>2 DEF MemoryPipeline

-----------------------------------------------------------------------------
(***************************************************************************)
(* Types, what the processes hold and the free place of the loop hold in   *)
(* every reachable state of executeMemOp, mem_arbiter and memory_pipeline. *)
(***************************************************************************)
THEOREM PathInvariant == Spec => []PathInv
<1>1. PathInv /\ [Next]_vars => PathInv'
  <2> SUFFICES ASSUME PathInv, [Next]_vars PROVE PathInv'
    OBVIOUS
  <2>1. ASSUME NEW c \in CU, (\E t \in Lane : BeginMemOp(c, t)) \/ ExecuteMemOp(c)
        PROVE  PathInv'
    BY <2>1, ComputeStep
  <2>2. CASE MemArbiter
    BY <2>2, ScanStep, WriteRequestStep, RouteStep, WriteResponseStep DEF MemArbiter
  <2>3. CASE MemoryPipeline
    BY <2>3, MemoryStep
  <2>4. CASE UNCHANGED vars
    BY <2>4 DEF vars, PathInv, TypeOK, Held, RoomInLoop, Load
  <2> QED BY <2>1, <2>2, <2>3, <2>4 DEF Next
<1> QED BY <1>1, InitHolds, PTL DEF Spec

(***************************************************************************)
(* The streams, links and positions of the memory path keep their types.   *)
(***************************************************************************)
THEOREM PathTypes == Spec => []TypeOK
<1>1. PathInv => TypeOK
  BY DEF PathInv
<1> QED BY <1>1, PathInvariant, PTL

(***************************************************************************)
(* mem_arbiter blocked on a full request link and memory_pipeline blocked  *)
(* on a full response link never meet.                                     *)
(***************************************************************************)
THEOREM NeverWedgedProof == Spec => []NeverWedged
<1>1. PathInv => NeverWedged
  <2> SUFFICES ASSUME PathInv, arb = "write_req", Len(mem_req) = REQ_DEPTH,
                      mem = "write", Len(mem_resp) = RESP_DEPTH
               PROVE  FALSE
    BY DEF NeverWedged
  <2>1. Len(mem_held) = 1 /\ Load <= REQ_DEPTH + RESP_DEPTH
    BY DEF PathInv, Held, RoomInLoop
  <2> QED BY <2>1, MemPathAssumption DEF Load
<1> QED BY <1>1, PathInvariant, PTL
-----------------------------------------------------------------------------
(***************************************************************************)
(* Routing.  Place by place, a compute unit's entry is absent or there     *)
(* once; the count of AnswersItsRequest follows from where it is.          *)
(***************************************************************************)
Absent(s, c) == \A i \in DOMAIN s : s[i].cu_id # c

Once(s, c, l) ==
    \E i \in DOMAIN s : /\ s[i].cu_id = c /\ s[i].lane_id = l
                        /\ \A j \in DOMAIN s : s[j].cu_id = c => j = i

Own(s, c) == \A i \in DOMAIN s : s[i].cu_id = c

Place == 1 .. 6
Nowhere(P, c) == \A p \in Place : Absent(P[p], c)
Somewhere(P, c, l) ==
    \E p \in Place : Once(P[p], c, l) /\ \A q \in Place : q # p => Absent(P[q], c)

\* The entry of CU c is on its way exactly while c waits for it.
RouteOf(c) ==
    /\ stage[c] = "read" => Somewhere(Places(c), c, lane[c])
    /\ stage[c] # "read" => Nowhere(Places(c), c)
    /\ Own(cu_mem_req[c], c) /\ Own(cu_mem_resp[c], c)

RouteInv == \A c \in CU : RouteOf(c)

LEMMA AppendFacts ==
    ASSUME NEW s \in Seq(Request), NEW x \in Request
    PROVE  /\ DOMAIN s = 1 .. Len(s) /\ DOMAIN Append(s, x) = 1 .. Len(s) + 1
           /\ Len(s) \in Nat
           /\ \A i \in 1 .. Len(s) : Append(s, x)[i] = s[i]
           /\ Append(s, x)[Len(s) + 1] = x
  OBVIOUS

LEMMA AppendEntry ==
    ASSUME NEW s \in Seq(Request), NEW x \in Request, NEW c, NEW l
    PROVE  /\ Absent(s, c) /\ x.cu_id # c => Absent(Append(s, x), c)
           /\ Absent(s, c) /\ x.cu_id = c /\ x.lane_id = l => Once(Append(s, x), c, l)
           /\ Once(s, c, l) /\ x.cu_id # c => Once(Append(s, x), c, l)
           /\ Own(s, c) /\ x.cu_id = c => Own(Append(s, x), c)
<1> DEFINE n == Len(s)
           t == Append(s, x)
<1>1. /\ DOMAIN s = 1 .. n /\ DOMAIN t = 1 .. n + 1 /\ n \in Nat
      /\ \A i \in 1 .. n : t[i] = s[i]
      /\ t[n + 1] = x
  BY AppendFacts
<1>2. \A i \in 1 .. n + 1 : i \in 1 .. n \/ i = n + 1
  BY <1>1
<1>3. n + 1 \in 1 .. n + 1 /\ \A i \in 1 .. n : i \in 1 .. n + 1
  BY <1>1
<1> HIDE DEF n, t
<1>4. Absent(s, c) /\ x.cu_id # c => Absent(t, c)
  BY <1>1, <1>2 DEF Absent
<1>5. Absent(s, c) /\ x.cu_id = c /\ x.lane_id = l => Once(t, c, l)
  BY <1>1, <1>2, <1>3 DEF Absent, Once
<1>6. Once(s, c, l) /\ x.cu_id # c => Once(t, c, l)
  BY <1>1, <1>2, <1>3 DEF Once
<1>7. Own(s, c) /\ x.cu_id = c => Own(t, c)
  BY <1>1, <1>2 DEF Own
<1> QED BY <1>4, <1>5, <1>6, <1>7 DEF t

LEMMA TailEntry ==
    ASSUME NEW s \in Seq(Request), s # <<>>, NEW c, NEW l
    PROVE  /\ Absent(s, c) => Absent(Tail(s), c) /\ Head(s).cu_id # c
           /\ Once(s, c, l) /\ Head(s).cu_id # c => Once(Tail(s), c, l)
           /\ Once(s, c, l) /\ Head(s).cu_id = c => Head(s).lane_id = l /\ Absent(Tail(s), c)
           /\ Own(s, c) => Own(Tail(s), c) /\ Head(s).cu_id = c
<1> DEFINE n == Len(s)
           t == Tail(s)
<1>1. /\ DOMAIN s = 1 .. n /\ DOMAIN t = 1 .. n - 1 /\ n \in Nat /\ n > 0
      /\ \A i \in 1 .. n - 1 : t[i] = s[i + 1]
      /\ Head(s) = s[1]
  OBVIOUS
<1>2. \A i \in 1 .. n : i = 1 \/ (i - 1 \in 1 .. n - 1 /\ t[i - 1] = s[i] /\ (i - 1) + 1 = i)
  BY <1>1
<1>3. \A i \in 1 .. n - 1 : i + 1 \in 1 .. n /\ i + 1 # 1
  BY <1>1
<1>4. 1 \in 1 .. n
  BY <1>1
<1>5. \A i, j \in 1 .. n - 1 : i + 1 = j + 1 => i = j
  BY <1>1
<1> HIDE DEF n, t
<1>6. Absent(s, c) => Absent(t, c) /\ Head(s).cu_id # c
  BY <1>1, <1>3, <1>4 DEF Absent
<1>7. ASSUME Once(s, c, l), Head(s).cu_id # c PROVE Once(t, c, l)
  <2>1. PICK i \in 1 .. n : /\ s[i].cu_id = c /\ s[i].lane_id = l
                            /\ \A j \in 1 .. n : s[j].cu_id = c => j = i
    BY <1>1, <1>7 DEF Once
  <2>2. i # 1
    BY <1>1, <1>7, <2>1
  <2>3. PICK k \in 1 .. n - 1 : k + 1 = i
    BY <1>2, <2>2
  <2>4. t[k].cu_id = c /\ t[k].lane_id = l
    BY <1>1, <2>1, <2>3
  <2>5. \A j \in 1 .. n - 1 : t[j].cu_id = c => j = k
    BY <1>1, <1>3, <1>5, <2>1, <2>3
  <2> QED BY <1>1, <2>4, <2>5 DEF Once
<1>8. ASSUME Once(s, c, l), Head(s).cu_id = c
      PROVE  Head(s).lane_id = l /\ Absent(t, c)
  BY <1>1, <1>3, <1>4, <1>8 DEF Once, Absent
<1>9. Own(s, c) => Own(t, c) /\ Head(s).cu_id = c
  BY <1>1, <1>3, <1>4 DEF Own
<1> QED BY <1>6, <1>7, <1>8, <1>9 DEF t

\* An entry read at the head of one place and written at the end of another.
LEMMA MoveEntry ==
    ASSUME NEW P, NEW Q, NEW a \in Place, NEW b \in Place, a # b, NEW c, NEW l,
           \A p \in Place : P[p] \in Seq(Request),
           P[a] # <<>>, Q[a] = Tail(P[a]), Q[b] = Append(P[b], Head(P[a])),
           \A p \in Place : p # a /\ p # b => Q[p] = P[p]
    PROVE  /\ Nowhere(P, c) => Nowhere(Q, c)
           /\ Somewhere(P, c, l) => Somewhere(Q, c, l)
<1>1. P[a] \in Seq(Request) /\ P[b] \in Seq(Request) /\ Head(P[a]) \in Request
  BY Pop
<1>2. ASSUME Nowhere(P, c) PROVE Nowhere(Q, c)
  <2>1. Absent(P[a], c) /\ Absent(P[b], c)
    BY <1>2 DEF Nowhere
  <2>2. Absent(Q[a], c) /\ Head(P[a]).cu_id # c
    <3>1. /\ Absent(P[a], c) => Absent(Tail(P[a]), c) /\ Head(P[a]).cu_id # c
          /\ Once(P[a], c, l) /\ Head(P[a]).cu_id # c => Once(Tail(P[a]), c, l)
      BY <1>1, TailEntry
    <3> QED BY <2>1, <3>1
  <2>3. Absent(Q[b], c)
    BY <1>1, <2>1, <2>2, AppendEntry
  <2> QED BY <1>2, <2>2, <2>3 DEF Nowhere
<1>3. ASSUME Somewhere(P, c, l) PROVE Somewhere(Q, c, l)
  <2>1. PICK p \in Place : Once(P[p], c, l) /\ \A q \in Place : q # p => Absent(P[q], c)
    BY <1>3 DEF Somewhere
  <2>2. CASE p = a /\ Head(P[a]).cu_id = c
    <3>1. Head(P[a]).lane_id = l /\ Absent(Q[a], c)
      BY <1>1, <2>1, <2>2, TailEntry
    <3>2. Once(Q[b], c, l)
      BY <1>1, <2>1, <2>2, <3>1, AppendEntry
    <3> QED BY <2>1, <2>2, <3>1, <3>2 DEF Somewhere
  <2>3. CASE p = a /\ Head(P[a]).cu_id # c
    <3>1. Once(Q[a], c, l) /\ Absent(Q[b], c)
      BY <1>1, <2>1, <2>3, TailEntry, AppendEntry
    <3> QED BY <2>1, <2>3, <3>1 DEF Somewhere
  <2>4. CASE p # a
    <3>1. Head(P[a]).cu_id # c /\ Absent(Q[a], c)
      BY <1>1, <2>1, <2>4, TailEntry
    <3>2. CASE p = b
      <4>1. Once(Q[b], c, l)
        BY <1>1, <2>1, <3>1, <3>2, AppendEntry
      <4> QED BY <2>1, <3>1, <3>2, <4>1 DEF Somewhere
    <3>3. CASE p # b
      <4>1. Absent(Q[b], c) /\ Q[p] = P[p]
        BY <1>1, <2>1, <2>4, <3>1, <3>3, AppendEntry
      <4> QED BY <2>1, <2>4, <3>1, <3>3, <4>1 DEF Somewhere
    <3> QED BY <3>2, <3>3
  <2> QED BY <2>2, <2>3, <2>4
<1> QED BY <1>2, <1>3

\* The two halves of a move that another compute unit sees.
LEMMA OtherEntry ==
    ASSUME NEW P, NEW Q, NEW a \in Place, NEW c, NEW l,
           \A p \in Place : P[p] \in Seq(Request),
           \A p \in Place : p # a => Q[p] = P[p],
           \/ \E x \in Request : x.cu_id # c /\ Q[a] = Append(P[a], x)
           \/ P[a] # <<>> /\ Head(P[a]).cu_id # c /\ Q[a] = Tail(P[a])
    PROVE  /\ Nowhere(P, c) => Nowhere(Q, c)
           /\ Somewhere(P, c, l) => Somewhere(Q, c, l)
<1>1. P[a] \in Seq(Request)
  OBVIOUS
<1>2. /\ Absent(P[a], c) => Absent(Q[a], c)
      /\ Once(P[a], c, l) => Once(Q[a], c, l)
  <2>1. CASE \E x \in Request : x.cu_id # c /\ Q[a] = Append(P[a], x)
    BY <1>1, <2>1, AppendEntry
  <2>2. CASE P[a] # <<>> /\ Head(P[a]).cu_id # c /\ Q[a] = Tail(P[a])
    BY <1>1, <2>2, TailEntry
  <2> QED BY <2>1, <2>2
<1>3. Nowhere(P, c) => Nowhere(Q, c)
  BY <1>2 DEF Nowhere
<1>4. ASSUME Somewhere(P, c, l) PROVE Somewhere(Q, c, l)
  <2>1. PICK p \in Place : Once(P[p], c, l) /\ \A q \in Place : q # p => Absent(P[q], c)
    BY <1>4 DEF Somewhere
  <2>2. Once(Q[p], c, l) /\ \A q \in Place : q # p => Absent(Q[q], c)
    BY <1>2, <2>1
  <2> QED BY <2>2 DEF Somewhere
<1> QED BY <1>3, <1>4

\* An entry in the hand of mem_arbiter or memory_pipeline is a stream of one.
LEMMA Hand ==
    ASSUME NEW s \in Seq(Request), Len(s) = 1
    PROVE  /\ s # <<>> /\ Tail(s) = <<>> /\ Head(s) \in Request
           /\ \A t \in Seq(Request) : t \o s = Append(t, Head(s))
<1>1. s # <<>>
  OBVIOUS
<1>2. Head(s) \in Request /\ Tail(s) \in Seq(Request) /\ Len(Tail(s)) = 0 /\ Head(s) = s[1]
  BY <1>1, Pop
<1>3. Tail(s) = <<>>
  BY <1>2, EmptySeq
<1>4. ASSUME NEW t \in Seq(Request) PROVE t \o s = Append(t, Head(s))
  <2>1. t \o s \in Seq(Request) /\ Append(t, Head(s)) \in Seq(Request)
    BY <1>2
  <2>2. Len(t \o s) = Len(t) + 1 /\ Len(Append(t, Head(s))) = Len(t) + 1
    <3>1. Len(t \o s) = Len(t) + Len(s)
      BY ConcatProperties
    <3>2. Len(Append(t, Head(s))) = Len(t) + 1
      BY <1>2
    <3> QED BY <3>1, <3>2
  <2>3. Len(t) \in Nat /\ \A i \in 1 .. Len(t) + 1 : i \in 1 .. Len(t) \/ i = Len(t) + 1
    OBVIOUS
  <2>4. \A i \in 1 .. Len(t) : (t \o s)[i] = t[i] /\ Append(t, Head(s))[i] = t[i]
    BY <1>2, AppendFacts
  <2>5. (t \o s)[Len(t) + 1] = s[1] /\ Append(t, Head(s))[Len(t) + 1] = s[1]
    BY <1>2, <2>3, AppendFacts
  <2>6. \A i \in 1 .. Len(t) + 1 : (t \o s)[i] = Append(t, Head(s))[i]
    BY <2>3, <2>4, <2>5
  <2> QED BY <2>1, <2>2, <2>6, SeqEqual
<1> QED BY <1>1, <1>2, <1>3, <1>4

LEMMA PickUp ==
    ASSUME NEW x \in Request
    PROVE  <<x>> = Append(<<>>, x)
  OBVIOUS

LEMMA PlaceNames ==
    ASSUME NEW c
    PROVE  /\ Places(c)[1] = cu_mem_req[c] /\ Places(c)[2] = arb_held
           /\ Places(c)[3] = mem_req /\ Places(c)[4] = mem_held
           /\ Places(c)[5] = mem_resp /\ Places(c)[6] = cu_mem_resp[c]
           /\ Places(c)'[1] = cu_mem_req'[c] /\ Places(c)'[2] = arb_held'
           /\ Places(c)'[3] = mem_req' /\ Places(c)'[4] = mem_held'
           /\ Places(c)'[5] = mem_resp' /\ Places(c)'[6] = cu_mem_resp'[c]
  BY DEF Places

LEMMA PlaceTypes ==
    ASSUME TypeOK, NEW c \in CU
    PROVE  \A p \in Place : Places(c)[p] \in Seq(Request)
<1>1. \A p \in Place : p = 1 \/ p = 2 \/ p = 3 \/ p = 4 \/ p = 5 \/ p = 6
  BY DEF Place
<1>2. /\ cu_mem_req[c] \in Seq(Request) /\ arb_held \in Seq(Request)
      /\ mem_req \in Seq(Request) /\ mem_held \in Seq(Request)
      /\ mem_resp \in Seq(Request) /\ cu_mem_resp[c] \in Seq(Request)
  BY DEF TypeOK
<1> QED BY <1>1, <1>2, PlaceNames

\* A move between places a and b, as compute unit c sees it.
LEMMA RouteMove ==
    ASSUME TypeOK, NEW c \in CU, RouteOf(c), stage'[c] = stage[c], lane'[c] = lane[c],
           NEW a \in Place, NEW b \in Place, a # b,
           Places(c)[a] # <<>>, Places(c)'[a] = Tail(Places(c)[a]),
           Places(c)'[b] = Append(Places(c)[b], Head(Places(c)[a])),
           \A p \in Place : p # a /\ p # b => Places(c)'[p] = Places(c)[p],
           Own(cu_mem_req'[c], c), Own(cu_mem_resp'[c], c)
    PROVE  RouteOf(c)'
<1>1. /\ Nowhere(Places(c), c) => Nowhere(Places(c)', c)
      /\ Somewhere(Places(c), c, lane[c]) => Somewhere(Places(c)', c, lane[c])
  <2>1. PICK P, Q : P = Places(c) /\ Q = Places(c)'
    OBVIOUS
  <2>2. \A p \in Place : P[p] \in Seq(Request)
    BY <2>1, PlaceTypes
  <2>3. /\ P[a] # <<>> /\ Q[a] = Tail(P[a]) /\ Q[b] = Append(P[b], Head(P[a]))
        /\ \A p \in Place : p # a /\ p # b => Q[p] = P[p]
    BY <2>1
  <2>4. PICK l : l = lane[c]
    OBVIOUS
  <2>5. /\ Nowhere(P, c) => Nowhere(Q, c)
        /\ Somewhere(P, c, l) => Somewhere(Q, c, l)
    BY ONLY <2>2, <2>3, MoveEntry, a \in Place, b \in Place, a # b
  <2> QED BY <2>1, <2>4, <2>5
<1> QED BY <1>1 DEF RouteOf

LEMMA RouteOther ==
    ASSUME TypeOK, NEW c \in CU, RouteOf(c), stage'[c] = stage[c], lane'[c] = lane[c],
           NEW a \in Place, \A p \in Place : p # a => Places(c)'[p] = Places(c)[p],
           \/ \E x \in Request : x.cu_id # c /\ Places(c)'[a] = Append(Places(c)[a], x)
           \/ /\ Places(c)[a] # <<>> /\ Head(Places(c)[a]).cu_id # c
              /\ Places(c)'[a] = Tail(Places(c)[a]),
           Own(cu_mem_req'[c], c), Own(cu_mem_resp'[c], c)
    PROVE  RouteOf(c)'
<1>1. /\ Nowhere(Places(c), c) => Nowhere(Places(c)', c)
      /\ Somewhere(Places(c), c, lane[c]) => Somewhere(Places(c)', c, lane[c])
  BY PlaceTypes, OtherEntry
<1> QED BY <1>1 DEF RouteOf

\* Nothing that compute unit c can see moves.
LEMMA RouteSame ==
    ASSUME NEW c \in CU, RouteOf(c), stage'[c] = "read" <=> stage[c] = "read",
           stage[c] = "read" => lane'[c] = lane[c],
           cu_mem_req'[c] = cu_mem_req[c], cu_mem_resp'[c] = cu_mem_resp[c],
           UNCHANGED <<arb_held, mem_req, mem_held, mem_resp>>
    PROVE  RouteOf(c)'
<1>1. Places(c)' = Places(c)
  BY DEF Places
<1> QED BY <1>1 DEF RouteOf
-----------------------------------------------------------------------------
LEMMA ComputeRoute ==
    ASSUME NUM_CUS <= CU_ID_VALUES, PathInv, RouteInv, NEW d \in CU,
           (\E t \in Lane : BeginMemOp(d, t)) \/ ExecuteMemOp(d)
    PROVE  RouteInv'
<1> SUFFICES ASSUME NEW c \in CU PROVE RouteOf(c)'
  BY DEF RouteInv
<1>1. TypeOK /\ RouteOf(c)
  BY DEF PathInv, RouteInv
<1>2. UNCHANGED <<arb_held, mem_req, mem_held, mem_resp>>
  BY DEF BeginMemOp, ExecuteMemOp, WriteRequest, ReadResponse, arbVars, memVars
<1>3. CASE c # d
  <2>1. /\ stage'[c] = stage[c] /\ lane'[c] = lane[c]
        /\ cu_mem_req'[c] = cu_mem_req[c] /\ cu_mem_resp'[c] = cu_mem_resp[c]
    BY <1>1, <1>3 DEF BeginMemOp, ExecuteMemOp, WriteRequest, ReadResponse, TypeOK
  <2> QED BY <1>1, <1>2, <2>1, RouteSame
<1>4. CASE c = d /\ \E t \in Lane : BeginMemOp(d, t)
  <2>1. /\ stage[c] = "idle" /\ stage'[c] = "write"
        /\ UNCHANGED <<cu_mem_req, cu_mem_resp>>
    BY <1>1, <1>4 DEF BeginMemOp, TypeOK
  <2> QED BY <1>1, <1>2, <2>1, RouteSame
<1>5. CASE c = d /\ WriteRequest(c)
  <2>0. CuId(c) = c
    BY IdInRange
  <2>1. PICK x \in Request : x = [cu_id |-> c, lane_id |-> lane[c]]
    BY <1>1, <2>0 DEF TypeOK, Request
  <2>2. /\ stage[c] = "write" /\ stage'[c] = "read" /\ lane' = lane
        /\ cu_mem_resp' = cu_mem_resp /\ cu_mem_req'[c] = Append(cu_mem_req[c], x)
    BY <1>1, <1>5, <2>0, <2>1 DEF WriteRequest, TypeOK
  <2>3. x.cu_id = c /\ x.lane_id = lane[c] /\ cu_mem_req[c] \in Seq(Request)
    BY <1>1, <2>1 DEF TypeOK
  <2>4. Nowhere(Places(c), c) /\ Own(cu_mem_req[c], c) /\ Own(cu_mem_resp[c], c)
    BY <1>1, <2>2 DEF RouteOf
  <2>5. Absent(cu_mem_req[c], c)
    BY <2>4, PlaceNames DEF Nowhere, Place
  <2>6. Once(cu_mem_req'[c], c, lane[c]) /\ Own(cu_mem_req'[c], c)
    <3>1. PICK s, l : s = cu_mem_req[c] /\ l = lane[c] /\ s \in Seq(Request)
      BY <2>3
    <3>2. /\ Absent(s, c) => Once(Append(s, x), c, l)
          /\ Own(s, c) => Own(Append(s, x), c)
      BY <2>3, <3>1, AppendEntry
    <3> QED BY <2>2, <2>4, <2>5, <3>1, <3>2
  <2>7. \A p \in Place : p # 1 => Places(c)'[p] = Places(c)[p]
    BY <1>2, <2>2, PlaceNames DEF Place
  <2>8. Somewhere(Places(c)', c, lane[c])
    <3>1. 1 \in Place /\ Once(Places(c)'[1], c, lane[c])
      BY <2>6, PlaceNames DEF Place
    <3>2. \A p \in Place : p # 1 => Absent(Places(c)'[p], c)
      BY <2>4, <2>7 DEF Nowhere
    <3> QED BY <3>1, <3>2 DEF Somewhere
  <2> QED BY <2>2, <2>4, <2>6, <2>8 DEF RouteOf
<1>6. CASE c = d /\ ReadResponse(c)
  <2>1. /\ stage[c] = "read" /\ stage'[c] # "read" /\ cu_mem_req' = cu_mem_req
        /\ cu_mem_resp[c] # <<>> /\ cu_mem_resp'[c] = Tail(cu_mem_resp[c])
        /\ cu_mem_resp[c] \in Seq(Request)
    BY <1>1, <1>6 DEF ReadResponse, TypeOK
  <2>2. Own(cu_mem_req[c], c) /\ Own(cu_mem_resp[c], c) /\ Somewhere(Places(c), c, lane[c])
    BY <1>1, <2>1 DEF RouteOf
  <2>3. /\ Own(cu_mem_resp[c], c) =>
              Own(cu_mem_resp'[c], c) /\ Head(cu_mem_resp[c]).cu_id = c
        /\ Absent(cu_mem_resp[c], c) => Head(cu_mem_resp[c]).cu_id # c
        /\ Once(cu_mem_resp[c], c, lane[c]) /\ Head(cu_mem_resp[c]).cu_id = c =>
              Absent(cu_mem_resp'[c], c)
    <3>1. PICK s, l : s = cu_mem_resp[c] /\ l = lane[c] /\ s \in Seq(Request)
      BY <2>1
    <3>2. s # <<>> /\ cu_mem_resp'[c] = Tail(s)
      BY <2>1, <3>1
    <3>3. /\ Own(s, c) => Own(Tail(s), c) /\ Head(s).cu_id = c
          /\ Absent(s, c) => Head(s).cu_id # c
          /\ Once(s, c, l) /\ Head(s).cu_id = c => Absent(Tail(s), c)
      BY <3>1, <3>2, TailEntry
    <3> QED BY <3>1, <3>2, <3>3
  <2>4. PICK p \in Place : /\ Once(Places(c)[p], c, lane[c])
                           /\ \A q \in Place : q # p => Absent(Places(c)[q], c)
    BY <2>2 DEF Somewhere
  <2>5. p = 6
    <3> SUFFICES ASSUME p # 6 PROVE FALSE
      OBVIOUS
    <3>1. Absent(cu_mem_resp[c], c)
      BY <2>4, PlaceNames DEF Place
    <3> QED BY <2>2, <2>3, <3>1
  <2>6. Absent(cu_mem_resp'[c], c)
    BY <2>2, <2>3, <2>4, <2>5, PlaceNames
  <2>7. \A q \in Place : q # 6 => Places(c)'[q] = Places(c)[q]
    BY <1>2, <2>1, PlaceNames DEF Place
  <2>8. Nowhere(Places(c)', c)
    BY <2>4, <2>5, <2>6, <2>7, PlaceNames DEF Nowhere
  <2> QED BY <2>1, <2>2, <2>3, <2>8 DEF RouteOf
<1> QED BY <1>3, <1>4, <1>5, <1>6 DEF ExecuteMemOp

LEMMA ScanRoute ==
    ASSUME PathInv, RouteInv, ArbReadRequest
    PROVE  RouteInv'
<1>1. PICK idx \in CU : /\ cu_mem_req[idx] # <<>>
                        /\ arb_held' = <<Head(cu_mem_req[idx])>>
                        /\ cu_mem_req' = [cu_mem_req EXCEPT ![idx] = Tail(@)]
  BY DEF ArbReadRequest, IsScanned
<1>2. UNCHANGED <<stage, lane, cu_mem_resp, mem_req, mem_held, mem_resp>>
  BY DEF ArbReadRequest, cuVars, memVars
<1>3. PICK x \in Request : x = Head(cu_mem_req[idx])
  BY <1>1, Pop DEF PathInv, TypeOK
<1>4. arb_held = <<>> /\ arb_held' = Append(arb_held, x)
  BY <1>1, <1>3, PickUp DEF PathInv, Held, ArbReadRequest
<1>5. cu_mem_req[idx] \in Seq(Request) /\ RouteOf(idx)
  BY DEF PathInv, TypeOK, RouteInv
<1>6. x.cu_id = idx /\ Own(Tail(cu_mem_req[idx]), idx)
  <2>1. Own(cu_mem_req[idx], idx) =>
            Own(Tail(cu_mem_req[idx]), idx) /\ Head(cu_mem_req[idx]).cu_id = idx
        /\ (Once(cu_mem_req[idx], idx, 0) /\ Head(cu_mem_req[idx]).cu_id # idx
            => Once(Tail(cu_mem_req[idx]), idx, 0))
    BY <1>1, <1>5, TailEntry
  <2> QED BY <1>3, <1>5, <2>1 DEF RouteOf
<1> SUFFICES ASSUME NEW c \in CU PROVE RouteOf(c)'
  BY DEF RouteInv
<1>7. TypeOK /\ RouteOf(c) /\ Own(cu_mem_req[c], c) /\ Own(cu_mem_resp'[c], c)
  BY <1>2 DEF PathInv, RouteInv, RouteOf
<1>8. CASE c = idx
  <2>1. cu_mem_req'[c] = Tail(cu_mem_req[c])
    BY <1>1, <1>7, <1>8 DEF TypeOK
  <2>2. 1 \in Place /\ 2 \in Place
    BY DEF Place
  <2>3. \A p \in Place : p # 1 /\ p # 2 => Places(c)'[p] = Places(c)[p]
    BY <1>2, PlaceNames DEF Place
  <2>4. /\ Places(c)[1] # <<>> /\ Places(c)'[1] = Tail(Places(c)[1])
        /\ Places(c)'[2] = Append(Places(c)[2], Head(Places(c)[1]))
    BY <1>1, <1>3, <1>4, <1>8, <2>1, PlaceNames
  <2> QED BY <1>2, <1>6, <1>7, <1>8, <2>1, <2>2, <2>3, <2>4, RouteMove
<1>9. CASE c # idx
  <2>1. cu_mem_req'[c] = cu_mem_req[c]
    BY <1>1, <1>7, <1>9 DEF TypeOK
  <2>2. 2 \in Place /\ \A p \in Place : p # 2 => Places(c)'[p] = Places(c)[p]
    BY <1>2, <2>1, PlaceNames DEF Place
  <2>3. x.cu_id # c /\ Places(c)'[2] = Append(Places(c)[2], x)
    BY <1>4, <1>6, <1>9, PlaceNames
  <2> QED BY <1>2, <1>7, <2>1, <2>2, <2>3, RouteOther
<1> QED BY <1>8, <1>9

LEMMA RespondRoute ==
    ASSUME PathInv, RouteInv, ArbWriteResponse
    PROVE  RouteInv'
<1>1. arb_held \in Seq(Request) /\ Len(arb_held) = 1 /\ arb_held' = <<>>
  BY DEF PathInv, TypeOK, Held, ArbWriteResponse
<1>2. PICK x \in Request : x = Head(arb_held)
  BY <1>1, Hand
<1>3. arb_held # <<>> /\ arb_held' = Tail(arb_held)
      /\ \A t \in Seq(Request) : t \o arb_held = Append(t, x)
  BY <1>1, <1>2, Hand
<1>4. PICK to \in CU : to = x.cu_id
  BY DEF Request
<1>5. RouteTo(x) = to
  BY <1>4, MemPathAssumption DEF RouteTo, CU
<1>6. cu_mem_resp' = [cu_mem_resp EXCEPT ![to] = @ \o arb_held]
  BY <1>2, <1>5 DEF ArbWriteResponse
<1>7. UNCHANGED <<stage, lane, cu_mem_req, mem_req, mem_held, mem_resp>>
  BY DEF ArbWriteResponse, cuVars, memVars
<1> SUFFICES ASSUME NEW c \in CU PROVE RouteOf(c)'
  BY DEF RouteInv
<1>8. /\ TypeOK /\ RouteOf(c) /\ Own(cu_mem_req'[c], c) /\ Own(cu_mem_resp[c], c)
      /\ cu_mem_resp[c] \in Seq(Request)
  BY <1>7 DEF PathInv, TypeOK, RouteInv, RouteOf
<1>9. CASE c = to
  <2>1. cu_mem_resp'[c] = Append(cu_mem_resp[c], x)
    BY <1>3, <1>6, <1>8, <1>9 DEF TypeOK
  <2>2. /\ Own(cu_mem_resp[c], c) /\ x.cu_id = c => Own(Append(cu_mem_resp[c], x), c)
        /\ Once(cu_mem_resp[c], c, 0) /\ x.cu_id # c => Once(Append(cu_mem_resp[c], x), c, 0)
    BY <1>8, AppendEntry
  <2>3. Own(cu_mem_resp'[c], c)
    BY <1>4, <1>8, <1>9, <2>1, <2>2
  <2>4. 2 \in Place /\ 6 \in Place /\ \A p \in Place : p # 2 /\ p # 6 => Places(c)'[p] = Places(c)[p]
    BY <1>7, PlaceNames DEF Place
  <2>5. /\ Places(c)[2] # <<>> /\ Places(c)'[2] = Tail(Places(c)[2])
        /\ Places(c)'[6] = Append(Places(c)[6], Head(Places(c)[2]))
    BY <1>2, <1>3, <2>1, PlaceNames
  <2> QED BY <1>7, <1>8, <2>3, <2>4, <2>5, RouteMove
<1>10. CASE c # to
  <2>1. cu_mem_resp'[c] = cu_mem_resp[c]
    BY <1>6, <1>8, <1>10 DEF TypeOK
  <2>2. 2 \in Place /\ \A p \in Place : p # 2 => Places(c)'[p] = Places(c)[p]
    BY <1>7, <2>1, PlaceNames DEF Place
  <2>3. /\ Places(c)[2] # <<>> /\ Head(Places(c)[2]).cu_id # c
        /\ Places(c)'[2] = Tail(Places(c)[2])
    BY <1>2, <1>3, <1>4, <1>10, PlaceNames
  <2> QED BY <1>7, <1>8, <2>1, <2>2, <2>3, RouteOther
<1> QED BY <1>9, <1>10

\* The links and the two hands carry every entry on, whoever it belongs to.
LEMMA LinkRoute ==
    ASSUME PathInv, RouteInv, ArbWriteRequest \/ ArbReadResponse \/ MemRead \/ MemWrite
    PROVE  RouteInv'
<1> SUFFICES ASSUME NEW c \in CU PROVE RouteOf(c)'
  BY DEF RouteInv
<1>1. UNCHANGED <<stage, lane, cu_mem_req, cu_mem_resp>>
  BY DEF ArbWriteRequest, ArbReadResponse, MemRead, MemWrite, cuVars
<1>2. /\ TypeOK /\ RouteOf(c) /\ Own(cu_mem_req'[c], c) /\ Own(cu_mem_resp'[c], c)
      /\ arb_held \in Seq(Request) /\ mem_held \in Seq(Request)
      /\ mem_req \in Seq(Request) /\ mem_resp \in Seq(Request)
  BY <1>1 DEF PathInv, TypeOK, RouteInv, RouteOf
<1>3. 2 \in Place /\ 3 \in Place /\ 4 \in Place /\ 5 \in Place
  BY DEF Place
<1>4. CASE ArbWriteRequest
  <2>1. /\ arb_held # <<>> /\ arb_held' = Tail(arb_held)
        /\ mem_req' = Append(mem_req, Head(arb_held))
    BY <1>2, <1>4, Hand DEF ArbWriteRequest, PathInv, Held
  <2>2. UNCHANGED <<mem_held, mem_resp>>
    BY <1>4 DEF ArbWriteRequest, memVars
  <2>3. \A p \in Place : p # 2 /\ p # 3 => Places(c)'[p] = Places(c)[p]
    BY <1>1, <2>2, PlaceNames DEF Place
  <2>4. /\ Places(c)[2] # <<>> /\ Places(c)'[2] = Tail(Places(c)[2])
        /\ Places(c)'[3] = Append(Places(c)[3], Head(Places(c)[2]))
    BY <2>1, PlaceNames
  <2> QED BY <1>1, <1>2, <1>3, <2>3, <2>4, RouteMove
<1>5. CASE ArbReadResponse
  <2>1. Head(mem_resp) \in Request
    BY <1>2, <1>5, Pop DEF ArbReadResponse
  <2>2. /\ mem_resp # <<>> /\ mem_resp' = Tail(mem_resp)
        /\ arb_held' = Append(arb_held, Head(mem_resp))
    BY <1>5, <2>1, PickUp DEF ArbReadResponse, PathInv, Held
  <2>3. UNCHANGED <<mem_held, mem_req>>
    BY <1>5 DEF ArbReadResponse, memVars
  <2>4. \A p \in Place : p # 5 /\ p # 2 => Places(c)'[p] = Places(c)[p]
    BY <1>1, <2>3, PlaceNames DEF Place
  <2>5. /\ Places(c)[5] # <<>> /\ Places(c)'[5] = Tail(Places(c)[5])
        /\ Places(c)'[2] = Append(Places(c)[2], Head(Places(c)[5]))
    BY <2>2, PlaceNames
  <2> QED BY <1>1, <1>2, <1>3, <2>4, <2>5, RouteMove
<1>6. CASE MemRead
  <2>1. Head(mem_req) \in Request
    BY <1>2, <1>6, Pop DEF MemRead
  <2>2. /\ mem_req # <<>> /\ mem_req' = Tail(mem_req)
        /\ mem_held' = Append(mem_held, Head(mem_req))
    BY <1>6, <2>1, PickUp DEF MemRead, PathInv, Held
  <2>3. UNCHANGED <<arb_held, mem_resp>>
    BY <1>6 DEF MemRead, arbVars
  <2>4. \A p \in Place : p # 3 /\ p # 4 => Places(c)'[p] = Places(c)[p]
    BY <1>1, <2>3, PlaceNames DEF Place
  <2>5. /\ Places(c)[3] # <<>> /\ Places(c)'[3] = Tail(Places(c)[3])
        /\ Places(c)'[4] = Append(Places(c)[4], Head(Places(c)[3]))
    BY <2>2, PlaceNames
  <2> QED BY <1>1, <1>2, <1>3, <2>4, <2>5, RouteMove
<1>7. CASE MemWrite
  <2>1. /\ mem_held # <<>> /\ mem_held' = Tail(mem_held)
        /\ mem_resp' = Append(mem_resp, Head(mem_held))
    BY <1>2, <1>7, Hand DEF MemWrite, PathInv, Held
  <2>2. UNCHANGED <<arb_held, mem_req>>
    BY <1>7 DEF MemWrite, arbVars
  <2>3. \A p \in Place : p # 4 /\ p # 5 => Places(c)'[p] = Places(c)[p]
    BY <1>1, <2>2, PlaceNames DEF Place
  <2>4. /\ Places(c)[4] # <<>> /\ Places(c)'[4] = Tail(Places(c)[4])
        /\ Places(c)'[5] = Append(Places(c)[5], Head(Places(c)[4]))
    BY <2>1, PlaceNames
  <2> QED BY <1>1, <1>2, <1>3, <2>3, <2>4, RouteMove
<1> QED BY <1>4, <1>5, <1>6, <1>7

LEMMA InitRoute == Init => RouteInv
<1> SUFFICES ASSUME Init, NEW c \in CU PROVE RouteOf(c)
  BY DEF RouteInv
<1>1. /\ stage[c] = "idle" /\ cu_mem_req[c] = <<>> /\ cu_mem_resp[c] = <<>>
      /\ arb_held = <<>> /\ mem_req = <<>> /\ mem_held = <<>> /\ mem_resp = <<>>
  BY DEF Init
<1>2. \A p \in Place : Places(c)[p] = <<>>
  BY <1>1, PlaceNames DEF Place
<1>3. Absent(<<>>, c) /\ Own(<<>>, c)
  BY DEF Absent, Own
<1> QED BY <1>1, <1>2, <1>3 DEF RouteOf, Nowhere

LEMMA NextRoute ==
    ASSUME NUM_CUS <= CU_ID_VALUES
    PROVE  PathInv /\ RouteInv /\ [Next]_vars => RouteInv'
<1> SUFFICES ASSUME PathInv, RouteInv, [Next]_vars PROVE RouteInv'
  OBVIOUS
<1>1. ASSUME NEW c \in CU, (\E t \in Lane : BeginMemOp(c, t)) \/ ExecuteMemOp(c)
      PROVE  RouteInv'
  BY <1>1, ComputeRoute
<1>2. CASE ArbNoRequest \/ ArbNoResponse \/ UNCHANGED vars
  <2>1. UNCHANGED <<stage, lane, cu_mem_req, cu_mem_resp, arb_held, mem_req, mem_held, mem_resp>>
    BY <1>2 DEF ArbNoRequest, ArbNoResponse, vars, cuVars, memVars
  <2> QED BY <2>1, RouteSame DEF RouteInv
<1>3. CASE MemArbiter
  BY <1>2, <1>3, ScanRoute, LinkRoute, RespondRoute DEF MemArbiter
<1>4. CASE MemoryPipeline
  BY <1>4, LinkRoute DEF MemoryPipeline
<1> QED BY <1>1, <1>2, <1>3, <1>4 DEF Next

(***************************************************************************)
(* For every number of compute units whose ids fit a cu_id_t, of lanes,    *)
(* and every depth of streams and links: a compute unit has one entry on   *)
(* its way exactly while it waits, that entry is the one of its current    *)
(* lane, and only its own responses reach its stream.  On the 9 to 12      *)
(* units of the flat path, where two ids meet, that is false.              *)
(***************************************************************************)
THEOREM AnswersProof ==
    ASSUME NUM_CUS <= CU_ID_VALUES
    PROVE  Spec => []AnswersItsRequest
<1>1. RouteInv => AnswersItsRequest
  <2> SUFFICES ASSUME RouteInv, NEW c \in CU
               PROVE  /\ Cardinality(InFlight(c)) = IF stage[c] = "read" THEN 1 ELSE 0
                      /\ \A x \in InFlight(c) : Places(c)[x[1]][x[2]].lane_id = lane[c]
                      /\ \A i \in DOMAIN cu_mem_resp[c] : cu_mem_resp[c][i].cu_id = c
    BY DEF AnswersItsRequest
  <2>1. RouteOf(c)
    BY DEF RouteInv
  <2>2. DOMAIN Places(c) = Place
    BY DEF Places, Place
  <2>3. \A i \in DOMAIN cu_mem_resp[c] : cu_mem_resp[c][i].cu_id = c
    BY <2>1 DEF RouteOf, Own
  <2>4. CASE stage[c] # "read"
    <3>1. \A p \in Place : Mine(Places(c)[p], c) = {}
      BY <2>1, <2>4 DEF RouteOf, Nowhere, Absent, Mine
    <3>2. InFlight(c) = {}
      BY <2>2, <3>1 DEF InFlight
    <3> QED BY <2>3, <2>4, <3>2, FS_EmptySet
  <2>5. CASE stage[c] = "read"
    <3>1. PICK p \in Place : /\ Once(Places(c)[p], c, lane[c])
                             /\ \A q \in Place : q # p => Absent(Places(c)[q], c)
      BY <2>1, <2>5 DEF RouteOf, Somewhere
    <3>2. PICK i \in DOMAIN Places(c)[p] :
              /\ Places(c)[p][i].cu_id = c /\ Places(c)[p][i].lane_id = lane[c]
              /\ \A j \in DOMAIN Places(c)[p] : Places(c)[p][j].cu_id = c => j = i
      BY <3>1 DEF Once
    <3>3. Mine(Places(c)[p], c) = {i}
      BY <3>2 DEF Mine
    <3>4. \A q \in Place : q # p => Mine(Places(c)[q], c) = {}
      BY <3>1 DEF Absent, Mine
    <3>5. \A x : x \in InFlight(c) <=> x = <<p, i>>
      <4>1. \A x : x \in InFlight(c) <=> \E q \in Place : x \in {q} \X Mine(Places(c)[q], c)
        BY <2>2 DEF InFlight
      <4>2. \A x, q : q \in Place /\ x \in {q} \X Mine(Places(c)[q], c) => q = p /\ x = <<p, i>>
        BY <3>3, <3>4
      <4>3. <<p, i>> \in {p} \X Mine(Places(c)[p], c)
        BY <3>3
      <4> QED BY <4>1, <4>2, <4>3
    <3>6. InFlight(c) = {<<p, i>>}
      BY <3>5
    <3>7. Cardinality(InFlight(c)) = 1
      BY <3>6, FS_Singleton
    <3> QED BY <2>3, <2>5, <3>2, <3>6, <3>7
  <2> QED BY <2>4, <2>5
<1>2. Spec => []RouteInv
  BY PathInvariant, InitRoute, NextRoute, PTL DEF Spec
<1> QED BY <1>1, <1>2, PTL
=============================================================================
