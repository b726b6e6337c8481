------------------------------- MODULE MemPath -------------------------------
(***************************************************************************)
(* The way of a memory request through the device: executeMemOp() of each  *)
(* compute_pipeline, the mem_arbiter process (mem_arbiter.h) and           *)
(* memory_pipeline, joined by streams.  mem_req_out and mem_resp_in are    *)
(* AXI streams between two kernels of the FPGA design; how many entries    *)
(* they hold is a parameter.                                               *)
(*                                                                         *)
(* A request and its response are told apart by their cu_id and lane_id;   *)
(* address and data, which MemorySubsystem models, are left out.  A read   *)
(* of an empty stream and a write to a full one block their process.       *)
(***************************************************************************)
EXTENDS Naturals, Sequences, FiniteSets

CONSTANTS
    NUM_CUS,
    CU_ID_VALUES,           \* values a cu_id_t holds: 2^3 (hls_types.h)
    MAX_THREADS_PER_WARP,
    CU_STREAM_DEPTH,        \* cu_mem_req and cu_mem_resp
    REQ_DEPTH, RESP_DEPTH   \* the two links to memory_pipeline

ASSUME MemPathAssumption ==
    /\ NUM_CUS \in Nat \ {0} /\ CU_ID_VALUES \in Nat \ {0}
    /\ MAX_THREADS_PER_WARP \in Nat \ {0}
    /\ CU_STREAM_DEPTH \in Nat \ {0}
    /\ REQ_DEPTH \in Nat \ {0} /\ RESP_DEPTH \in Nat \ {0}

VARIABLES
    stage, lane,                    \* executeMemOp(), per compute unit
    cu_mem_req, cu_mem_resp,        \* streams, per compute unit
    next_cu, arb, arb_held,         \* mem_arbiter: pointer, step, entry in hand
    mem_req, mem_resp,              \* the links
    mem, mem_held                   \* memory_pipeline: step, response in hand

cuVars == <<stage, lane>>
arbVars == <<next_cu, arb, arb_held>>
memVars == <<mem, mem_held>>
vars == <<stage, lane, cu_mem_req, cu_mem_resp, next_cu, arb, arb_held,
          mem_req, mem_resp, mem, mem_held>>

CU == 0 .. NUM_CUS - 1
Lane == 0 .. MAX_THREADS_PER_WARP - 1
Request == [cu_id : CU, lane_id : Lane]

\* The id compute_pipeline() is given for unit c, a cu_id_t.
CuId(c) == c % CU_ID_VALUES

Init ==
    /\ stage = [c \in CU |-> "idle"] /\ lane = [c \in CU |-> 0]
    /\ cu_mem_req = [c \in CU |-> <<>>] /\ cu_mem_resp = [c \in CU |-> <<>>]
    /\ next_cu = 0 /\ arb = "scan" /\ arb_held = <<>>
    /\ mem_req = <<>> /\ mem_resp = <<>>
    /\ mem = "read" /\ mem_held = <<>>
-----------------------------------------------------------------------------
(***************************************************************************)
(* executeMemOp(): the active lanes of a LW or SW in ascending order, each *)
(* a request and then its response.                                        *)
(***************************************************************************)
\* An LW or SW whose first active lane is t.
BeginMemOp(c, t) ==
    /\ stage[c] = "idle"
    /\ stage' = [stage EXCEPT ![c] = "write"]
    /\ lane' = [lane EXCEPT ![c] = t]
    /\ UNCHANGED <<cu_mem_req, cu_mem_resp, arbVars, mem_req, mem_resp, memVars>>

WriteRequest(c) ==
    /\ stage[c] = "write"
    /\ Len(cu_mem_req[c]) < CU_STREAM_DEPTH
    /\ cu_mem_req' = [cu_mem_req EXCEPT
            ![c] = Append(@, [cu_id |-> CuId(c), lane_id |-> lane[c]])]
    /\ stage' = [stage EXCEPT ![c] = "read"]
    /\ UNCHANGED <<lane, cu_mem_resp, arbVars, mem_req, mem_resp, memVars>>

\* Then the next active lane, if there is one.
ReadResponse(c) ==
    /\ stage[c] = "read"
    /\ cu_mem_resp[c] # <<>>
    /\ cu_mem_resp' = [cu_mem_resp EXCEPT ![c] = Tail(@)]
    /\ \/ /\ \E t \in Lane : t > lane[c] /\ lane' = [lane EXCEPT ![c] = t]
          /\ stage' = [stage EXCEPT ![c] = "write"]
       \/ /\ stage' = [stage EXCEPT ![c] = "idle"]
          /\ lane' = [lane EXCEPT ![c] = 0]
    /\ UNCHANGED <<cu_mem_req, arbVars, mem_req, mem_resp, memVars>>

ExecuteMemOp(c) == WriteRequest(c) \/ ReadResponse(c)
-----------------------------------------------------------------------------
(***************************************************************************)
(* mem_arbiter                                                             *)
(***************************************************************************)
\* The first non-empty stream of the scan that starts at next_cu.
IsScanned(idx) ==
    /\ cu_mem_req[idx] # <<>>
    /\ \E i \in CU :
          /\ (next_cu + i) % NUM_CUS = idx
          /\ \A k \in CU : k < i => cu_mem_req[(next_cu + k) % NUM_CUS] = <<>>

\* Fault: the pointer stays on the stream that was served.
AdvanceToServed(idx) == idx

Advance(idx) == (idx + 1) % NUM_CUS

\* arbitrateOnce() up to its write.
ArbReadRequest ==
    /\ arb = "scan"
    /\ \E idx \in CU :
          /\ IsScanned(idx)
          /\ arb_held' = <<Head(cu_mem_req[idx])>>
          /\ cu_mem_req' = [cu_mem_req EXCEPT ![idx] = Tail(@)]
          /\ next_cu' = Advance(idx)
    /\ arb' = "write_req"
    /\ UNCHANGED <<cuVars, cu_mem_resp, mem_req, mem_resp, memVars>>

ArbNoRequest ==
    /\ arb = "scan"
    /\ \A c \in CU : cu_mem_req[c] = <<>>
    /\ arb' = "route"
    /\ UNCHANGED <<cuVars, cu_mem_req, cu_mem_resp, next_cu, arb_held, mem_req, mem_resp, memVars>>

\* Fault: requests are served as long as there are any.
ArbWriteRequestScansOn ==
    /\ arb = "write_req"
    /\ Len(mem_req) < REQ_DEPTH
    /\ mem_req' = mem_req \o arb_held
    /\ arb_held' = <<>> /\ arb' = "scan"
    /\ UNCHANGED <<cuVars, cu_mem_req, cu_mem_resp, next_cu, mem_resp, memVars>>

ArbWriteRequest ==
    /\ arb = "write_req"
    /\ Len(mem_req) < REQ_DEPTH
    /\ mem_req' = mem_req \o arb_held
    /\ arb_held' = <<>> /\ arb' = "route"
    /\ UNCHANGED <<cuVars, cu_mem_req, cu_mem_resp, next_cu, mem_resp, memVars>>

\* routeResponse() up to its write.
ArbReadResponse ==
    /\ arb = "route"
    /\ mem_resp # <<>>
    /\ arb_held' = <<Head(mem_resp)>> /\ mem_resp' = Tail(mem_resp)
    /\ arb' = "write_resp"
    /\ UNCHANGED <<cuVars, cu_mem_req, cu_mem_resp, next_cu, mem_req, memVars>>

ArbNoResponse ==
    /\ arb = "route"
    /\ mem_resp = <<>>
    /\ arb' = "scan"
    /\ UNCHANGED <<cuVars, cu_mem_req, cu_mem_resp, next_cu, arb_held, mem_req, mem_resp, memVars>>

\* Fault: the response goes to the CU that is next in the request scan.
RouteByPointer(resp) == next_cu

\* The stream a response is written to.
RouteTo(resp) == resp.cu_id % NUM_CUS

ArbWriteResponse ==
    /\ arb = "write_resp"
    /\ LET to == RouteTo(Head(arb_held))
       IN  /\ Len(cu_mem_resp[to]) < CU_STREAM_DEPTH
           /\ cu_mem_resp' = [cu_mem_resp EXCEPT ![to] = @ \o arb_held]
    /\ arb_held' = <<>> /\ arb' = "scan"
    /\ UNCHANGED <<cuVars, cu_mem_req, next_cu, mem_req, mem_resp, memVars>>

MemArbiter ==
    \/ ArbReadRequest \/ ArbNoRequest \/ ArbWriteRequest
    \/ ArbReadResponse \/ ArbNoResponse \/ ArbWriteResponse
-----------------------------------------------------------------------------
(***************************************************************************)
(* memory_pipeline: handleRequest() copies cu_id and lane_id.              *)
(***************************************************************************)
MemRead ==
    /\ mem = "read"
    /\ mem_req # <<>>
    /\ mem_held' = <<Head(mem_req)>> /\ mem_req' = Tail(mem_req)
    /\ mem' = "write"
    /\ UNCHANGED <<cuVars, cu_mem_req, cu_mem_resp, arbVars, mem_resp>>

MemWrite ==
    /\ mem = "write"
    /\ Len(mem_resp) < RESP_DEPTH
    /\ mem_resp' = mem_resp \o mem_held
    /\ mem_held' = <<>> /\ mem' = "read"
    /\ UNCHANGED <<cuVars, cu_mem_req, cu_mem_resp, arbVars, mem_req>>

MemoryPipeline == MemRead \/ MemWrite
-----------------------------------------------------------------------------
Next ==
    \/ \E c \in CU : (\E t \in Lane : BeginMemOp(c, t)) \/ ExecuteMemOp(c)
    \/ MemArbiter
    \/ MemoryPipeline

\* The three processes run for ever; a program may stop using memory.
Spec ==
    /\ Init /\ [][Next]_vars
    /\ \A c \in CU : WF_vars(ExecuteMemOp(c))
    /\ WF_vars(MemArbiter) /\ WF_vars(MemoryPipeline)
-----------------------------------------------------------------------------
TypeOK ==
    /\ stage \in [CU -> {"idle", "write", "read"}] /\ lane \in [CU -> Lane]
    /\ cu_mem_req \in [CU -> Seq(Request)] /\ cu_mem_resp \in [CU -> Seq(Request)]
    /\ next_cu \in CU
    /\ arb \in {"scan", "write_req", "route", "write_resp"}
    /\ arb_held \in Seq(Request) /\ mem_held \in Seq(Request)
    /\ mem_req \in Seq(Request) /\ mem_resp \in Seq(Request)
    /\ mem \in {"read", "write"}

\* The places where an entry of CU c can be on its way.
Places(c) == <<cu_mem_req[c], arb_held, mem_req, mem_held, mem_resp, cu_mem_resp[c]>>

\* The entries of CU c on their way: a place and a position there.
Mine(s, c) == {i \in DOMAIN s : s[i].cu_id = c}
InFlight(c) == UNION {{p} \X Mine(Places(c)[p], c) : p \in DOMAIN Places(c)}

(***************************************************************************)
(* mem_arbiter.h:10-17, on which the routing by cu_id alone rests: a       *)
(* compute unit has one request on the way exactly while it waits for a    *)
(* response, that request is the one of its current lane, and the only     *)
(* responses that reach its stream are its own.  For a device whose ids    *)
(* fit a cu_id_t: 9 to 12 units share the 8 ids (mem_ids.cfg).             *)
(***************************************************************************)
AnswersItsRequest ==
    \A c \in CU :
        /\ Cardinality(InFlight(c)) = IF stage[c] = "read" THEN 1 ELSE 0
        /\ \A x \in InFlight(c) : Places(c)[x[1]][x[2]].lane_id = lane[c]
        /\ \A i \in DOMAIN cu_mem_resp[c] : cu_mem_resp[c][i].cu_id = c

(***************************************************************************)
(* One process serves both directions with blocking writes, so it could    *)
(* wait for room in mem_req while memory_pipeline waits for it to take a   *)
(* response.  That never happens, however many compute units there are and *)
(* however short the links: a response is taken after every request.       *)
(***************************************************************************)
NeverWedged ==
    ~ /\ arb = "write_req" /\ Len(mem_req) = REQ_DEPTH
      /\ mem = "write" /\ Len(mem_resp) = RESP_DEPTH

(***************************************************************************)
(* compute_pipeline.cpp:152 "Every request (load or store) gets exactly    *)
(* one response back": a compute unit that waits for a response gets it,   *)
(* however busy the others keep the arbiter, while the ids of the units    *)
(* fit a cu_id_t.  mem_ids.cfg refutes it for a device with more.          *)
(***************************************************************************)
EveryRequestAnswered == \A c \in CU : stage[c] = "read" ~> stage[c] # "read"
=============================================================================
