--------------------------- MODULE MemorySubsystem ---------------------------
(***************************************************************************)
(* MemorySubsystem (hls/src/memory/memory_pipeline.h): an L1 per compute   *)
(* unit and one L2, write-through and no-write-allocate, over the external *)
(* global memory, beside the golden MemoryHierarchy                        *)
(* (models/systemc/src/memory), which has one L1 for all compute units and *)
(* caches single words without a limit.  memory_pipeline() serves one      *)
(* request at a time, so handleRequest() is one step.  The host writes     *)
(* global memory by DMA; nothing tells the device's caches.                *)
(*                                                                         *)
(* The n-th write, of a compute unit or of the host, writes the value n,   *)
(* so a larger value of a word is a newer one.  The hit and miss counters, *)
(* and the shared memory, a private array per compute unit that passes by  *)
(* the caches, are left out.                                               *)
(***************************************************************************)
EXTENDS CacheBank, FiniteSets

CONSTANTS
    NUM_CUS,
    NUM_LINES,                          \* global memory, of lines of WORDS_PER_LINE
    L1_WAYS, L1_SETS_PER_WAY,
    L2_WAYS, L2_SETS_PER_WAY,
    MAX_WRITES, MAX_HOST_WRITES         \* bounds on the writes

ASSUME MemoryAssumption ==
    /\ NUM_CUS \in Nat \ {0}
    /\ NUM_LINES \in Nat \ {0} /\ WORDS_PER_LINE \in Nat \ {0}
    /\ L1_WAYS \in Nat \ {0} /\ L1_SETS_PER_WAY \in Nat \ {0}
    /\ L2_WAYS \in Nat \ {0} /\ L2_SETS_PER_WAY \in Nat \ {0}
    /\ MAX_WRITES \in Nat /\ MAX_HOST_WRITES \in Nat

VARIABLES
    l1_caches, l2_cache, global_mem,            \* the device
    golden_l1, golden_l2, golden_global,        \* the golden model
    writes, host_writes,                        \* writes so far
    seen        \* history: the newest value of a word a CU has loaded or stored

deviceVars == <<l1_caches, l2_cache, global_mem>>
goldenVars == <<golden_l1, golden_l2, golden_global>>
vars == <<l1_caches, l2_cache, global_mem, golden_l1, golden_l2, golden_global,
          writes, host_writes, seen>>

\* The tiers: the template arguments of L1Cache and of L2Cache.
L1 == [ways |-> L1_WAYS, sets |-> L1_SETS_PER_WAY]
L2 == [ways |-> L2_WAYS, sets |-> L2_SETS_PER_WAY]

CU == 0 .. NUM_CUS - 1
Line == 0 .. NUM_LINES - 1
Addr == Line \X Word
Value == 0 .. MAX_WRITES

Max2(a, b) == IF a < b THEN b ELSE a

Init ==
    /\ l1_caches = [c \in CU |-> Reset(L1)] /\ l2_cache = Reset(L2)
    /\ global_mem = [l \in Line |-> [i \in Word |-> 0]]
    /\ golden_l1 = <<>> /\ golden_l2 = <<>>
    /\ golden_global = [a \in Addr |-> 0]
    /\ writes = 0 /\ host_writes = 0
    /\ seen = [c \in CU |-> [a \in Addr |-> 0]]
-----------------------------------------------------------------------------
(***************************************************************************)
(* MemoryHierarchy: a cache is a partial function from words to values.    *)
(***************************************************************************)
Put(cache, a, v) == [b \in DOMAIN cache \cup {a} |-> IF b = a THEN v ELSE cache[b]]
PutIfPresent(cache, a, v) == IF a \in DOMAIN cache THEN Put(cache, a, v) ELSE cache
Erase(cache, a) == [b \in DOMAIN cache \ {a} |-> cache[b]]

GoldenLoadValue(a) ==
    IF a \in DOMAIN golden_l1 THEN golden_l1[a]
    ELSE IF a \in DOMAIN golden_l2 THEN golden_l2[a] ELSE golden_global[a]

GoldenLoadWord(a) ==
    /\ golden_l1' = Put(golden_l1, a, GoldenLoadValue(a))
    /\ golden_l2' = IF a \in DOMAIN golden_l1 THEN golden_l2
                    ELSE Put(golden_l2, a, GoldenLoadValue(a))
    /\ UNCHANGED golden_global

GoldenStoreWord(a, v) ==
    /\ golden_l1' = PutIfPresent(golden_l1, a, v)
    /\ golden_l2' = PutIfPresent(golden_l2, a, v)
    /\ golden_global' = [golden_global EXCEPT ![a] = v]

GoldenWriteBytes(a, v) ==
    /\ golden_l1' = Erase(golden_l1, a)
    /\ golden_l2' = Erase(golden_l2, a)
    /\ golden_global' = [golden_global EXCEPT ![a] = v]
-----------------------------------------------------------------------------
(***************************************************************************)
(* MemorySubsystem                                                         *)
(***************************************************************************)
\* The line a load of CU c reads from: its L1, else L2, else global memory.
LoadLine(c, line) ==
    IF Hit(L1, l1_caches[c], line) THEN ReadLine(L1, l1_caches[c], line)
    ELSE IF Hit(L2, l2_cache, line) THEN ReadLine(L2, l2_cache, line)
    ELSE global_mem[line]

LoadValue(c, a) == LoadLine(c, a[1])[a[2]]

\* Fault: both tiers are filled whenever L1 misses.
LoadWordFillsBoth(c, line) ==
    /\ l1_caches' = IF Hit(L1, l1_caches[c], line) THEN l1_caches
                    ELSE [l1_caches EXCEPT ![c] = FillLine(L1, @, line, LoadLine(c, line))]
    /\ l2_cache' = IF Hit(L1, l1_caches[c], line) THEN l2_cache
                   ELSE FillLine(L2, l2_cache, line, LoadLine(c, line))
    /\ UNCHANGED global_mem

LoadWord(c, line) ==
    /\ l1_caches' = IF Hit(L1, l1_caches[c], line) THEN l1_caches
                    ELSE [l1_caches EXCEPT ![c] = FillLine(L1, @, line, LoadLine(c, line))]
    /\ l2_cache' = IF Hit(L1, l1_caches[c], line) \/ Hit(L2, l2_cache, line) THEN l2_cache
                   ELSE FillLine(L2, l2_cache, line, global_mem[line])
    /\ UNCHANGED global_mem

\* Fault: an L2 that holds the line is not updated when L1 holds it as well.
StoreWordToOneTier(c, line, word, v) ==
    /\ l1_caches' = [l1_caches EXCEPT ![c] = WriteIfHit(L1, @, line, word, v)]
    /\ l2_cache' = IF Hit(L1, l1_caches[c], line) THEN l2_cache
                   ELSE WriteIfHit(L2, l2_cache, line, word, v)
    /\ global_mem' = [global_mem EXCEPT ![line][word] = v]

\* Fault: a store that hits in L1 is not written through.
StoreWordBack(c, line, word, v) ==
    /\ l1_caches' = [l1_caches EXCEPT ![c] = WriteIfHit(L1, @, line, word, v)]
    /\ l2_cache' = WriteIfHit(L2, l2_cache, line, word, v)
    /\ global_mem' = IF Hit(L1, l1_caches[c], line) THEN global_mem
                     ELSE [global_mem EXCEPT ![line][word] = v]

StoreWord(c, line, word, v) ==
    /\ l1_caches' = [l1_caches EXCEPT ![c] = WriteIfHit(L1, @, line, word, v)]
    /\ l2_cache' = WriteIfHit(L2, l2_cache, line, word, v)
    /\ global_mem' = [global_mem EXCEPT ![line][word] = v]
-----------------------------------------------------------------------------
\* handleRequest() of a load of CU c.
Load(c, a) ==
    /\ LoadWord(c, a[1])
    /\ GoldenLoadWord(a)
    /\ seen' = [seen EXCEPT ![c][a] = Max2(@, LoadValue(c, a))]
    /\ UNCHANGED <<writes, host_writes>>

\* handleRequest() of a store of CU c.
Store(c, a) ==
    /\ writes < MAX_WRITES
    /\ writes' = writes + 1
    /\ StoreWord(c, a[1], a[2], writes')
    /\ GoldenStoreWord(a, writes')
    /\ seen' = [seen EXCEPT ![c][a] = writes']
    /\ UNCHANGED host_writes

\* The host's DMA write of a word: the driver's writes go to global memory.
HostWrite(a) ==
    /\ writes < MAX_WRITES /\ host_writes < MAX_HOST_WRITES
    /\ writes' = writes + 1 /\ host_writes' = host_writes + 1
    /\ global_mem' = [global_mem EXCEPT ![a[1]][a[2]] = writes']
    /\ GoldenWriteBytes(a, writes')
    /\ UNCHANGED <<l1_caches, l2_cache, seen>>

Next ==
    \/ \E c \in CU, a \in Addr : Load(c, a) \/ Store(c, a)
    \/ \E a \in Addr : HostWrite(a)

Spec == Init /\ [][Next]_vars
-----------------------------------------------------------------------------
TypeOK ==
    /\ l1_caches \in [CU -> Bank(L1, Value)] /\ l2_cache \in Bank(L2, Value)
    /\ global_mem \in [Line -> [Word -> Value]]
    /\ golden_global \in [Addr -> Value]
    /\ DOMAIN golden_l1 \in SUBSET Addr /\ DOMAIN golden_l2 \in SUBSET Addr
    /\ writes \in Value /\ host_writes \in Nat
    /\ seen \in [CU -> [Addr -> Value]]

(***************************************************************************)
(* fillLine() of a line that is resident would leave two copies of it: no  *)
(* sequence of hits, misses and evictions fills L1 or L2 with a line they  *)
(* hold, although an L1 line may outlive its L2 copy.                      *)
(***************************************************************************)
NoLineTwice ==
    /\ LineInOneWay(L2, l2_cache, Line)
    /\ \A c \in CU : LineInOneWay(L1, l1_caches[c], Line)

(***************************************************************************)
(* A compute unit never loads a value older than one it has loaded or      *)
(* stored itself, whatever the other compute units and the host write and  *)
(* in whichever order L1 and L2 evict.                                     *)
(***************************************************************************)
NeverOlder == \A c \in CU, a \in Addr : LoadValue(c, a) >= seen[c][a]

(***************************************************************************)
(* The word the host reads back from global memory is the word it reads    *)
(* back from the golden model and the word every golden load returns:      *)
(* stores are written through whatever the caches hold.                    *)
(***************************************************************************)
ReadbackParity ==
    \A a \in Addr : /\ global_mem[a[1]][a[2]] = golden_global[a]
                    /\ golden_global[a] = GoldenLoadValue(a)

(***************************************************************************)
(* memory_pipeline.h:21 "functional (data) parity is the bar": a load of   *)
(* any compute unit returns the word the golden model returns.             *)
(***************************************************************************)
DataParity == \A c \in CU, a \in Addr : LoadValue(c, a) = GoldenLoadValue(a)

(***************************************************************************)
(* The caches stay well formed: no line is in two ways of a set, whatever  *)
(* is filled, evicted and stored (cache_bank.h:185).                       *)
(***************************************************************************)
CachesInv == TypeOK /\ NoLineTwice
=============================================================================
