------------------------ MODULE KernelBridgeProofs ------------------------
(***************************************************************************)
(* Proofs about one call of KernelBridge::runOnHardware(): barriers of a   *)
(* block, deadlock reports, contexts and results.                          *)
(***************************************************************************)
EXTENDS KernelBridge, FiniteSetTheorems, WellFoundedInduction, TLAPS

(***************************************************************************)
(* The invariant.  A thread that has ended is retired in the same step and *)
(* never waits; the passed barriers of a block agree.                      *)
(***************************************************************************)
Crew ==
    \A g \in DOMAIN workers :
        /\ workers[g].block = BlockOf(g) /\ workers[g].active = ~workers[g].halted
        /\ workers[g].blocked => ~workers[g].halted

\* A barrier that is full was released: next to a thread that waits there is
\* one of its block that does not, or not there.
Unfilled(ws) ==
    \A g \in DOMAIN ws : ws[g].blocked =>
        \E h \in DOMAIN ws : /\ ws[h].block = ws[g].block
                             /\ ~ws[h].blocked \/ ws[h].barrier # ws[g].barrier

Stuck(g) == ~workers[g].active \/ workers[g].blocked

\* What a pass without progress has seen so far: only threads that cannot run.
PassInv ==
    ~pass.made_progress =>
        /\ pass.selected = 0
        /\ pass.any_active => \E g \in DOMAIN workers : workers[g].active
        /\ geo.warp_size = 1 =>
              \A i \in 0 .. pass.scanned - 1 : Stuck((cursor + i) % Cardinality(Threads))
        /\ geo.warp_size > 1 =>
              \A i \in DOMAIN geo.warp_groups :
                  i < pass.scanned => \A g \in geo.warp_groups[i] : Stuck(g)

Running ==
    /\ geo = Geometry /\ DOMAIN workers = Threads
    /\ DOMAIN mem = launch.device_ptrs /\ launch.device_ptrs \subseteq KnownPtrs
    /\ cursor \in 0 .. Cardinality(Threads) - 1
    /\ PassInv

CallInv ==
    /\ launch \in Launches /\ tpw \in WarpSizes
    /\ TypeOK /\ Crew /\ BlockBarrier /\ Unfilled(workers)
    /\ phase = "call" => DOMAIN workers = {} /\ cursor = 0 /\ pass = NoPass /\ cuda_ctx = NoThread
    /\ phase = "run" => Running
    /\ phase # "returned" => result = "none"
    /\ DeadlockIsReal /\ ResultsAllOrNothing /\ RunsWithOwnContext
-----------------------------------------------------------------------------
(***************************************************************************)
(* Arithmetic of the launch geometry.                                      *)
(***************************************************************************)
LEMMA AtLeast1Type == \A n \in Nat : AtLeast1(n) \in Nat \ {0} /\ (n > 0 => AtLeast1(n) = n)
  BY DEF AtLeast1

LEMMA Product ==
    ASSUME NEW a \in Nat, NEW b \in Nat
    PROVE  a * b \in Nat /\ (a > 0 /\ b > 0 => a * b > 0)
  OBVIOUS

LEMMA Monotone ==
    ASSUME NEW a \in Nat, NEW b \in Nat, NEW n \in Nat, a <= b
    PROVE  a * n <= b * n
  OBVIOUS

LEMMA NextMultiple ==
    ASSUME NEW a \in Nat, NEW n \in Nat
    PROVE  (a + 1) * n = a * n + n
  OBVIOUS

LEMMA DivMod ==
    ASSUME NEW x \in Nat, NEW n \in Nat \ {0}
    PROVE  /\ x \div n \in Nat /\ x % n \in 0 .. n - 1
           /\ x = (x \div n) * n + (x % n)
  OBVIOUS

LEMMA DivUnique ==
    ASSUME NEW n \in Nat \ {0}, NEW q \in Nat, NEW t \in 0 .. n - 1
    PROVE  (q * n + t) \div n = q /\ (q * n + t) % n = t
<1>1. PICK x : x = q * n + t
  OBVIOUS
<1>2. x \in Nat
  BY <1>1
<1>3. PICK p, r : p = x \div n /\ r = x % n
  OBVIOUS
<1>4. p \in Nat /\ r \in 0 .. n - 1 /\ x = p * n + r
  BY <1>2, <1>3, DivMod
<1>5. ~(p < q)
  <2> SUFFICES ASSUME p < q PROVE FALSE
    OBVIOUS
  <2>1. (p + 1) * n <= q * n
    BY <1>4, Monotone
  <2> QED BY <1>1, <1>4, <2>1, NextMultiple
<1>6. ~(q < p)
  <2> SUFFICES ASSUME q < p PROVE FALSE
    OBVIOUS
  <2>1. (q + 1) * n <= p * n
    BY <1>4, Monotone
  <2> QED BY <1>1, <1>4, <2>1, NextMultiple
<1>7. p = q
  BY <1>4, <1>5, <1>6
<1> QED BY <1>1, <1>3, <1>4, <1>7

LEMMA MinOfTwo ==
    ASSUME NEW a \in Int, NEW b \in Int
    PROVE  Min({a, b}) \in {a, b} /\ Min({a, b}) <= a /\ Min({a, b}) <= b
<1>1. \E x \in {a, b} : \A y \in {a, b} : x <= y
  OBVIOUS
<1> QED BY <1>1 DEF Min

\* The geometry of a launch, whatever its dimensions.
LEMMA Shape ==
    ASSUME launch \in Launches, tpw \in WarpSizes
    PROVE  /\ \A d \in 1 .. 3 : Grid[d] \in Nat /\ Block[d] \in Nat
           /\ TotalBlocks \in Nat \ {0} /\ ThreadsPerBlock \in Nat \ {0}
           /\ WarpSize \in Nat \ {0} /\ WarpsPerBlock \in Nat \ {0}
<1>1. \A d \in 1 .. 3 : Grid[d] \in Nat /\ Block[d] \in Nat
  BY KernelBridgeAssumption DEF Grid, Block
<1>2. TotalBlocks \in Nat \ {0} /\ ThreadsPerBlock \in Nat \ {0}
  <2>1. \A x, y, z \in Nat : AtLeast1(x * AtLeast1(y) * AtLeast1(z)) \in Nat \ {0}
    <3> SUFFICES ASSUME NEW x \in Nat, NEW y \in Nat, NEW z \in Nat
                 PROVE  AtLeast1(x * AtLeast1(y) * AtLeast1(z)) \in Nat \ {0}
      OBVIOUS
    <3>1. AtLeast1(y) \in Nat /\ AtLeast1(z) \in Nat
      BY AtLeast1Type
    <3>2. x * AtLeast1(y) \in Nat
      BY <3>1, Product
    <3>3. x * AtLeast1(y) * AtLeast1(z) \in Nat
      BY <3>1, <3>2, Product
    <3> QED BY <3>3, AtLeast1Type
  <2>2. /\ Grid[1] \in Nat /\ Grid[2] \in Nat /\ Grid[3] \in Nat
        /\ Block[1] \in Nat /\ Block[2] \in Nat /\ Block[3] \in Nat
    BY <1>1
  <2> QED BY <2>1, <2>2, Zenon DEF TotalBlocks, ThreadsPerBlock
<1>3. WarpSize \in Nat \ {0}
  <2>1. tpw \in Nat /\ tpw \in Int /\ ThreadsPerBlock \in Int
    BY <1>2, KernelBridgeAssumption
  <2>2. Min({tpw, ThreadsPerBlock}) \in {tpw, ThreadsPerBlock}
    BY <2>1, MinOfTwo
  <2> QED BY <1>2, <2>1, <2>2 DEF WarpSize
<1>4. WarpsPerBlock \in Nat \ {0}
  <2>1. PICK x, w : x = ThreadsPerBlock + WarpSize - 1 /\ w = WarpSize
    OBVIOUS
  <2>2. x \in Nat /\ w \in Nat \ {0} /\ x >= w
    BY <1>2, <1>3, <2>1
  <2>3. PICK q : q = x \div w
    OBVIOUS
  <2>4. q \in Nat /\ x = q * w + (x % w) /\ x % w \in 0 .. w - 1
    BY <2>2, <2>3, DivMod
  <2>5. q # 0
    BY <2>2, <2>4
  <2> QED BY <2>1, <2>3, <2>4, <2>5 DEF WarpsPerBlock
<1> QED BY <1>1, <1>2, <1>3, <1>4

LEMMA ThreadCount ==
    ASSUME launch \in Launches, tpw \in WarpSizes
    PROVE  /\ IsFiniteSet(Threads) /\ Cardinality(Threads) = TotalBlocks * ThreadsPerBlock
           /\ Cardinality(Threads) \in Nat \ {0} /\ Threads = 0 .. Cardinality(Threads) - 1
           /\ ActiveUnits \in Nat \ {0}
<1>1. PICK n : n = TotalBlocks * ThreadsPerBlock
  OBVIOUS
<1>2. n \in Nat \ {0}
  BY <1>1, Shape, Product
<1>3. IsFiniteSet(0 .. n - 1) /\ Cardinality(0 .. n - 1) = n
  BY <1>2, FS_Interval
<1>4. Threads = 0 .. n - 1
  BY <1>1 DEF Threads
<1>5. ActiveUnits \in Nat \ {0}
  <2>1. NUM_COMPUTE_UNITS \in Nat /\ NUM_COMPUTE_UNITS \in Int /\ n \in Int
    BY <1>2, KernelBridgeAssumption
  <2>2. Min({NUM_COMPUTE_UNITS, n}) \in {NUM_COMPUTE_UNITS, n}
    BY <2>1, MinOfTwo
  <2>3. Min({NUM_COMPUTE_UNITS, n}) \in Nat
    BY <1>2, <2>1, <2>2
  <2> QED BY <1>3, <1>4, <2>3, AtLeast1Type DEF ActiveUnits
<1> QED BY <1>1, <1>2, <1>3, <1>4, <1>5

\* The threads of a block are an interval of ThreadsPerBlock thread ids.
LEMMA ThreadsOfBlock ==
    ASSUME launch \in Launches, tpw \in WarpSizes, NEW g \in Threads
    PROVE  /\ IsFiniteSet({o \in Threads : BlockOf(o) = BlockOf(g)})
           /\ Cardinality({o \in Threads : BlockOf(o) = BlockOf(g)}) = ThreadsPerBlock
           /\ BlockOf(g) \in Nat
<1>1. PICK n, m, b, T :
          n = ThreadsPerBlock /\ m = TotalBlocks /\ b = BlockOf(g) /\ T = Threads
  OBVIOUS
<1>2. n \in Nat \ {0} /\ m \in Nat \ {0} /\ T = 0 .. m * n - 1 /\ g \in T
  BY <1>1, Shape DEF Threads
<1>3. b \in Nat /\ b < m
  <2>1. m * n \in Nat /\ g \in Nat
    BY <1>2, Product
  <2>2. b = g \div n
    BY <1>1 DEF BlockOf
  <2>3. b \in Nat /\ g = b * n + (g % n) /\ g % n \in 0 .. n - 1 /\ b * n \in Nat
    BY <1>2, <2>1, <2>2, DivMod, Product
  <2>4. SUFFICES ASSUME m <= b PROVE FALSE
    BY <1>2, <2>3
  <2>5. m * n <= b * n
    BY <1>2, <2>3, <2>4, Monotone
  <2> QED BY <1>2, <2>1, <2>3, <2>5
<1>4. PICK lo : lo = b * n
  OBVIOUS
<1>5. lo \in Nat /\ lo + n <= m * n /\ m * n \in Nat
  <2>1. (b + 1) * n <= m * n
    BY <1>2, <1>3, Monotone
  <2> QED BY <1>2, <1>3, <1>4, <2>1, NextMultiple, Product
<1>6. \A o \in T : BlockOf(o) = o \div n
  BY <1>1 DEF BlockOf
<1>7. \A o \in lo .. lo + n - 1 : o \in T /\ BlockOf(o) = b
  <2> SUFFICES ASSUME NEW o \in lo .. lo + n - 1 PROVE o \in T /\ BlockOf(o) = b
    OBVIOUS
  <2>1. o \in T
    BY <1>2, <1>5
  <2>2. PICK t : t = o - lo
    OBVIOUS
  <2>3. t \in 0 .. n - 1 /\ o = b * n + t
    BY <1>2, <1>3, <1>4, <1>5, <2>2
  <2>4. o \div n = b
    BY <1>2, <1>3, <2>3, DivUnique
  <2> QED BY <1>6, <2>1, <2>4
<1>8. \A o \in T : BlockOf(o) = b => o \in lo .. lo + n - 1
  <2> SUFFICES ASSUME NEW o \in T, BlockOf(o) = b PROVE o \in lo .. lo + n - 1
    OBVIOUS
  <2>1. o \in Nat /\ o \div n = b
    BY <1>2, <1>5, <1>6
  <2>2. o = b * n + (o % n) /\ o % n \in 0 .. n - 1
    BY <1>2, <2>1, DivMod
  <2> QED BY <1>2, <1>4, <1>5, <2>1, <2>2
<1>9. {o \in T : BlockOf(o) = b} = lo .. lo + n - 1
  BY <1>7, <1>8
<1>10. IsFiniteSet(lo .. lo + n - 1) /\ Cardinality(lo .. lo + n - 1) = n
  <2>1. PICK hi : hi = lo + n - 1
    OBVIOUS
  <2>2. lo \in Int /\ hi \in Int /\ ~(lo > hi) /\ hi - lo + 1 = n
    BY <1>2, <1>5, <2>1
  <2>3. IsFiniteSet(lo .. hi) /\ Cardinality(lo .. hi) = hi - lo + 1
    BY <2>2, FS_Interval
  <2> QED BY <2>1, <2>2, <2>3
<1> QED BY <1>1, <1>3, <1>9, <1>10

\* A warp is a set of threads of one block, and every thread is in a warp.
LEMMA WarpsInBlocks ==
    ASSUME launch \in Launches, tpw \in WarpSizes, NEW i \in 0 .. TotalWarps - 1
    PROVE  /\ WarpThreads(i) \subseteq Threads
           /\ \A g, h \in WarpThreads(i) : BlockOf(g) = BlockOf(h)
<1>1. PICK n, m, k, w :
          n = ThreadsPerBlock /\ m = TotalBlocks /\ k = WarpsPerBlock /\ w = WarpSize
  OBVIOUS
<1>2. n \in Nat \ {0} /\ m \in Nat \ {0} /\ k \in Nat \ {0} /\ w \in Nat \ {0}
  BY <1>1, Shape
<1>3. PICK q, base : q = i \div k /\ base = (i % k) * w
  OBVIOUS
<1>4. i \in Nat /\ i < m * k /\ m * k \in Nat /\ m * n \in Nat
  <2>1. m * k \in Nat /\ m * n \in Nat
    BY <1>2, Product
  <2> QED BY <1>1, <2>1 DEF TotalWarps
<1>5. q \in Nat /\ i % k \in 0 .. k - 1 /\ i = q * k + (i % k)
  BY <1>2, <1>3, <1>4, DivMod
<1>6. base \in Nat
  BY <1>2, <1>3, <1>5, Product
<1>7. q < m
  <2> SUFFICES ASSUME m <= q PROVE FALSE
    BY <1>2, <1>5
  <2>1. m * k <= q * k /\ q * k \in Nat
    BY <1>2, <1>5, Monotone, Product
  <2> QED BY <1>2, <1>4, <1>5, <2>1
<1>8. q * n \in Nat /\ q * n + n <= m * n
  <2>1. (q + 1) * n <= m * n
    BY <1>2, <1>5, <1>7, Monotone
  <2> QED BY <1>2, <1>5, <2>1, NextMultiple, Product
<1>9. Min({base + w, n}) \in Int /\ Min({base + w, n}) <= n
  <2>1. base + w \in Int /\ n \in Int
    BY <1>2, <1>6
  <2>2. Min({base + w, n}) \in {base + w, n} /\ Min({base + w, n}) <= n
    BY <2>1, MinOfTwo
  <2> QED BY <2>1, <2>2
<1>10. WarpThreads(i) = {q * n + t : t \in base .. Min({base + w, n}) - 1}
  BY <1>1, <1>3 DEF WarpThreads
<1>11. \A g \in WarpThreads(i) : g \in Threads /\ BlockOf(g) = q
  <2> SUFFICES ASSUME NEW g \in WarpThreads(i) PROVE g \in Threads /\ BlockOf(g) = q
    OBVIOUS
  <2>1. PICK t \in base .. Min({base + w, n}) - 1 : g = q * n + t
    BY <1>10
  <2>2. t \in 0 .. n - 1
    BY <1>2, <1>6, <1>9
  <2>3. g \in 0 .. m * n - 1
    BY <1>2, <1>4, <1>8, <2>1, <2>2
  <2>4. g \div n = q
    BY <1>2, <1>5, <2>1, <2>2, DivUnique
  <2> QED BY <1>1, <2>3, <2>4 DEF Threads, BlockOf
<1> QED BY <1>11

LEMMA WarpsCover ==
    ASSUME launch \in Launches, tpw \in WarpSizes, NEW g \in Threads
    PROVE  \E i \in 0 .. TotalWarps - 1 : g \in WarpThreads(i)
<1>1. PICK n, m, k, w :
          n = ThreadsPerBlock /\ m = TotalBlocks /\ k = WarpsPerBlock /\ w = WarpSize
  OBVIOUS
<1>2. n \in Nat \ {0} /\ m \in Nat \ {0} /\ k \in Nat \ {0} /\ w \in Nat \ {0}
  BY <1>1, Shape
<1>3. PICK q, t, p, c : q = g \div n /\ t = g % n /\ p = t \div w /\ c = (n + w - 1) \div w
  OBVIOUS
<1>4. m * n \in Nat /\ m * k \in Nat /\ g \in 0 .. m * n - 1
  <2>1. m * n \in Nat /\ m * k \in Nat
    BY <1>2, Product
  <2> QED BY <1>1, <2>1 DEF Threads
<1>5. q \in Nat /\ t \in 0 .. n - 1 /\ g = q * n + t /\ q * n \in Nat
  <2>1. g \in Nat
    BY <1>4
  <2>2. q \in Nat /\ t \in 0 .. n - 1 /\ g = q * n + t
    BY <1>2, <1>3, <2>1, DivMod
  <2> QED BY <1>2, <2>2, Product
<1>6. p \in Nat /\ t = p * w + (t % w) /\ t % w \in 0 .. w - 1 /\ p * w \in Nat
  <2>1. t \in Nat
    BY <1>2, <1>5
  <2> QED BY <1>2, <1>3, <2>1, DivMod, Product
<1>7. k = c
  BY <1>1, <1>3 DEF WarpsPerBlock
<1>8. p < k
  <2>1. PICK x : x = n + w - 1
    OBVIOUS
  <2>2. x \in Nat
    BY <1>2, <2>1
  <2>3. x = k * w + (x % w) /\ x % w \in 0 .. w - 1 /\ k * w \in Nat
    BY <1>2, <1>3, <1>7, <2>1, <2>2, DivMod, Product
  <2> SUFFICES ASSUME k <= p PROVE FALSE
    BY <1>2, <1>6
  <2>4. k * w <= p * w
    BY <1>2, <1>6, Monotone
  <2> QED BY <1>2, <1>5, <1>6, <2>1, <2>3, <2>4
<1>9. q < m
  <2> SUFFICES ASSUME m <= q PROVE FALSE
    BY <1>2, <1>5
  <2>1. m * n <= q * n
    BY <1>2, <1>5, Monotone
  <2> QED BY <1>2, <1>4, <1>5, <2>1
<1>10. PICK i : i = q * k + p
  OBVIOUS
<1>11. i \div k = q /\ i % k = p
  <2>1. p \in 0 .. k - 1
    BY <1>2, <1>6, <1>8
  <2> QED BY <1>2, <1>5, <1>10, <2>1, DivUnique
<1>12. i \in 0 .. m * k - 1
  <2>1. (q + 1) * k <= m * k
    BY <1>2, <1>5, <1>9, Monotone
  <2>2. q * k + k <= m * k /\ q * k \in Nat
    BY <1>2, <1>5, <2>1, NextMultiple, Product
  <2> QED BY <1>2, <1>4, <1>6, <1>8, <1>10, <2>2
<1>13. t \in p * w .. Min({p * w + w, n}) - 1
  <2>1. p * w + w \in Int /\ n \in Int
    BY <1>2, <1>6
  <2>2. Min({p * w + w, n}) \in {p * w + w, n}
    BY <2>1, MinOfTwo
  <2>3. p * w <= t /\ t < p * w + w /\ t < n /\ t \in Int
    BY <1>2, <1>5, <1>6
  <2>4. t < Min({p * w + w, n}) /\ Min({p * w + w, n}) \in Int
    BY <2>1, <2>2, <2>3
  <2> QED BY <1>6, <2>3, <2>4
<1>14. WarpThreads(i) = {q * n + u : u \in p * w .. Min({p * w + w, n}) - 1}
  BY <1>1, <1>11 DEF WarpThreads
<1>15. g \in WarpThreads(i)
  BY <1>5, <1>13, <1>14
<1>16. TotalWarps = m * k
  BY <1>1 DEF TotalWarps
<1> QED BY <1>12, <1>15, <1>16

\* A pass from cursor that has scanned as many workers as there are has seen
\* every one.
LEMMA RoundTrip ==
    ASSUME NEW n \in Nat \ {0}, NEW c \in 0 .. n - 1, NEW g \in 0 .. n - 1
    PROVE  \E i \in 0 .. n - 1 : (c + i) % n = g
<1>1. CASE c <= g
  <2>1. PICK i : i = g - c
    OBVIOUS
  <2>2. i \in 0 .. n - 1 /\ c + i = 0 * n + g
    BY <1>1, <2>1
  <2>3. (0 * n + g) % n = g
    BY DivUnique
  <2> QED BY <2>2, <2>3
<1>2. CASE g < c
  <2>1. PICK i : i = (g + n) - c
    OBVIOUS
  <2>2. i \in 0 .. n - 1 /\ c + i = 1 * n + g
    BY <1>2, <2>1
  <2>3. (1 * n + g) % n = g
    BY DivUnique
  <2> QED BY <2>2, <2>3
<1> QED BY <1>1, <1>2

\* A set of threads has a largest one.
LEMMA MaxOfThreads ==
    ASSUME NEW n \in Nat, NEW S \in SUBSET (0 .. n), S # {}
    PROVE  Max(S) \in S
<1> DEFINE T == {n - x : x \in S}
           R == OpToRel(<, Nat)
<1>1. T \subseteq Nat /\ T # {}
  <2>1. \A x \in S : n - x \in Nat
    OBVIOUS
  <2> QED BY <2>1
<1>2. IsWellFoundedOn(R, Nat)
  BY NatLessThanWellFounded
<1>3. \E x \in T : \A y \in T : ~(<<y, x>> \in R)
  <2> HIDE DEF T, R
  <2> QED BY <1>1, <1>2, WFMin
<1>4. PICK x \in T : \A y \in T : ~(<<y, x>> \in R)
  BY <1>3
<1>5. \A y \in T : ~(y < x)
  BY <1>1, <1>4 DEF OpToRel
<1>6. PICK u \in S : x = n - u
  OBVIOUS
<1>7. \A v \in S : u >= v
  <2> SUFFICES ASSUME NEW v \in S PROVE u >= v
    OBVIOUS
  <2>1. u \in 0 .. n /\ v \in 0 .. n
    OBVIOUS
  <2>2. ~(n - v < n - u)
    BY <1>5, <1>6
  <2> QED BY <2>1, <2>2
<1> QED BY <1>7 DEF Max
-----------------------------------------------------------------------------
(***************************************************************************)
(* The workers in the middle of a turn, ws: some have executed an          *)
(* instruction and are not retired yet.                                    *)
(***************************************************************************)
Midway(ws) ==
    /\ ws \in [Threads -> Worker]
    /\ \A g \in Threads :
          /\ ws[g].block = BlockOf(g) /\ ws[g].saw = g
          /\ ws[g].blocked => ws[g].active /\ ~ws[g].halted
          /\ ~ws[g].active => ws[g].halted
    /\ \A g, h \in Threads : BlockOf(g) = BlockOf(h) => ws[g].passed = ws[h].passed

Stepped(w, instr, c) == [Step(w, instr) EXCEPT !.saw = c]

\* An instruction does not move a thread to another block or past a barrier.
LEMMA StepFacts ==
    ASSUME NEW w \in Worker, NEW instr \in Instruction, NEW c \in Int, ~w.halted, ~w.blocked
    PROVE  /\ Stepped(w, instr, c) \in Worker /\ Stepped(w, instr, c).saw = c
           /\ Stepped(w, instr, c).block = w.block /\ Stepped(w, instr, c).active = w.active
           /\ Stepped(w, instr, c).passed = w.passed
           /\ ~(Stepped(w, instr, c).blocked /\ Stepped(w, instr, c).halted)
<1>0. PICK v : v = Stepped(w, instr, c)
  OBVIOUS
<1> SUFFICES /\ v \in Worker /\ v.saw = c
             /\ v.block = w.block /\ v.active = w.active /\ v.passed = w.passed
             /\ ~(v.blocked /\ v.halted)
  BY <1>0
<1>1. MAX_SIM_CYCLES \in Nat \ {0}
  BY KernelBridgeAssumption
<1>2. instr.op = "bar" => instr.x \in BarrierIds
  BY DEF Instruction
<1>4. CASE Watchdog(w)
  BY <1>0, <1>4 DEF Stepped, Step, Worker
<1>5. CASE ~Watchdog(w)
  <2>1. w.cycles + 1 \in 0 .. MAX_SIM_CYCLES
    BY <1>1, <1>5 DEF Watchdog, Worker
  <2>2. CASE instr.op = "bar"
    BY <1>0, <1>2, <1>5, <2>1, <2>2 DEF Stepped, Step, Worker
  <2>3. CASE instr.op = "halt"
    BY <1>0, <1>5, <2>1, <2>3 DEF Stepped, Step, Worker
  <2>4. CASE instr.op # "bar" /\ instr.op # "halt"
    BY <1>0, <1>5, <2>1, <2>4 DEF Stepped, Step, Worker
  <2> QED BY <2>2, <2>3, <2>4
<1> QED BY <1>4, <1>5

\* The count of arrivals is full exactly when the whole block is there.
LEMMA FullBarrier ==
    ASSUME launch \in Launches, tpw \in WarpSizes, geo = Geometry,
           NEW ws, Midway(ws), NEW g \in Threads
    PROVE  BarrierFull(ws, g) <=> \A o \in Threads : BlockOf(o) = BlockOf(g) => o \in AtBarrier(ws, g)
<1> DEFINE B == {o \in Threads : BlockOf(o) = BlockOf(g)}
<1>1. IsFiniteSet(B) /\ Cardinality(B) = ThreadsPerBlock
  BY ThreadsOfBlock
<1>2. geo.threads_per_block = ThreadsPerBlock
  BY DEF Geometry
<1>3. AtBarrier(ws, g) \in SUBSET B
  BY DEF AtBarrier, Midway
<1>4. Cardinality(AtBarrier(ws, g)) = Cardinality(B) <=> AtBarrier(ws, g) = B
  <2> HIDE DEF B
  <2> QED BY <1>1, <1>3, FS_Subset
<1> QED BY <1>1, <1>2, <1>3, <1>4 DEF BarrierFull

LEMMA FreedWorker ==
    ASSUME NEW w \in Worker, NEW v, v = [w EXCEPT !.blocked = FALSE, !.passed = @ + 1]
    PROVE  /\ v \in Worker /\ v.block = w.block /\ v.saw = w.saw
           /\ v.active = w.active /\ v.halted = w.halted
           /\ ~v.blocked /\ v.passed = w.passed + 1
<1>1. PICK n : n = w.passed + 1
  OBVIOUS
<1>2. n \in Nat
  BY <1>1 DEF Worker
<1>3. v = [w EXCEPT !.blocked = FALSE, !.passed = n]
  BY <1>1 DEF Worker
<1>4. v \in Worker /\ v.passed = n
  BY <1>2, <1>3 DEF Worker
<1> QED BY <1>1, <1>3, <1>4 DEF Worker

LEMMA ReleaseFacts ==
    ASSUME launch \in Launches, tpw \in WarpSizes, geo = Geometry,
           NEW ws, Midway(ws), NEW g \in Threads
    PROVE  /\ Midway(ReleaseBarrier(ws, g))
           /\ \A o \in Threads : ReleaseBarrier(ws, g)[o].active = ws[o].active
                              /\ ReleaseBarrier(ws, g)[o].halted = ws[o].halted
           /\ ws[g].blocked /\ BarrierFull(ws, g) =>
                \A o \in Threads : IF BlockOf(o) = BlockOf(g)
                                     THEN ~ReleaseBarrier(ws, g)[o].blocked
                                     ELSE ReleaseBarrier(ws, g)[o] = ws[o]
<1>1. CASE ~(ws[g].blocked /\ BarrierFull(ws, g))
  BY <1>1 DEF ReleaseBarrier
<1>2. CASE ws[g].blocked /\ BarrierFull(ws, g)
  <2>1. PICK rs : rs = ReleaseBarrier(ws, g)
    OBVIOUS
  <2>2. \A o \in Threads : o \in AtBarrier(ws, g) <=> BlockOf(o) = BlockOf(g)
    BY <1>2, FullBarrier DEF AtBarrier, Midway
  <2>3. rs = [o \in Threads |-> IF BlockOf(o) = BlockOf(g)
                 THEN [ws[o] EXCEPT !.blocked = FALSE, !.passed = @ + 1] ELSE ws[o]]
    <3>1. DOMAIN ws = Threads
      BY DEF Midway
    <3>2. rs = [o \in Threads |-> IF o \in AtBarrier(ws, g)
                 THEN [ws[o] EXCEPT !.blocked = FALSE, !.passed = @ + 1] ELSE ws[o]]
      BY <1>2, <2>1, <3>1 DEF ReleaseBarrier
    <3> QED BY <2>2, <3>2
  <2>4. \A o \in Threads : ws[o] \in Worker
    BY DEF Midway
  <2>5. \A o \in Threads : BlockOf(o) = BlockOf(g) =>
            /\ rs[o] \in Worker /\ rs[o].block = ws[o].block /\ rs[o].saw = ws[o].saw
            /\ rs[o].active = ws[o].active /\ rs[o].halted = ws[o].halted
            /\ ~rs[o].blocked /\ rs[o].passed = ws[o].passed + 1
    <3> SUFFICES ASSUME NEW o \in Threads, BlockOf(o) = BlockOf(g)
                 PROVE  /\ rs[o] \in Worker /\ rs[o].block = ws[o].block /\ rs[o].saw = ws[o].saw
                        /\ rs[o].active = ws[o].active /\ rs[o].halted = ws[o].halted
                        /\ ~rs[o].blocked /\ rs[o].passed = ws[o].passed + 1
      OBVIOUS
    <3>1. ws[o] \in Worker /\ rs[o] = [ws[o] EXCEPT !.blocked = FALSE, !.passed = @ + 1]
      BY <2>3, <2>4
    <3> QED BY <3>1, FreedWorker
  <2>6. \A o \in Threads : BlockOf(o) # BlockOf(g) => rs[o] = ws[o]
    BY <2>3
  <2>7. rs \in [Threads -> Worker]
    BY <2>3, <2>4, <2>5, <2>6
  <2>8. Midway(rs)
    BY <2>5, <2>6, <2>7 DEF Midway
  <2> QED BY <1>2, <2>1, <2>5, <2>6, <2>8
<1> QED BY <1>1, <1>2

\* After a turn of the threads G of one block that filled no barrier there is
\* none filled, and after the release of the one they filled there is none.
LEMMA TurnUnfilled ==
    ASSUME launch \in Launches, tpw \in WarpSizes, geo = Geometry,
           Unfilled(workers), DOMAIN workers = Threads, Crew,
           NEW G \in SUBSET Threads, \A g, h \in G : BlockOf(g) = BlockOf(h),
           NEW ws, Midway(ws), \A o \in Threads \ G : ws[o] = workers[o],
           \A g \in G : ws[g].blocked => ~BarrierFull(ws, g)
    PROVE  Unfilled(ws)
<1>1. DOMAIN ws = Threads /\ \A o \in Threads : ws[o].block = BlockOf(o)
  BY DEF Midway
<1>2. SUFFICES ASSUME NEW g \in Threads, ws[g].blocked
               PROVE  \E h \in Threads : /\ BlockOf(h) = BlockOf(g)
                                         /\ ~ws[h].blocked \/ ws[h].barrier # ws[g].barrier
  BY <1>1 DEF Unfilled
<1>3. CASE \A x \in G : BlockOf(x) # BlockOf(g)
  <2>1. g \notin G /\ ws[g] = workers[g]
    BY <1>3
  <2>2. PICK h \in Threads : /\ workers[h].block = workers[g].block
                             /\ ~workers[h].blocked \/ workers[h].barrier # workers[g].barrier
    BY <1>2, <2>1 DEF Unfilled
  <2>3. BlockOf(h) = BlockOf(g)
    BY <2>2 DEF Crew
  <2>4. ws[h] = workers[h]
    BY <1>3, <2>3
  <2> QED BY <2>1, <2>2, <2>3, <2>4
<1>4. CASE \E x \in G : BlockOf(x) = BlockOf(g)
  <2>1. PICK x \in G : BlockOf(x) = BlockOf(g)
    BY <1>4
  <2>2. CASE ~ws[x].blocked \/ ws[x].barrier # ws[g].barrier
    BY <2>1, <2>2
  <2>3. CASE ws[x].blocked /\ ws[x].barrier = ws[g].barrier
    <3>1. ~BarrierFull(ws, x) /\ x \in Threads
      BY <2>3
    <3>2. PICK o \in Threads : BlockOf(o) = BlockOf(x) /\ o \notin AtBarrier(ws, x)
      BY <3>1, FullBarrier
    <3>3. ~(ws[o].active /\ ws[o].blocked /\ ws[o].barrier = ws[x].barrier)
      BY <1>1, <3>1, <3>2 DEF AtBarrier
    <3>4. ~ws[o].blocked \/ ws[o].barrier # ws[x].barrier
      BY <3>3 DEF Midway
    <3> QED BY <2>1, <2>3, <3>2, <3>4
  <2> QED BY <2>2, <2>3
<1> QED BY <1>3, <1>4

LEMMA TurnReleased ==
    ASSUME launch \in Launches, tpw \in WarpSizes, geo = Geometry,
           Unfilled(workers), DOMAIN workers = Threads, Crew,
           NEW G \in SUBSET Threads, \A g, h \in G : BlockOf(g) = BlockOf(h),
           NEW ws, Midway(ws), \A o \in Threads \ G : ws[o] = workers[o],
           NEW x \in G, ws[x].blocked, BarrierFull(ws, x)
    PROVE  Unfilled(ReleaseBarrier(ws, x))
<1>1. PICK rs : rs = ReleaseBarrier(ws, x)
  OBVIOUS
<1>2. /\ Midway(rs)
      /\ \A o \in Threads : IF BlockOf(o) = BlockOf(x) THEN ~rs[o].blocked ELSE rs[o] = ws[o]
  BY <1>1, ReleaseFacts
<1>3. DOMAIN rs = Threads /\ \A o \in Threads : rs[o].block = BlockOf(o)
  BY <1>2 DEF Midway
<1>4. SUFFICES ASSUME NEW g \in Threads, rs[g].blocked
               PROVE  \E h \in Threads : /\ BlockOf(h) = BlockOf(g)
                                         /\ ~rs[h].blocked \/ rs[h].barrier # rs[g].barrier
  BY <1>1, <1>3 DEF Unfilled
<1>5. BlockOf(g) # BlockOf(x)
  BY <1>2, <1>4
<1>6. \A h \in Threads : BlockOf(h) = BlockOf(g) => rs[h] = workers[h]
  BY <1>2, <1>5
<1>7. PICK h \in Threads : /\ workers[h].block = workers[g].block
                           /\ ~workers[h].blocked \/ workers[h].barrier # workers[g].barrier
  BY <1>4, <1>6 DEF Unfilled
<1>8. BlockOf(h) = BlockOf(g)
  BY <1>7 DEF Crew
<1> QED BY <1>6, <1>7, <1>8

\* Threads that have ended leave the loop.
LEMMA RetireFacts ==
    ASSUME NEW ws, Midway(ws), NEW G \in SUBSET Threads,
           \A o \in Threads \ G : ws[o].active = ~ws[o].halted,
           NEW rs, rs = Retire(ws, G)
    PROVE  /\ Midway(rs)
           /\ \A o \in Threads : /\ rs[o].active = ~rs[o].halted
                                 /\ rs[o].halted = ws[o].halted
                                 /\ rs[o].blocked = ws[o].blocked /\ rs[o].barrier = ws[o].barrier
           /\ Unfilled(ws) => Unfilled(rs)
<1>1. DOMAIN ws = Threads /\ \A o \in Threads : ws[o] \in Worker
  BY DEF Midway
<1>2. rs = [o \in Threads |-> IF o \in G /\ ws[o].halted
                                THEN [ws[o] EXCEPT !.active = FALSE] ELSE ws[o]]
  BY <1>1 DEF Retire
<1>3. \A w \in Worker : LET v == [w EXCEPT !.active = FALSE] IN
          /\ v \in Worker /\ ~v.active /\ v.halted = w.halted /\ v.blocked = w.blocked
          /\ v.barrier = w.barrier /\ v.block = w.block /\ v.passed = w.passed /\ v.saw = w.saw
  BY DEF Worker
<1>4. \A o \in Threads :
          /\ rs[o] \in Worker /\ rs[o].halted = ws[o].halted /\ rs[o].blocked = ws[o].blocked
          /\ rs[o].barrier = ws[o].barrier /\ rs[o].block = ws[o].block
          /\ rs[o].passed = ws[o].passed /\ rs[o].saw = ws[o].saw
  BY <1>1, <1>2, <1>3
<1>5. \A o \in Threads : IF o \in G /\ ws[o].halted THEN ~rs[o].active ELSE rs[o] = ws[o]
  BY <1>1, <1>2, <1>3
<1>6. \A o \in Threads : rs[o].active \in BOOLEAN /\ rs[o].halted \in BOOLEAN
  BY <1>4 DEF Worker
<1>7. \A o \in Threads : rs[o].active <=> ~rs[o].halted
  <2> SUFFICES ASSUME NEW o \in Threads PROVE rs[o].active <=> ~rs[o].halted
    OBVIOUS
  <2>1. CASE o \in G /\ ws[o].halted
    BY <1>4, <1>5, <2>1
  <2>2. CASE o \in G /\ ~ws[o].halted
    BY <1>4, <1>5, <2>2 DEF Midway
  <2>3. CASE o \notin G
    BY <1>5, <2>3
  <2> QED BY <2>1, <2>2, <2>3
<1>8. \A o \in Threads : rs[o].active = ~rs[o].halted
  BY <1>6, <1>7
<1>9. DOMAIN rs = Threads /\ rs \in [Threads -> Worker]
  BY <1>2, <1>4
<1>10. Midway(rs)
  <2>1. \A g \in Threads : /\ rs[g].block = BlockOf(g) /\ rs[g].saw = g
                           /\ rs[g].blocked => rs[g].active /\ ~rs[g].halted
                           /\ ~rs[g].active => rs[g].halted
    BY <1>4, <1>7 DEF Midway
  <2>2. \A g, h \in Threads : BlockOf(g) = BlockOf(h) => rs[g].passed = rs[h].passed
    BY <1>4 DEF Midway
  <2> QED BY <1>9, <2>1, <2>2 DEF Midway
<1>11. Unfilled(ws) => Unfilled(rs)
  BY <1>1, <1>4, <1>9 DEF Unfilled
<1> QED BY <1>4, <1>8, <1>10, <1>11
-----------------------------------------------------------------------------
LEMMA SameGeometry ==
    ASSUME UNCHANGED <<launch, tpw>>
    PROVE  /\ Threads' = Threads /\ Geometry' = Geometry
           /\ \A g : BlockOf(g)' = BlockOf(g)
<1>1. Grid' = Grid /\ Block' = Block
  BY DEF Grid, Block
<1>2. TotalBlocks' = TotalBlocks /\ ThreadsPerBlock' = ThreadsPerBlock
  BY <1>1 DEF TotalBlocks, ThreadsPerBlock, AtLeast1
<1>3. Threads' = Threads /\ \A g : BlockOf(g)' = BlockOf(g)
  BY <1>2 DEF Threads, BlockOf
<1>4. WarpSize' = WarpSize
  BY <1>2 DEF WarpSize
<1>5. WarpsPerBlock' = WarpsPerBlock
  BY <1>2, <1>4 DEF WarpsPerBlock
<1>6. TotalWarps' = TotalWarps /\ \A i : WarpThreads(i)' = WarpThreads(i)
  BY <1>2, <1>4, <1>5 DEF TotalWarps, WarpThreads
<1>7. ActiveUnits' = ActiveUnits
  BY <1>3 DEF ActiveUnits, AtLeast1
<1> QED BY <1>2, <1>3, <1>4, <1>6, <1>7 DEF Geometry

LEMMA RunFacts ==
    ASSUME CallInv, phase = "run"
    PROVE  /\ launch \in Launches /\ tpw \in WarpSizes /\ geo = Geometry
           /\ DOMAIN workers = Threads /\ Midway(workers) /\ Unfilled(workers) /\ Crew
           /\ TotalWorkers = Cardinality(Threads) /\ geo.active_units \in Nat \ {0}
           /\ Scanned \in Threads /\ result = "none"
           /\ DOMAIN geo.warp_groups = 0 .. TotalWarps - 1
           /\ \A i \in DOMAIN geo.warp_groups : geo.warp_groups[i] = WarpThreads(i)
           /\ \A g \in Threads : workers[g] \in Worker
<1>1. /\ launch \in Launches /\ tpw \in WarpSizes /\ geo = Geometry
      /\ DOMAIN workers = Threads /\ Unfilled(workers) /\ Crew
      /\ cursor \in 0 .. Cardinality(Threads) - 1 /\ result = "none"
  BY DEF CallInv, Running
<1>2. Midway(workers)
  <2>1. workers \in [Threads -> Worker]
    BY <1>1 DEF CallInv, TypeOK
  <2>2. \A g \in Threads : workers[g].active \in BOOLEAN /\ workers[g].halted \in BOOLEAN
    BY <2>1 DEF Worker
  <2>3. \A g \in Threads : /\ workers[g].block = BlockOf(g) /\ workers[g].saw = g
                           /\ workers[g].blocked => workers[g].active /\ ~workers[g].halted
                           /\ ~workers[g].active => workers[g].halted
    BY <1>1, <2>2 DEF CallInv, Crew, RunsWithOwnContext
  <2>4. \A g, h \in Threads : BlockOf(g) = BlockOf(h) => workers[g].passed = workers[h].passed
    BY <1>1, <2>3 DEF CallInv, BlockBarrier
  <2> QED BY <2>1, <2>3, <2>4 DEF Midway
<1>3. TotalWorkers = Cardinality(Threads)
  BY <1>1 DEF TotalWorkers
<1>4. geo.active_units \in Nat \ {0}
  BY <1>1, ThreadCount DEF Geometry
<1>5. Scanned \in Threads
  <2>1. PICK n, x : n = Cardinality(Threads) /\ x = cursor + pass.scanned
    OBVIOUS
  <2>2. n \in Nat \ {0} /\ Threads = 0 .. n - 1
    BY <1>1, <2>1, ThreadCount
  <2>3. x \in Nat
    <3>1. cursor \in Nat /\ pass.scanned \in Nat
      BY DEF CallInv, TypeOK
    <3> QED BY <2>1, <3>1
  <2>4. x % n \in 0 .. n - 1
    BY <2>2, <2>3, DivMod
  <2> QED BY <1>3, <2>1, <2>2, <2>4 DEF Scanned
<1>6. /\ DOMAIN geo.warp_groups = 0 .. TotalWarps - 1
      /\ \A i \in DOMAIN geo.warp_groups : geo.warp_groups[i] = WarpThreads(i)
  BY <1>1 DEF Geometry
<1>7. \A g \in Threads : workers[g] \in Worker
  BY <1>2 DEF Midway
<1> QED BY <1>1, <1>2, <1>3, <1>4, <1>5, <1>6, <1>7

\* What a turn of either loop keeps, its pass aside.
LEMMA TurnInv ==
    ASSUME CallInv, phase = "run",
           UNCHANGED <<launch, tpw, geo, phase, result, cursor, buffers>>,
           NEW rs, Midway(rs), Unfilled(rs), rs = workers',
           \A o \in Threads : rs[o].active = ~rs[o].halted,
           pass' \in [scanned: Nat, selected: Nat, any_active: BOOLEAN, made_progress: BOOLEAN],
           mem' \in [DOMAIN mem -> {Clean, Dirty}], cuda_ctx' \in {NoThread} \cup Threads,
           PassInv'
    PROVE  CallInv'
<1>1. Threads' = Threads /\ Geometry' = Geometry /\ \A g : BlockOf(g)' = BlockOf(g)
  BY SameGeometry
<1>2. DOMAIN workers' = Threads /\ workers' \in [Threads -> Worker]
  BY DEF Midway
<1>3. TypeOK'
  BY <1>2 DEF CallInv, TypeOK
<1>4. Crew'
  BY <1>1, <1>2 DEF Crew, Midway
<1>5. BlockBarrier' /\ RunsWithOwnContext'
  BY <1>2 DEF BlockBarrier, RunsWithOwnContext, Midway
<1>6. Unfilled(workers)'
  BY DEF Unfilled
<1>7. Running'
  <2>1. /\ geo = Geometry /\ DOMAIN mem = launch.device_ptrs
        /\ launch.device_ptrs \subseteq KnownPtrs
        /\ cursor \in 0 .. Cardinality(Threads) - 1
    BY DEF CallInv, Running
  <2>2. Cardinality(Threads)' = Cardinality(Threads)
    BY <1>1
  <2> QED BY <1>1, <1>2, <2>1, <2>2 DEF Running
<1>8. result' = "none" /\ phase' = "run"
  BY RunFacts
<1>9. DeadlockIsReal' /\ ResultsAllOrNothing'
  BY <1>8, RunFacts DEF CallInv, DeadlockIsReal, ResultsAllOrNothing
<1>10. launch' \in Launches /\ tpw' \in WarpSizes
  BY DEF CallInv
<1> QED BY <1>3, <1>4, <1>5, <1>6, <1>7, <1>8, <1>9, <1>10 DEF CallInv

LEMMA RefuseInv ==
    ASSUME CallInv, Refuse PROVE CallInv'
<1>1. /\ phase = "call" /\ phase' = "returned" /\ result' = Refusal
      /\ UNCHANGED <<launch, tpw, geo, workers, cursor, pass, mem, buffers, cuda_ctx>>
  BY DEF Refuse, Return
<1>2. Refusal \in {"elf", "buffer", "args", "wide_arg", "shared"}
  BY DEF Refuse, Refusal
<1>3. \A g : BlockOf(g)' = BlockOf(g)
  BY <1>1, SameGeometry
<1>4. result = "none"
  BY <1>1 DEF CallInv
<1>5. TypeOK' /\ Crew' /\ BlockBarrier' /\ Unfilled(workers)' /\ RunsWithOwnContext'
  BY <1>1, <1>2, <1>3 DEF CallInv, TypeOK, Crew, BlockBarrier, Unfilled, RunsWithOwnContext
<1>6. DeadlockIsReal' /\ ResultsAllOrNothing'
  BY <1>1, <1>2, <1>4 DEF CallInv, DeadlockIsReal, ResultsAllOrNothing
<1> QED BY <1>1, <1>5, <1>6 DEF CallInv

LEMMA PrepareInv ==
    ASSUME CallInv, Prepare PROVE CallInv'
<1>1. /\ phase = "call" /\ phase' = "run" /\ Refusal = "none"
      /\ mem' = [p \in launch.device_ptrs |-> buffers[p]] /\ geo' = Geometry
      /\ workers' = [g \in Threads |-> MakeWorker(g)]
      /\ UNCHANGED <<launch, tpw, result, cursor, pass, buffers, cuda_ctx>>
  BY DEF Prepare
<1>2. /\ launch \in Launches /\ tpw \in WarpSizes /\ DOMAIN workers = {} /\ result = "none"
      /\ cursor = 0 /\ pass = NoPass /\ cuda_ctx = NoThread
  BY <1>1 DEF CallInv
<1>3. Threads' = Threads /\ Geometry' = Geometry /\ \A g : BlockOf(g)' = BlockOf(g)
  BY <1>1, SameGeometry
<1>4. \A g \in Threads : BlockOf(g) \in Nat /\ g \in Int
  <2>1. \A g \in Threads : BlockOf(g) \in Nat
    BY <1>2, ThreadsOfBlock
  <2> QED BY <2>1 DEF Threads
<1>5. (CHOOSE b \in BarrierIds : TRUE) \in BarrierIds
  BY KernelBridgeAssumption
<1>6. \A g \in Threads :
          /\ workers'[g] \in Worker /\ workers'[g].block = BlockOf(g) /\ workers'[g].saw = g
          /\ workers'[g].active = ~workers'[g].halted /\ ~workers'[g].blocked
          /\ workers'[g].passed = 0
  <2> SUFFICES ASSUME NEW g \in Threads
               PROVE  /\ MakeWorker(g) \in Worker /\ MakeWorker(g).block = BlockOf(g)
                      /\ MakeWorker(g).saw = g /\ MakeWorker(g).active = ~MakeWorker(g).halted
                      /\ ~MakeWorker(g).blocked /\ MakeWorker(g).passed = 0
    BY <1>1
  <2>1. MAX_SIM_CYCLES \in Nat
    BY KernelBridgeAssumption
  <2>2. PICK b, w : b = (CHOOSE x \in BarrierIds : TRUE) /\ w = MakeWorker(g)
    OBVIOUS
  <2>3. w = [block |-> BlockOf(g), active |-> TRUE, halted |-> FALSE, blocked |-> FALSE,
             barrier |-> b, cycles |-> 0, passed |-> 0, timed_out |-> FALSE, saw |-> g]
    BY <2>2 DEF MakeWorker
  <2>4. w \in Worker
    BY <1>4, <1>5, <2>1, <2>2, <2>3 DEF Worker
  <2>5. /\ w.block = BlockOf(g) /\ w.saw = g /\ w.active = ~w.halted /\ ~w.blocked
        /\ w.passed = 0
    BY <2>3
  <2> QED BY <2>2, <2>4, <2>5
<1>7. DOMAIN workers' = Threads
  BY <1>1
<1>8. launch.device_ptrs \subseteq KnownPtrs
  BY <1>1 DEF Refusal
<1>9. mem' \in [launch.device_ptrs -> {Clean, Dirty}]
  BY <1>1, <1>8 DEF CallInv, TypeOK
<1>10. TypeOK'
  <2>1. workers' \in [Threads -> Worker]
    BY <1>1, <1>6
  <2> QED BY <1>1, <1>2, <1>7, <1>9, <2>1 DEF CallInv, TypeOK
<1>11. Crew' /\ BlockBarrier' /\ Unfilled(workers)' /\ RunsWithOwnContext'
  BY <1>3, <1>6, <1>7 DEF Crew, BlockBarrier, Unfilled, RunsWithOwnContext
<1>12. Running'
  <2>1. cursor' \in 0 .. Cardinality(Threads') - 1
    BY <1>1, <1>2, <1>3, ThreadCount
  <2>2. PassInv'
    <3>1. pass'.scanned = 0 /\ pass'.selected = 0 /\ ~pass'.any_active
      BY <1>1, <1>2 DEF NoPass
    <3>2. DOMAIN geo'.warp_groups = 0 .. TotalWarps - 1
      BY <1>1 DEF Geometry
    <3>3. \A i \in DOMAIN geo'.warp_groups : ~(i < pass'.scanned)
      BY <3>1, <3>2
    <3>4. 0 .. pass'.scanned - 1 = {}
      BY <3>1
    <3> QED BY <3>1, <3>3, <3>4 DEF PassInv
  <2> QED BY <1>1, <1>3, <1>7, <1>8, <1>9, <2>1, <2>2 DEF Running
<1>13. DeadlockIsReal' /\ ResultsAllOrNothing'
  BY <1>1, <1>2 DEF CallInv, DeadlockIsReal, ResultsAllOrNothing
<1> QED BY <1>1, <1>2, <1>10, <1>11, <1>12, <1>13 DEF CallInv

LEMMA ScalarSkipInv ==
    ASSUME CallInv, ScalarSkip PROVE CallInv'
<1>1. /\ phase = "run" /\ geo.warp_size = 1 /\ Stuck(Scanned) /\ pass' = Skip
      /\ UNCHANGED <<launch, tpw, geo, phase, result, workers, cursor, mem, buffers, cuda_ctx>>
  BY DEF ScalarSkip, InScalarLoop, Stuck
<1>2. /\ pass \in [scanned: Nat, selected: Nat, any_active: BOOLEAN, made_progress: BOOLEAN]
      /\ mem \in [DOMAIN mem -> {Clean, Dirty}] /\ PassInv
      /\ cuda_ctx \in {NoThread} \cup DOMAIN workers
  BY <1>1 DEF CallInv, TypeOK, Running
<1>3. workers[Scanned].active \in BOOLEAN
  BY <1>1, RunFacts DEF Worker
<1>4. pass' = [pass EXCEPT !.scanned = pass.scanned + 1,
                           !.any_active = (pass.any_active \/ workers[Scanned].active)]
  BY <1>1 DEF Skip
<1>5. /\ pass' \in [scanned: Nat, selected: Nat, any_active: BOOLEAN, made_progress: BOOLEAN]
      /\ pass'.scanned = pass.scanned + 1 /\ pass'.selected = pass.selected
      /\ pass'.made_progress = pass.made_progress
      /\ pass'.any_active = (pass.any_active \/ workers[Scanned].active)
  <2>1. PICK n, b : n = pass.scanned + 1 /\ b = (pass.any_active \/ workers[Scanned].active)
    OBVIOUS
  <2>2. n \in Nat /\ b \in BOOLEAN
    BY <1>2, <1>3, <2>1
  <2>3. pass' = [pass EXCEPT !.scanned = n, !.any_active = b]
    BY <1>4, <2>1
  <2>4. /\ pass' \in [scanned: Nat, selected: Nat, any_active: BOOLEAN, made_progress: BOOLEAN]
        /\ pass'.scanned = n /\ pass'.any_active = b
        /\ pass'.selected = pass.selected /\ pass'.made_progress = pass.made_progress
    BY <1>2, <2>2, <2>3
  <2> QED BY <2>1, <2>4
<1>6. PassInv'
  <2> SUFFICES ASSUME ~pass'.made_progress
               PROVE  /\ pass'.selected = 0
                      /\ pass'.any_active => \E g \in DOMAIN workers : workers[g].active
                      /\ \A i \in 0 .. pass'.scanned - 1 : Stuck((cursor + i) % Cardinality(Threads))
    <3>1. Threads' = Threads
      BY <1>1, SameGeometry
    <3>2. geo'.warp_size = 1 /\ \A g : Stuck(g)' <=> Stuck(g)
      BY <1>1 DEF Stuck
    <3> QED BY <1>1, <3>1, <3>2 DEF PassInv
  <2>1. /\ pass.selected = 0
        /\ pass.any_active => \E g \in DOMAIN workers : workers[g].active
        /\ \A i \in 0 .. pass.scanned - 1 : Stuck((cursor + i) % Cardinality(Threads))
    BY <1>1, <1>2, <1>5 DEF PassInv
  <2>2. Scanned = (cursor + pass.scanned) % Cardinality(Threads) /\ Scanned \in DOMAIN workers
    BY <1>1, RunFacts DEF Scanned
  <2>3. \A i \in 0 .. pass'.scanned - 1 : i \in 0 .. pass.scanned - 1 \/ i = pass.scanned
    BY <1>2, <1>5
  <2> QED BY <1>1, <1>5, <2>1, <2>2, <2>3
<1>7. /\ Midway(workers) /\ Unfilled(workers) /\ DOMAIN workers = Threads
      /\ \A o \in Threads : workers[o].active = ~workers[o].halted
  BY <1>1, RunFacts DEF Crew
<1> QED BY <1>1, <1>2, <1>5, <1>6, <1>7, TurnInv

\* A turn of the threads G of one block, from the instructions to the end.
LEMMA TurnWorkers ==
    ASSUME CallInv, phase = "run",
           NEW G \in SUBSET Threads, \A g, h \in G : BlockOf(g) = BlockOf(h),
           NEW ws, Midway(ws), \A o \in Threads \ G : ws[o] = workers[o],
           NEW rs,
           \/ rs = ws /\ \A g \in G : ws[g].blocked => ~BarrierFull(ws, g)
           \/ \E g \in G : ws[g].blocked /\ BarrierFull(ws, g) /\ rs = ReleaseBarrier(ws, g)
    PROVE  /\ Midway(Retire(rs, G)) /\ Unfilled(Retire(rs, G))
           /\ \A o \in Threads : Retire(rs, G)[o].active = ~Retire(rs, G)[o].halted
<1>1. /\ Midway(rs) /\ Unfilled(rs)
      /\ \A o \in Threads : rs[o].active = ws[o].active /\ rs[o].halted = ws[o].halted
  <2>1. CASE rs = ws /\ \A g \in G : ws[g].blocked => ~BarrierFull(ws, g)
    BY <2>1, RunFacts, TurnUnfilled
  <2>2. CASE \E g \in G : ws[g].blocked /\ BarrierFull(ws, g) /\ rs = ReleaseBarrier(ws, g)
    <3>1. PICK g \in G : ws[g].blocked /\ BarrierFull(ws, g) /\ rs = ReleaseBarrier(ws, g)
      BY <2>2
    <3>2. Unfilled(rs)
      BY <3>1, RunFacts, TurnReleased
    <3>3. launch \in Launches /\ tpw \in WarpSizes /\ geo = Geometry /\ g \in Threads
      BY RunFacts
    <3>4. /\ Midway(rs)
          /\ \A o \in Threads : rs[o].active = ws[o].active /\ rs[o].halted = ws[o].halted
      BY <3>1, <3>3, ReleaseFacts
    <3> QED BY <3>2, <3>4
  <2> QED BY <2>1, <2>2
<1>2. \A o \in Threads \ G : rs[o].active = ~rs[o].halted
  BY <1>1, RunFacts DEF Crew
<1> QED BY <1>1, <1>2, RetireFacts

LEMMA ScalarStepInv ==
    ASSUME CallInv, ScalarStep PROVE CallInv'
<1>1. PICK g : g = Scanned
  OBVIOUS
<1>2. /\ phase = "run" /\ workers[g].active /\ ~workers[g].blocked
      /\ pass' = [scanned |-> pass.scanned + 1, selected |-> pass.selected + 1,
                  any_active |-> TRUE, made_progress |-> TRUE]
      /\ cuda_ctx' = g
      /\ UNCHANGED <<launch, tpw, geo, phase, result, cursor, buffers>>
  BY <1>1 DEF ScalarStep, InScalarLoop, InstallCtx
<1>3. PICK instr, w, stepped :
          /\ instr \in Instruction
          /\ w = [Step(workers[g], instr) EXCEPT !.saw = g]
          /\ stepped = [workers EXCEPT ![g] = w]
          /\ workers' = Retire(ReleaseBarrier(stepped, g), {g})
          /\ mem' = Stored(mem, workers[g], instr)
  BY <1>1, <1>2 DEF ScalarStep
<1>4. /\ g \in Threads /\ DOMAIN workers = Threads /\ Midway(workers) /\ workers[g] \in Worker
      /\ ~workers[g].halted
  BY <1>1, <1>2, RunFacts DEF Crew
<1>5. g \in Int
  BY <1>4 DEF Threads
<1>6. /\ w \in Worker /\ w.saw = g /\ w.block = workers[g].block /\ w.active = workers[g].active
      /\ w.passed = workers[g].passed /\ ~(w.blocked /\ w.halted)
  <2>1. w = Stepped(workers[g], instr, g) /\ instr \in Instruction
    BY <1>3 DEF Stepped
  <2> QED BY <1>2, <1>4, <1>5, <2>1, StepFacts
<1>7. /\ stepped \in [Threads -> Worker] /\ stepped[g] = w
      /\ \A o \in Threads \ {g} : stepped[o] = workers[o]
  BY <1>3, <1>4, <1>6 DEF Midway
<1>8. Midway(stepped)
  <2>1. \A o \in Threads :
          /\ stepped[o].block = BlockOf(o) /\ stepped[o].saw = o
          /\ stepped[o].blocked => stepped[o].active /\ ~stepped[o].halted
          /\ ~stepped[o].active => stepped[o].halted
    <3> SUFFICES ASSUME NEW o \in Threads
                 PROVE  /\ stepped[o].block = BlockOf(o) /\ stepped[o].saw = o
                        /\ stepped[o].blocked => stepped[o].active /\ ~stepped[o].halted
                        /\ ~stepped[o].active => stepped[o].halted
      OBVIOUS
    <3>1. CASE o = g
      BY <1>2, <1>4, <1>6, <1>7, <3>1 DEF Midway
    <3>2. CASE o # g
      BY <1>4, <1>7, <3>2 DEF Midway
    <3> QED BY <3>1, <3>2
  <2>2. \A o \in Threads : stepped[o].passed = workers[o].passed
    BY <1>6, <1>7
  <2>3. \A o, h \in Threads : BlockOf(o) = BlockOf(h) => stepped[o].passed = stepped[h].passed
    BY <1>4, <2>2 DEF Midway
  <2> QED BY <1>7, <2>1, <2>3 DEF Midway
<1>9. PICK rs : rs = ReleaseBarrier(stepped, g)
  OBVIOUS
<1>10. \/ rs = stepped /\ (stepped[g].blocked => ~BarrierFull(stepped, g))
       \/ stepped[g].blocked /\ BarrierFull(stepped, g) /\ rs = ReleaseBarrier(stepped, g)
  BY <1>9 DEF ReleaseBarrier
<1>11. /\ Midway(workers') /\ Unfilled(workers')
       /\ \A o \in Threads : workers'[o].active = ~workers'[o].halted
  <2>1. PICK G : G = {g}
    OBVIOUS
  <2>2. /\ G \in SUBSET Threads /\ \A x, y \in G : BlockOf(x) = BlockOf(y)
        /\ \A o \in Threads \ G : stepped[o] = workers[o]
        /\ \/ rs = stepped /\ \A x \in G : stepped[x].blocked => ~BarrierFull(stepped, x)
           \/ \E x \in G : stepped[x].blocked /\ BarrierFull(stepped, x) /\ rs = ReleaseBarrier(stepped, x)
    BY <1>4, <1>7, <1>10, <2>1
  <2>3. workers' = Retire(rs, G) /\ phase = "run"
    BY <1>2, <1>3, <1>9, <2>1
  <2>4. /\ Midway(Retire(rs, G)) /\ Unfilled(Retire(rs, G))
        /\ \A o \in Threads : Retire(rs, G)[o].active = ~Retire(rs, G)[o].halted
    BY <1>8, <2>2, <2>3, TurnWorkers
  <2> QED BY <2>3, <2>4
<1>12. pass' \in [scanned: Nat, selected: Nat, any_active: BOOLEAN, made_progress: BOOLEAN]
  <2>1. pass.scanned + 1 \in Nat /\ pass.selected + 1 \in Nat
    BY DEF CallInv, TypeOK
  <2> QED BY <1>2, <2>1
<1>13. mem' \in [DOMAIN mem -> {Clean, Dirty}]
  BY <1>3 DEF Stored, CallInv, TypeOK
<1>14. PassInv'
  BY <1>2 DEF PassInv
<1> QED BY <1>2, <1>4, <1>11, <1>12, <1>13, <1>14, TurnInv

LEMMA WarpTurnInv ==
    ASSUME CallInv, WarpTurn PROVE CallInv'
<1> DEFINE i == pass.scanned
           G == geo.warp_groups[pass.scanned]
           running == {g \in G : Runnable(g)}
           full(ws) == {g \in G : ws[g].active /\ ws[g].blocked /\ BarrierFull(ws, g)}
<1>1. /\ phase = "run" /\ geo.warp_size > 1 /\ i \in DOMAIN geo.warp_groups
      /\ UNCHANGED <<launch, tpw, geo, phase, result, cursor, buffers>>
  BY DEF WarpTurn, InWarpLoop
<1> DEFINE Turn(instr, ws, rs) ==
          /\ ws = [g \in DOMAIN workers |->
                      IF g \in running
                        THEN [Step(workers[g], instr[g]) EXCEPT !.saw = g] ELSE workers[g]]
          /\ rs = IF full(ws) = {} THEN ws
                  ELSE ReleaseBarrier(ws, CHOOSE g \in full(ws) : TRUE)
          /\ workers' = Retire(rs, G)
          /\ mem' = [p \in DOMAIN mem |->
                       IF \E g \in running : Stored(mem, workers[g], instr[g])[p] = Dirty
                         THEN Dirty ELSE mem[p]]
          /\ cuda_ctx' = IF running = {} THEN cuda_ctx ELSE Max(running)
          /\ pass' = [pass EXCEPT !.scanned = @ + 1,
                        !.any_active = @ \/ \E g \in G : workers[g].active,
                        !.made_progress = @ \/ running # {} \/ full(ws) # {}]
           Released(ws) == IF full(ws) = {} THEN ws
                           ELSE ReleaseBarrier(ws, CHOOSE g \in full(ws) : TRUE)
<1>a. PICK instr \in [running -> Instruction] : \E ws : Turn(instr, ws, Released(ws))
  BY Zenon DEF WarpTurn, InstallCtx
<1>2. PICK ws, rs : Turn(instr, ws, rs)
  <2> HIDE DEF Turn, Released
  <2> QED BY <1>a
<1>3. /\ G \in SUBSET Threads /\ \A g, h \in G : BlockOf(g) = BlockOf(h)
  <2>1. launch \in Launches /\ tpw \in WarpSizes /\ i \in 0 .. TotalWarps - 1 /\ G = WarpThreads(i)
    BY <1>1, RunFacts
  <2> HIDE DEF i, G
  <2> QED BY <2>1, WarpsInBlocks
<1>4. /\ DOMAIN workers = Threads /\ Midway(workers) /\ \A g \in Threads : workers[g] \in Worker
  BY <1>1, RunFacts
<1>5. \A g \in running : /\ g \in Threads /\ g \in G /\ workers[g].active
                         /\ ~workers[g].halted /\ ~workers[g].blocked
  BY <1>3 DEF Runnable
<1>6. /\ DOMAIN ws = Threads
      /\ \A g \in running : ws[g] = [Step(workers[g], instr[g]) EXCEPT !.saw = g]
      /\ \A g \in Threads : g \notin running => ws[g] = workers[g]
  BY <1>2, <1>4, <1>5
<1>7. \A g \in running :
          /\ ws[g] \in Worker /\ ws[g].saw = g /\ ws[g].block = workers[g].block
          /\ ws[g].active = workers[g].active /\ ws[g].passed = workers[g].passed
          /\ ~(ws[g].blocked /\ ws[g].halted)
  <2> SUFFICES ASSUME NEW g \in running
               PROVE  /\ ws[g] \in Worker /\ ws[g].saw = g /\ ws[g].block = workers[g].block
                      /\ ws[g].active = workers[g].active /\ ws[g].passed = workers[g].passed
                      /\ ~(ws[g].blocked /\ ws[g].halted)
    OBVIOUS
  <2>1. g \in Int /\ instr[g] \in Instruction /\ workers[g] \in Worker
    <3>1. instr \in [running -> Instruction] /\ g \in Threads
      BY <1>2, <1>5
    <3> QED BY <1>4, <3>1 DEF Threads
  <2>2. ws[g] = Stepped(workers[g], instr[g], g) /\ ~workers[g].halted /\ ~workers[g].blocked
    BY <1>5, <1>6 DEF Stepped
  <2> HIDE DEF running
  <2> QED BY <2>1, <2>2, StepFacts
<1> HIDE DEF running, G
<1>8. ws \in [Threads -> Worker]
  <2>1. \A g \in Threads : ws[g] \in Worker
    BY <1>4, <1>6, <1>7
  <2> QED BY <1>2, <1>4, <2>1
<1>9. Midway(ws)
  <2>1. \A g \in Threads :
          /\ ws[g].block = BlockOf(g) /\ ws[g].saw = g
          /\ ws[g].blocked => ws[g].active /\ ~ws[g].halted
          /\ ~ws[g].active => ws[g].halted
    BY <1>4, <1>5, <1>6, <1>7 DEF Midway
  <2>2. \A g \in Threads : ws[g].passed = workers[g].passed
    BY <1>6, <1>7
  <2>3. \A g, h \in Threads : BlockOf(g) = BlockOf(h) => ws[g].passed = ws[h].passed
    BY <1>4, <2>2 DEF Midway
  <2> QED BY <1>8, <2>1, <2>3 DEF Midway
<1>10. \A g \in G : ws[g].blocked /\ BarrierFull(ws, g) <=> g \in full(ws)
  BY <1>3, <1>9 DEF Midway
<1>11. \/ rs = ws /\ \A g \in G : ws[g].blocked => ~BarrierFull(ws, g)
       \/ \E g \in G : ws[g].blocked /\ BarrierFull(ws, g) /\ rs = ReleaseBarrier(ws, g)
  <2>1. CASE full(ws) = {}
    BY <1>2, <1>10, <2>1
  <2>2. CASE full(ws) # {}
    <3>1. PICK g \in full(ws) : g = CHOOSE x \in full(ws) : TRUE
      BY <2>2
    <3> QED BY <1>2, <1>10, <2>2, <3>1
  <2> QED BY <2>1, <2>2
<1>12. \A o \in Threads \ G : ws[o] = workers[o]
  BY <1>5, <1>6
<1>13. /\ Midway(workers') /\ Unfilled(workers')
       /\ \A o \in Threads : workers'[o].active = ~workers'[o].halted
  <2>1. /\ Midway(Retire(rs, G)) /\ Unfilled(Retire(rs, G))
        /\ \A o \in Threads : Retire(rs, G)[o].active = ~Retire(rs, G)[o].halted
    BY <1>1, <1>3, <1>9, <1>11, <1>12, TurnWorkers
  <2> QED BY <1>2, <2>1
<1>14. mem' \in [DOMAIN mem -> {Clean, Dirty}]
  <2>1. \A p \in DOMAIN mem : mem[p] \in {Clean, Dirty}
    BY DEF CallInv, TypeOK
  <2> QED BY <1>2, <2>1
<1>15. cuda_ctx' \in {NoThread} \cup Threads
  <2>1. cuda_ctx \in {NoThread} \cup Threads
    BY <1>4 DEF CallInv, TypeOK
  <2>2. running # {} => Max(running) \in running
    <3>1. PICK n : n = Cardinality(Threads)
      OBVIOUS
    <3>2. n \in Nat /\ Threads = 0 .. n - 1
      BY <1>1, <3>1, RunFacts, ThreadCount
    <3>3. running \in SUBSET (0 .. n)
      BY <1>5, <3>2
    <3> QED BY <3>2, <3>3, MaxOfThreads
  <2> QED BY <1>2, <1>5, <2>1, <2>2
<1>16. PICK n, a, m :
          /\ n = pass.scanned + 1
          /\ a = (pass.any_active \/ \E g \in G : workers[g].active)
          /\ m = (pass.made_progress \/ running # {} \/ full(ws) # {})
  OBVIOUS
<1>17. /\ pass' \in [scanned: Nat, selected: Nat, any_active: BOOLEAN, made_progress: BOOLEAN]
       /\ pass'.scanned = n /\ pass'.selected = pass.selected
       /\ pass'.any_active = a /\ pass'.made_progress = m
  <2>1. pass \in [scanned: Nat, selected: Nat, any_active: BOOLEAN, made_progress: BOOLEAN]
    BY DEF CallInv, TypeOK
  <2>2. n \in Nat /\ a \in BOOLEAN /\ m \in BOOLEAN
    BY <1>16, <2>1
  <2>3. pass' = [pass EXCEPT !.scanned = n, !.any_active = a, !.made_progress = m]
    BY <1>2, <1>16
  <2> QED BY <2>1, <2>2, <2>3
<1>18. PassInv'
  <2> SUFFICES ASSUME ~m PROVE PassInv'
    BY <1>17 DEF PassInv
  <2>1. ~pass.made_progress /\ running = {} /\ full(ws) = {}
    BY <1>16
  <2>2. rs = ws /\ \A g \in Threads : ws[g] = workers[g]
    BY <1>2, <1>6, <2>1
  <2>3. \A g \in Threads : workers'[g].active = workers[g].active /\ workers'[g].blocked = workers[g].blocked
    <3>1. /\ \A o \in Threads \ G : rs[o].active = ~rs[o].halted
          /\ \A o \in Threads : workers[o].active = ~workers[o].halted
      BY <1>1, <2>2, RunFacts DEF Crew
    <3>2. \A o \in Threads : /\ workers'[o].active = ~workers'[o].halted
                             /\ workers'[o].halted = rs[o].halted
                             /\ workers'[o].blocked = rs[o].blocked
      <4>1. workers' = Retire(rs, G) /\ Midway(rs)
        BY <1>2, <1>9, <2>2
      <4>2. PICK us : us = workers'
        OBVIOUS
      <4>3. \A o \in Threads : /\ us[o].active = ~us[o].halted /\ us[o].halted = rs[o].halted
                               /\ us[o].blocked = rs[o].blocked
        BY <1>3, <3>1, <4>1, <4>2, RetireFacts
      <4> QED BY <4>2, <4>3
    <3> QED BY <2>2, <3>1, <3>2
  <2>4. \A g \in Threads : Stuck(g)' <=> Stuck(g)
    BY <2>3 DEF Stuck
  <2>5. \A g \in G : Stuck(g) /\ g \in Threads
    <3>1. \A g \in G : g \in Threads /\ ~Runnable(g)
      BY <1>3, <2>1 DEF running
    <3> QED BY <1>1, <3>1, RunFacts DEF Runnable, Stuck, Crew
  <2>6. /\ pass.selected = 0
        /\ pass.any_active => \E g \in DOMAIN workers : workers[g].active
        /\ \A j \in DOMAIN geo.warp_groups :
              j < pass.scanned => \A g \in geo.warp_groups[j] : Stuck(g)
    BY <1>1, <2>1 DEF CallInv, Running, PassInv
  <2>7. \A j \in DOMAIN geo.warp_groups : geo.warp_groups[j] \subseteq Threads
    BY <1>1, RunFacts, WarpsInBlocks
  <2>8. a => \E g \in Threads : workers[g].active
    BY <1>3, <1>4, <1>16, <2>6
  <2>9. a => \E g \in DOMAIN workers' : workers'[g].active
    BY <1>13, <2>3, <2>8 DEF Midway
  <2>10. \A j \in DOMAIN geo.warp_groups : j < n => j < pass.scanned \/ j = pass.scanned
    <3>1. pass.scanned \in Nat /\ \A j \in DOMAIN geo.warp_groups : j \in Int
      <4>1. pass.scanned \in Nat
        BY DEF CallInv, TypeOK
      <4>2. DOMAIN geo.warp_groups = 0 .. TotalWarps - 1
        BY <1>1, RunFacts
      <4> QED BY <4>1, <4>2
    <3> QED BY <1>16, <3>1
  <2>11. \A j \in DOMAIN geo.warp_groups : j < n => \A g \in geo.warp_groups[j] : Stuck(g)'
    BY <2>4, <2>5, <2>6, <2>7, <2>10 DEF G
  <2>12. geo' = geo /\ geo.warp_size # 1
    BY <1>1, RunFacts, Shape DEF Geometry
  <2> QED BY <1>17, <2>6, <2>9, <2>11, <2>12 DEF PassInv
<1> QED BY <1>1, <1>13, <1>14, <1>15, <1>17, <1>18, TurnInv

\* A pass without progress has seen every thread.
LEMMA ScalarAllStuck ==
    ASSUME CallInv, InScalarLoop, ~PassOpen, ~pass.made_progress
    PROVE  \A g \in Threads : Stuck(g)
<1>1. phase = "run" /\ geo.warp_size = 1
  BY DEF InScalarLoop
<1>2. /\ pass.selected = 0
      /\ \A i \in 0 .. pass.scanned - 1 : Stuck((cursor + i) % Cardinality(Threads))
      /\ cursor \in 0 .. Cardinality(Threads) - 1
  BY <1>1 DEF CallInv, Running, PassInv
<1>3. PICK n : n = Cardinality(Threads)
  OBVIOUS
<1>4. n \in Nat \ {0} /\ Threads = 0 .. n - 1 /\ TotalWorkers = n /\ geo.active_units \in Nat \ {0}
  BY <1>1, <1>3, RunFacts, ThreadCount
<1>5. pass.scanned \in Nat /\ n <= pass.scanned
  <2>1. pass.scanned \in Nat
    BY DEF CallInv, TypeOK
  <2> QED BY <1>2, <1>4, <2>1 DEF PassOpen
<1>6. ASSUME NEW g \in Threads PROVE Stuck(g)
  <2>1. PICK i \in 0 .. n - 1 : (cursor + i) % n = g
    <3>1. n \in Nat \ {0} /\ cursor \in 0 .. n - 1 /\ g \in 0 .. n - 1
      BY <1>2, <1>3, <1>4
    <3> QED BY <3>1, RoundTrip
  <2>2. i \in 0 .. pass.scanned - 1
    BY <1>4, <1>5
  <2> QED BY <1>2, <1>3, <2>1, <2>2
<1> QED BY <1>6

LEMMA WarpAllStuck ==
    ASSUME CallInv, InWarpLoop, pass.scanned \notin DOMAIN geo.warp_groups, ~pass.made_progress
    PROVE  \A g \in Threads : Stuck(g)
<1>1. phase = "run" /\ geo.warp_size > 1
  BY DEF InWarpLoop
<1>2. \A i \in DOMAIN geo.warp_groups :
          i < pass.scanned => \A g \in geo.warp_groups[i] : Stuck(g)
  BY <1>1 DEF CallInv, Running, PassInv
<1>3. /\ launch \in Launches /\ tpw \in WarpSizes
      /\ DOMAIN geo.warp_groups = 0 .. TotalWarps - 1
      /\ \A i \in DOMAIN geo.warp_groups : geo.warp_groups[i] = WarpThreads(i)
  BY <1>1, RunFacts
<1>4. pass.scanned \in Nat
  BY DEF CallInv, TypeOK
<1>5. TotalWarps \in Nat
  BY <1>3, Shape, Product DEF TotalWarps
<1>6. ASSUME NEW g \in Threads PROVE Stuck(g)
  <2>1. PICK i \in 0 .. TotalWarps - 1 : g \in WarpThreads(i)
    BY <1>3, WarpsCover
  <2>2. i < pass.scanned
    BY <1>3, <1>4, <1>5
  <2> QED BY <1>2, <1>3, <2>1, <2>2
<1> QED BY <1>6

LEMMA ReturnInv ==
    ASSUME CallInv, phase = "run", phase' = "returned",
           UNCHANGED <<launch, tpw, geo, workers, cursor, pass, mem, cuda_ctx>>,
           result' \in {"ok", "deadlock"}, buffers' \in [KnownPtrs -> {Clean, Dirty}],
           DeadlockIsReal', ResultsAllOrNothing'
    PROVE  CallInv'
<1>1. \A g : BlockOf(g)' = BlockOf(g)
  BY SameGeometry
<1>2. TypeOK' /\ Crew' /\ BlockBarrier' /\ Unfilled(workers)' /\ RunsWithOwnContext'
  BY <1>1 DEF CallInv, TypeOK, Crew, BlockBarrier, Unfilled, RunsWithOwnContext
<1> QED BY <1>2 DEF CallInv

LEMMA EndOfPassInv ==
    ASSUME CallInv, phase = "run", NEW next \in 0 .. Cardinality(Threads) - 1, EndOfPass(next),
           ~pass.made_progress => \A g \in Threads : Stuck(g)
    PROVE  CallInv'
<1>1. CASE ~pass.any_active /\ Finish
  <2>1. /\ phase' = "returned" /\ result' = "ok"
        /\ buffers' = [p \in KnownPtrs |-> IF p \in launch.device_ptrs THEN mem[p] ELSE buffers[p]]
        /\ UNCHANGED <<launch, tpw, geo, workers, cursor, pass, mem, cuda_ctx>>
    BY <1>1 DEF Finish, Return
  <2>2. /\ DOMAIN mem = launch.device_ptrs /\ mem \in [DOMAIN mem -> {Clean, Dirty}]
        /\ buffers \in [KnownPtrs -> {Clean, Dirty}]
    BY DEF CallInv, Running, TypeOK
  <2>3. buffers' \in [KnownPtrs -> {Clean, Dirty}]
    BY <2>1, <2>2
  <2>4. DeadlockIsReal' /\ ResultsAllOrNothing'
    BY <2>1 DEF DeadlockIsReal, ResultsAllOrNothing
  <2> QED BY <2>1, <2>3, <2>4, ReturnInv
<1>2. CASE pass.any_active /\ ~pass.made_progress /\ FailDeadlock
  <2>1. /\ phase' = "returned" /\ result' = "deadlock"
        /\ UNCHANGED <<launch, tpw, geo, workers, cursor, pass, mem, buffers, cuda_ctx>>
    BY <1>2 DEF FailDeadlock, Return
  <2>2. buffers \in [KnownPtrs -> {Clean, Dirty}] /\ result = "none" /\ ResultsAllOrNothing
    BY RunFacts DEF CallInv, TypeOK
  <2>3. ResultsAllOrNothing'
    BY <2>1, <2>2 DEF ResultsAllOrNothing
  <2>4. \E g \in DOMAIN workers : workers[g].active
    BY <1>2 DEF CallInv, Running, PassInv
  <2>5. ASSUME NEW g \in DOMAIN workers, workers[g].active
        PROVE  /\ workers[g].blocked
               /\ \E h \in DOMAIN workers :
                     /\ workers[h].block = workers[g].block
                     /\ workers[h].halted \/ workers[h].barrier # workers[g].barrier
    <3>1. DOMAIN workers = Threads /\ Unfilled(workers) /\ Midway(workers)
      BY RunFacts
    <3>2. workers[g].blocked
      BY <1>2, <2>5, <3>1 DEF Stuck
    <3>3. PICK h \in Threads : /\ workers[h].block = workers[g].block
                               /\ ~workers[h].blocked \/ workers[h].barrier # workers[g].barrier
      BY <3>1, <3>2 DEF Unfilled
    <3>4. ~workers[h].blocked => workers[h].halted
      BY <1>2, <3>1 DEF Stuck, Midway
    <3> QED BY <3>1, <3>2, <3>3, <3>4
  <2>6. DeadlockIsReal'
    BY <2>1, <2>4, <2>5 DEF DeadlockIsReal
  <2> QED BY <2>1, <2>2, <2>3, <2>6, ReturnInv
<1>3. CASE /\ cursor' = next /\ pass' = NoPass
           /\ UNCHANGED <<launch, tpw, geo, phase, result, workers, mem, buffers, cuda_ctx>>
  <2>1. Threads' = Threads /\ Geometry' = Geometry /\ \A g : BlockOf(g)' = BlockOf(g)
    BY <1>3, SameGeometry
  <2>2. /\ pass' \in [scanned: Nat, selected: Nat, any_active: BOOLEAN, made_progress: BOOLEAN]
        /\ pass'.scanned = 0 /\ pass'.selected = 0 /\ ~pass'.any_active
    BY <1>3 DEF NoPass
  <2>3. next \in Nat
    BY RunFacts, ThreadCount
  <2>4. TypeOK'
    BY <1>3, <2>2, <2>3 DEF CallInv, TypeOK
  <2>5. Crew' /\ BlockBarrier' /\ Unfilled(workers)' /\ RunsWithOwnContext'
    BY <1>3, <2>1 DEF CallInv, Crew, BlockBarrier, Unfilled, RunsWithOwnContext
  <2>6. PassInv'
    <3>1. geo' = geo /\ DOMAIN geo.warp_groups = 0 .. TotalWarps - 1
      BY <1>3, RunFacts
    <3>2. \A i \in DOMAIN geo'.warp_groups : ~(i < pass'.scanned)
      BY <2>2, <3>1
    <3>3. 0 .. pass'.scanned - 1 = {}
      BY <2>2
    <3> QED BY <2>2, <3>2, <3>3 DEF PassInv
  <2>7. Running'
    <3>1. cursor' \in 0 .. Cardinality(Threads') - 1
      BY <1>3, <2>1
    <3>2. /\ geo' = Geometry' /\ DOMAIN workers' = Threads'
          /\ DOMAIN mem' = launch'.device_ptrs /\ launch'.device_ptrs \subseteq KnownPtrs
      BY <1>3, <2>1 DEF CallInv, Running
    <3> QED BY <2>6, <3>1, <3>2 DEF Running
  <2>8. DeadlockIsReal' /\ ResultsAllOrNothing' /\ result' = "none" /\ phase' = "run"
    BY <1>3, RunFacts DEF CallInv, DeadlockIsReal, ResultsAllOrNothing
  <2> QED BY <1>3, <2>4, <2>5, <2>7, <2>8 DEF CallInv
<1> QED BY <1>1, <1>2, <1>3 DEF EndOfPass

LEMMA ScalarPassEndInv ==
    ASSUME CallInv, ScalarPassEnd PROVE CallInv'
<1>1. PICK n, x : n = Cardinality(Threads) /\ x = cursor + geo.active_units
  OBVIOUS
<1>2. /\ InScalarLoop /\ ~PassOpen /\ phase = "run" /\ EndOfPass(x % TotalWorkers)
  BY <1>1 DEF ScalarPassEnd, InScalarLoop
<1>3. n \in Nat \ {0} /\ TotalWorkers = n /\ geo.active_units \in Nat
  BY <1>1, <1>2, RunFacts, ThreadCount
<1>4. x \in Nat
  <2>1. cursor \in Nat
    BY DEF CallInv, TypeOK
  <2> QED BY <1>1, <1>3, <2>1
<1>5. x % n \in 0 .. n - 1
  BY <1>3, <1>4, DivMod
<1>6. ~pass.made_progress => \A g \in Threads : Stuck(g)
  BY <1>2, ScalarAllStuck
<1>7. PICK next : next = x % n
  OBVIOUS
<1>8. next \in 0 .. Cardinality(Threads) - 1 /\ EndOfPass(next)
  BY <1>1, <1>2, <1>3, <1>5, <1>7
<1> QED BY <1>2, <1>6, <1>8, EndOfPassInv

LEMMA WarpPassEndInv ==
    ASSUME CallInv, WarpPassEnd PROVE CallInv'
<1>1. /\ InWarpLoop /\ phase = "run" /\ pass.scanned \notin DOMAIN geo.warp_groups
      /\ EndOfPass(0)
  BY DEF WarpPassEnd, InWarpLoop
<1>2. ~pass.made_progress => \A g \in Threads : Stuck(g)
  BY <1>1, WarpAllStuck
<1>3. Cardinality(Threads) \in Nat \ {0}
  BY <1>1, RunFacts, ThreadCount
<1>4. 0 \in 0 .. Cardinality(Threads) - 1
  BY <1>3
<1> QED BY <1>1, <1>2, <1>4, EndOfPassInv

LEMMA InitInv == Init => CallInv
<1> SUFFICES ASSUME Init PROVE CallInv
  OBVIOUS
<1>1. /\ launch \in Launches /\ tpw \in WarpSizes /\ phase = "call" /\ result = "none"
      /\ workers = << >> /\ cursor = 0 /\ pass = NoPass /\ mem = << >>
      /\ buffers = [p \in KnownPtrs |-> Clean] /\ cuda_ctx = NoThread
  BY DEF Init
<1>2. DOMAIN workers = {} /\ DOMAIN mem = {}
  BY <1>1
<1>3. TypeOK
  <2>1. workers \in [DOMAIN workers -> Worker] /\ mem \in [DOMAIN mem -> {Clean, Dirty}]
    BY <1>1, <1>2
  <2>2. pass \in [scanned: Nat, selected: Nat, any_active: BOOLEAN, made_progress: BOOLEAN]
    BY <1>1 DEF NoPass
  <2> QED BY <1>1, <2>1, <2>2 DEF TypeOK
<1>4. Crew /\ BlockBarrier /\ Unfilled(workers) /\ RunsWithOwnContext
  BY <1>2 DEF Crew, BlockBarrier, Unfilled, RunsWithOwnContext
<1>5. DeadlockIsReal /\ ResultsAllOrNothing
  BY <1>1 DEF DeadlockIsReal, ResultsAllOrNothing
<1> QED BY <1>1, <1>2, <1>3, <1>4, <1>5 DEF CallInv

LEMMA NextInv == CallInv /\ [Next]_vars => CallInv'
<1> SUFFICES ASSUME CallInv, [Next]_vars PROVE CallInv'
  OBVIOUS
<1>1. CASE UNCHANGED vars
  <2>1. Threads' = Threads /\ Geometry' = Geometry /\ \A g : BlockOf(g)' = BlockOf(g)
    BY <1>1, SameGeometry DEF vars
  <2>2. \A g : Stuck(g)' <=> Stuck(g)
    BY <1>1 DEF vars, Stuck
  <2>3. PassInv => PassInv'
    BY <1>1, <2>1, <2>2 DEF vars, PassInv
  <2>4. Running => Running'
    BY <1>1, <2>1, <2>3 DEF vars, Running
  <2>5. /\ TypeOK' /\ Crew' /\ BlockBarrier' /\ Unfilled(workers)' /\ RunsWithOwnContext'
        /\ DeadlockIsReal' /\ ResultsAllOrNothing'
    BY <1>1, <2>1 DEF CallInv, vars, TypeOK, Crew, BlockBarrier, Unfilled, RunsWithOwnContext,
                      DeadlockIsReal, ResultsAllOrNothing
  <2> QED BY <1>1, <2>4, <2>5 DEF CallInv, vars
<1> QED BY <1>1, RefuseInv, PrepareInv, ScalarSkipInv, ScalarStepInv, ScalarPassEndInv,
           WarpTurnInv, WarpPassEndInv DEF Next
-----------------------------------------------------------------------------
(***************************************************************************)
(* The barriers of a block hold all its threads, in the scalar loop and in *)
(* the loop by warps, and a deadlock is reported only of a kernel that is  *)
(* stuck (kernel_bridge.cpp:396, :458, :510, :580), for every grid, block, *)
(* warp size, number of units and program.                                 *)
(***************************************************************************)
THEOREM WorkersProof == Spec => []WorkersInv
<1>1. CallInv => WorkersInv
  BY DEF CallInv, WorkersInv
<1> QED BY <1>1, InitInv, NextInv, PTL DEF Spec

(***************************************************************************)
(* A refused or deadlocked call leaves the driver's buffers as they were   *)
(* (results are copied back after the loop only).                          *)
(***************************************************************************)
THEOREM ResultsProof == Spec => []ResultsAllOrNothing
<1>1. CallInv => ResultsAllOrNothing
  BY DEF CallInv
<1> QED BY <1>1, InitInv, NextInv, PTL DEF Spec

LEMMA BoxSize ==
    ASSUME NEW x \in Nat, NEW y \in Nat, NEW z \in Nat, x > 0, y > 0, z > 0
    PROVE  AtLeast1(x * AtLeast1(y) * AtLeast1(z)) = x * y * z
<1>1. AtLeast1(y) = y /\ AtLeast1(z) = z
  BY AtLeast1Type
<1>2. x * y \in Nat /\ x * y > 0
  BY Product
<1>3. x * y * z \in Nat /\ x * y * z > 0
  BY <1>2, Product
<1> QED BY <1>1, <1>3, AtLeast1Type

LEMMA ThreadsMatch ==
    ASSUME launch \in Launches, tpw \in WarpSizes,
           \A d \in 1 .. 3 : Grid[d] > 0 /\ Block[d] > 0
    PROVE  [g \in Threads |-> ThreadCtx(g)] = ComputeThreadContexts(Grid, Block)
<1>1. \A d \in 1 .. 3 : Grid[d] \in Nat /\ Block[d] \in Nat
  BY Shape
<1>2. \A d \in 1 .. 3 : AtLeast1(Grid[d]) = Grid[d] /\ AtLeast1(Block[d]) = Block[d]
  BY <1>1, AtLeast1Type
<1> DEFINE G == [d \in 1 .. 3 |-> AtLeast1(Grid[d])]
           B == [d \in 1 .. 3 |-> AtLeast1(Block[d])]
<1>3. /\ G[1] = AtLeast1(Grid[1]) /\ G[2] = AtLeast1(Grid[2]) /\ G[3] = AtLeast1(Grid[3])
      /\ B[1] = AtLeast1(Block[1]) /\ B[2] = AtLeast1(Block[2]) /\ B[3] = AtLeast1(Block[3])
      /\ G[1] = Grid[1] /\ G[2] = Grid[2] /\ G[3] = Grid[3]
      /\ B[1] = Block[1] /\ B[2] = Block[2] /\ B[3] = Block[3]
  BY <1>2
<1>4. ThreadsPerBlock = B[1] * B[2] * B[3]
  <2>1. /\ Block[1] \in Nat /\ Block[2] \in Nat /\ Block[3] \in Nat
        /\ Block[1] > 0 /\ Block[2] > 0 /\ Block[3] > 0
    BY <1>1
  <2>2. ThreadsPerBlock = Block[1] * Block[2] * Block[3]
    BY <2>1, BoxSize, Zenon DEF ThreadsPerBlock
  <2> QED BY <1>3, <2>2
<1>5. TotalBlocks = G[1] * G[2] * G[3]
  <2>1. /\ Grid[1] \in Nat /\ Grid[2] \in Nat /\ Grid[3] \in Nat
        /\ Grid[1] > 0 /\ Grid[2] > 0 /\ Grid[3] > 0
    BY <1>1
  <2>2. TotalBlocks = Grid[1] * Grid[2] * Grid[3]
    BY <2>1, BoxSize, Zenon DEF TotalBlocks
  <2> QED BY <1>3, <2>2
<1>6. Threads = 0 .. G[1] * G[2] * G[3] * (B[1] * B[2] * B[3]) - 1
  BY <1>4, <1>5 DEF Threads
<1> DEFINE C(t) == LET blk_id == t \div (B[1] * B[2] * B[3])
                       thd_id == t % (B[1] * B[2] * B[3])
                   IN  [tid |-> <<thd_id % B[1], (thd_id \div B[1]) % B[2], thd_id \div (B[1] * B[2])>>,
                        ctaid |-> <<blk_id % G[1], (blk_id \div G[1]) % G[2],
                                    blk_id \div (G[1] * G[2])>>,
                        ntid |-> B]
<1>7. ComputeThreadContexts(Grid, Block)
        = [t \in 0 .. G[1] * G[2] * G[3] * (B[1] * B[2] * B[3]) - 1 |-> C(t)]
  BY Zenon DEF ComputeThreadContexts
<1>8. \A t : ThreadCtx(t) = C(t)
  <2> SUFFICES ASSUME NEW t PROVE ThreadCtx(t) = C(t)
    OBVIOUS
  <2>1. Unlinear(t % ThreadsPerBlock, Block)
          = <<(t % ThreadsPerBlock) % B[1], ((t % ThreadsPerBlock) \div B[1]) % B[2],
              (t % ThreadsPerBlock) \div (B[1] * B[2])>>
    BY <1>3, Zenon DEF Unlinear
  <2>2. Unlinear(BlockOf(t), Grid)
          = <<BlockOf(t) % G[1], (BlockOf(t) \div G[1]) % G[2], BlockOf(t) \div (G[1] * G[2])>>
    BY <1>3, Zenon DEF Unlinear
  <2>3. BlockOf(t) = t \div (B[1] * B[2] * B[3])
    BY <1>4 DEF BlockOf
  <2> HIDE DEF B, G
  <2>4. ThreadCtx(t) = [tid |-> Unlinear(t % ThreadsPerBlock, Block),
                        ctaid |-> Unlinear(BlockOf(t), Grid), ntid |-> B]
    BY DEF ThreadCtx, B
  <2> QED BY <1>4, <2>1, <2>2, <2>3, <2>4, Zenon
<1> HIDE DEF C, G, B
<1> QED BY <1>6, <1>7, <1>8, Zenon

(***************************************************************************)
(* A thread runs every instruction with its own context, in a launch with  *)
(* any grid and block, and its indices are those computeThreadContexts()   *)
(* gives it (kernel_bridge.cpp:387, host_runtime.cpp:21).                  *)
(***************************************************************************)
THEOREM ThreadIdentityProof == Spec => []ThreadIdentity
<1>1. CallInv => ThreadIdentity
  BY ThreadsMatch DEF CallInv, ThreadIdentity, ThreadsMatchRuntime
<1> QED BY <1>1, InitInv, NextInv, PTL DEF Spec
=============================================================================
