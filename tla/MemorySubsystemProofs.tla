------------------------ MODULE MemorySubsystemProofs ------------------------
(***************************************************************************)
(* Proofs about MemorySubsystem, for every number of compute units, lines, *)
(* words, ways and sets and every number of writes.                        *)
(***************************************************************************)
EXTENDS MemorySubsystem, TLAPS

(***************************************************************************)
(* What a tier does, for every number of ways and sets.  A lookup sees a   *)
(* tier only through Hit and ReadLine; the lemmas say how each operation   *)
(* changes these two.                                                      *)
(***************************************************************************)
SizesOK(t) == t.ways \in Nat \ {0} /\ t.sets \in Nat \ {0}

\* setIndex() and tagOf() together tell two lines apart.
LEMMA IndexAndTag ==
    ASSUME NEW t, SizesOK(t), NEW k \in Nat, NEW l \in Nat,
           SetIndex(t, k) = SetIndex(t, l), TagOf(t, k) = TagOf(t, l)
    PROVE  k = l
<1>1. PICK n : n = t.sets
  OBVIOUS
<1>2. n \in Nat \ {0} /\ k % n = l % n /\ k \div n = l \div n
  BY <1>1 DEF SizesOK, SetIndex, TagOf
<1>3. k = n * (k \div n) + (k % n)
  BY <1>2
<1>4. l = n * (l \div n) + (l % n)
  BY <1>2
<1> QED BY <1>2, <1>3, <1>4

LEMMA IndexType ==
    ASSUME NEW t, SizesOK(t), NEW l \in Nat
    PROVE  SetIndex(t, l) \in Set(t) /\ TagOf(t, l) \in Nat
  BY DEF SizesOK, SetIndex, TagOf, Set

\* lookup() of a line that is in one way finds that way.
LEMMA OneHitWay ==
    ASSUME NEW t, NEW bank, NEW lines, NEW l \in lines, LineInOneWay(t, bank, lines),
           NEW w \in HitWays(t, bank, l), SizesOK(t)
    PROVE  HitWay(t, bank, l) = w
<1>1. \A v \in HitWays(t, bank, l) : v = w
  BY DEF LineInOneWay
<1>2. w <= w
  BY DEF HitWays, Way, SizesOK
<1>3. \E v \in HitWays(t, bank, l) : \A u \in HitWays(t, bank, l) : u <= v
  BY <1>1, <1>2
<1>4. HitWay(t, bank, l) \in HitWays(t, bank, l)
  BY <1>3 DEF HitWay
<1> QED BY <1>1, <1>4

LEMMA ReadLineType ==
    ASSUME NEW t, SizesOK(t), NEW V, NEW bank \in Bank(t, V), NEW lines \in SUBSET Nat, NEW l \in lines,
           LineInOneWay(t, bank, lines), Hit(t, bank, l)
    PROVE  ReadLine(t, bank, l) \in [Word -> V]
<1>1. PICK w \in HitWays(t, bank, l) : TRUE
  BY DEF Hit
<1>2. HitWay(t, bank, l) = w /\ w \in Way(t)
  BY OneHitWay DEF HitWays
<1>3. SetIndex(t, l) \in Set(t) /\ bank.data \in [Way(t) -> [Set(t) -> [Word -> V]]]
  BY IndexType DEF Bank
<1> QED BY <1>2, <1>3 DEF ReadLine

\* The constructor: nothing is resident.
LEMMA ResetEmpty ==
    ASSUME NEW t, SizesOK(t), NEW V, 0 \in V
    PROVE  Reset(t) \in Bank(t, V) /\ \A l \in Nat : ~ Hit(t, Reset(t), l)
<1>1. Reset(t) \in Bank(t, V)
  BY DEF Reset, Bank, Way, Set, SizesOK
<1>2. ASSUME NEW l \in Nat PROVE HitWays(t, Reset(t), l) = {}
  BY IndexType DEF HitWays, Reset
<1> QED BY <1>1, <1>2 DEF Hit

\* fillLine(), way by way.
FillsVictim(t, filled, V, bank, line, words, s, victim) ==
    /\ filled \in Bank(t, V) /\ victim \in Way(t)
    /\ \A w \in Way(t), u \in Set(t) : w # victim \/ u # s =>
          /\ filled.valid[w][u] = bank.valid[w][u]
          /\ filled.tag[w][u] = bank.tag[w][u]
          /\ filled.data[w][u] = bank.data[w][u]
    /\ filled.valid[victim][s] = TRUE
    /\ filled.tag[victim][s] = TagOf(t, line)
    /\ filled.data[victim][s] = words

LEMMA FillWays ==
    ASSUME NEW t, SizesOK(t), NEW V, NEW bank \in Bank(t, V), NEW line \in Nat,
           NEW words \in [Word -> V], NEW s, s = SetIndex(t, line),
           NEW victim, victim = bank.next_victim[s],
           NEW filled, filled = FillLine(t, bank, line, words)
    PROVE  FillsVictim(t, filled, V, bank, line, words, s, victim)
<1> DEFINE next == IF victim = t.ways - 1 THEN 0 ELSE victim + 1
<1>1. s \in Set(t) /\ TagOf(t, line) \in Nat
  BY IndexType
<1>2. /\ bank.valid \in [Way(t) -> [Set(t) -> BOOLEAN]] /\ bank.tag \in [Way(t) -> [Set(t) -> Nat]]
      /\ bank.data \in [Way(t) -> [Set(t) -> [Word -> V]]] /\ bank.next_victim \in [Set(t) -> Way(t)]
  BY DEF Bank
<1>3. victim \in Way(t) /\ next \in Way(t)
  <2>1. victim \in Way(t)
    BY <1>1, <1>2
  <2> QED BY <2>1 DEF Way, SizesOK
<1> HIDE DEF next
<1>4. /\ filled = [valid |-> filled.valid, tag |-> filled.tag, data |-> filled.data,
                   next_victim |-> filled.next_victim]
      /\ filled.valid = [bank.valid EXCEPT ![victim][s] = TRUE]
      /\ filled.tag = [bank.tag EXCEPT ![victim][s] = TagOf(t, line)]
      /\ filled.data = [bank.data EXCEPT ![victim][s] = words]
      /\ filled.next_victim = [bank.next_victim EXCEPT ![s] = next]
  BY DEF FillLine, next
<1>5. /\ filled.valid \in [Way(t) -> [Set(t) -> BOOLEAN]] /\ filled.tag \in [Way(t) -> [Set(t) -> Nat]]
      /\ filled.data \in [Way(t) -> [Set(t) -> [Word -> V]]] /\ filled.next_victim \in [Set(t) -> Way(t)]
  BY <1>1, <1>2, <1>3, <1>4
<1>6. filled \in Bank(t, V)
  BY <1>4, <1>5 DEF Bank
<1>7. \A w \in Way(t), u \in Set(t) : w # victim \/ u # s =>
          /\ filled.valid[w][u] = bank.valid[w][u]
          /\ filled.tag[w][u] = bank.tag[w][u]
          /\ filled.data[w][u] = bank.data[w][u]
  <2> SUFFICES ASSUME NEW w \in Way(t), NEW u \in Set(t), w # victim \/ u # s
               PROVE  /\ filled.valid[w][u] = bank.valid[w][u]
                      /\ filled.tag[w][u] = bank.tag[w][u]
                      /\ filled.data[w][u] = bank.data[w][u]
    OBVIOUS
  <2>1. filled.valid[w][u] = bank.valid[w][u]
    <3>1. CASE w # victim
      BY <1>2, <1>3, <1>4, <3>1
    <3>2. CASE w = victim /\ u # s
      <4>1. filled.valid[w] = [bank.valid[w] EXCEPT ![s] = TRUE]
        BY <1>2, <1>3, <1>4, <3>2
      <4> QED BY <1>2, <3>2, <4>1
    <3> QED BY <3>1, <3>2
  <2>2. filled.tag[w][u] = bank.tag[w][u]
    BY <1>1, <1>2, <1>3, <1>4
  <2>3. filled.data[w][u] = bank.data[w][u]
    BY <1>1, <1>2, <1>3, <1>4
  <2> QED BY <2>1, <2>2, <2>3
<1>8. /\ filled.valid[victim][s] = TRUE /\ filled.tag[victim][s] = TagOf(t, line)
      /\ filled.data[victim][s] = words
  BY <1>1, <1>2, <1>3, <1>4
<1> QED BY <1>3, <1>6, <1>7, <1>8 DEF FillsVictim

\* fillLine() of a line that is not resident: the line becomes resident with
\* the words given, and what else is resident afterwards was so before,
\* with the same words.
FillsLine(t, filled, V, lines, bank, line, words) ==
    /\ filled \in Bank(t, V) /\ LineInOneWay(t, filled, lines)
    /\ Hit(t, filled, line) /\ ReadLine(t, filled, line) = words
    /\ \A l \in lines : l # line /\ Hit(t, filled, l) =>
          Hit(t, bank, l) /\ ReadLine(t, filled, l) = ReadLine(t, bank, l)

LEMMA FillLineFacts ==
    ASSUME NEW t, SizesOK(t), NEW V, NEW bank \in Bank(t, V), NEW lines \in SUBSET Nat, NEW line \in lines,
           LineInOneWay(t, bank, lines), ~ Hit(t, bank, line), NEW words \in [Word -> V]
    PROVE  FillsLine(t, FillLine(t, bank, line, words), V, lines, bank, line, words)
<1>1. PICK s, victim, filled : /\ s = SetIndex(t, line)
                               /\ victim = bank.next_victim[s]
                               /\ filled = FillLine(t, bank, line, words)
  OBVIOUS
<1>2. /\ filled \in Bank(t, V) /\ victim \in Way(t)
      /\ \A w \in Way(t), u \in Set(t) : w # victim \/ u # s =>
            /\ filled.valid[w][u] = bank.valid[w][u]
            /\ filled.tag[w][u] = bank.tag[w][u]
            /\ filled.data[w][u] = bank.data[w][u]
      /\ filled.valid[victim][s] = TRUE
      /\ filled.tag[victim][s] = TagOf(t, line)
      /\ filled.data[victim][s] = words
  <2>1. line \in Nat
    OBVIOUS
  <2>2. FillsVictim(t, filled, V, bank, line, words, s, victim)
    BY <1>1, <2>1, FillWays
  <2> QED BY <2>2 DEF FillsVictim
<1>3. \A l \in lines : l \in Nat /\ SetIndex(t, l) \in Set(t)
  BY IndexType
<1>4. \A l \in lines : l # line => SetIndex(t, l) # s \/ TagOf(t, l) # TagOf(t, line)
  BY <1>1, <1>3, IndexAndTag
<1>5. HitWays(t, filled, line) = {victim}
  <2>1. victim \in HitWays(t, filled, line)
    BY <1>1, <1>2 DEF HitWays
  <2>2. ASSUME NEW w \in HitWays(t, filled, line), w # victim PROVE w \in HitWays(t, bank, line)
    BY <1>2, <1>3, <2>2 DEF HitWays
  <2> QED BY <2>1, <2>2 DEF Hit
<1>6. ASSUME NEW l \in lines, l # line, NEW w \in HitWays(t, filled, l)
      PROVE  /\ w \in HitWays(t, bank, l)
             /\ filled.data[w][SetIndex(t, l)] = bank.data[w][SetIndex(t, l)]
  <2>1. w \in Way(t) /\ (w # victim \/ SetIndex(t, l) # s)
    BY <1>2, <1>4, <1>6 DEF HitWays
  <2> QED BY <1>2, <1>3, <2>1 DEF HitWays
<1>7. LineInOneWay(t, filled, lines)
  BY <1>5, <1>6 DEF LineInOneWay
<1>8. Hit(t, filled, line) /\ ReadLine(t, filled, line) = words
  <2>1. HitWay(t, filled, line) = victim
    BY <1>5, <1>7, OneHitWay
  <2> QED BY <1>1, <1>2, <1>5, <2>1 DEF Hit, ReadLine
<1>9. ASSUME NEW l \in lines, l # line, Hit(t, filled, l)
      PROVE  Hit(t, bank, l) /\ ReadLine(t, filled, l) = ReadLine(t, bank, l)
  <2>1. PICK w \in HitWays(t, filled, l) : TRUE
    BY <1>9 DEF Hit
  <2>2. w \in HitWays(t, bank, l) /\ filled.data[w][SetIndex(t, l)] = bank.data[w][SetIndex(t, l)]
    BY <1>6, <1>9
  <2>3. HitWay(t, filled, l) = w /\ HitWay(t, bank, l) = w
    BY <1>7, <2>2, OneHitWay
  <2> QED BY <2>2, <2>3 DEF Hit, ReadLine
<1> QED BY <1>1, <1>2, <1>7, <1>8, <1>9 DEF FillsLine

\* storeWord()'s use of a tier: what is resident stays so, and one word of
\* the line written changes if the line is resident.
WritesWord(t, written, V, lines, bank, line, word, v) ==
    /\ written \in Bank(t, V) /\ LineInOneWay(t, written, lines)
    /\ \A l \in lines : Hit(t, written, l) <=> Hit(t, bank, l)
    /\ \A l \in lines, i \in Word : Hit(t, bank, l) =>
          ReadLine(t, written, l)[i] = IF l = line /\ i = word THEN v ELSE ReadLine(t, bank, l)[i]

LEMMA WriteIfHitFacts ==
    ASSUME NEW t, SizesOK(t), NEW V, NEW bank \in Bank(t, V), NEW lines \in SUBSET Nat, NEW line \in lines,
           LineInOneWay(t, bank, lines), NEW word \in Word, NEW v \in V
    PROVE  WritesWord(t, WriteIfHit(t, bank, line, word, v), V, lines, bank, line, word, v)
<1>1. CASE ~ Hit(t, bank, line)
  BY <1>1 DEF WriteIfHit, WritesWord
<1>2. CASE Hit(t, bank, line)
  <2> DEFINE s == SetIndex(t, line)
             written == WriteIfHit(t, bank, line, word, v)
  <2>1. PICK h \in HitWays(t, bank, line) : TRUE
    BY <1>2 DEF Hit
  <2>2. HitWay(t, bank, line) = h /\ h \in Way(t)
    BY OneHitWay DEF HitWays
  <2>3. s \in Set(t) /\ \A l \in lines : SetIndex(t, l) \in Set(t)
    BY IndexType
  <2>4. /\ bank.valid \in [Way(t) -> [Set(t) -> BOOLEAN]] /\ bank.tag \in [Way(t) -> [Set(t) -> Nat]]
        /\ bank.data \in [Way(t) -> [Set(t) -> [Word -> V]]] /\ bank.next_victim \in [Set(t) -> Way(t)]
    BY DEF Bank
  <2>5. /\ written = [valid |-> bank.valid, tag |-> bank.tag, data |-> written.data,
                      next_victim |-> bank.next_victim]
        /\ written.data = [bank.data EXCEPT ![h][s][word] = v]
        /\ written.valid = bank.valid /\ written.tag = bank.tag
    BY <1>2, <2>2 DEF WriteIfHit, WriteWord, Bank
  <2> HIDE DEF s, written
  <2>6. written.data \in [Way(t) -> [Set(t) -> [Word -> V]]]
    BY <2>2, <2>3, <2>4, <2>5
  <2>7. written \in Bank(t, V)
    <3>1. PICK D \in [Way(t) -> [Set(t) -> [Word -> V]]] :
            written = [valid |-> bank.valid, tag |-> bank.tag, data |-> D,
                       next_victim |-> bank.next_victim]
      BY <2>5, <2>6
    <3> QED BY <2>4, <3>1 DEF Bank
  <2>8. \A l \in lines : HitWays(t, written, l) = HitWays(t, bank, l)
    BY <2>5 DEF HitWays
  <2>9. LineInOneWay(t, written, lines) /\ \A l \in lines : Hit(t, written, l) <=> Hit(t, bank, l)
    BY <2>8 DEF LineInOneWay, Hit
  <2>10. ASSUME NEW l \in lines, NEW i \in Word, Hit(t, bank, l)
         PROVE  ReadLine(t, written, l)[i] = IF l = line /\ i = word THEN v
                                          ELSE ReadLine(t, bank, l)[i]
    <3>1. PICK w \in HitWays(t, bank, l) : TRUE
      BY <2>10 DEF Hit
    <3>2. HitWay(t, bank, l) = w /\ HitWay(t, written, l) = w /\ w \in Way(t)
      BY <2>8, <2>9, <3>1, OneHitWay DEF HitWays
    <3>3. CASE l = line
      <4>1. w = h
        BY <2>2, <3>2, <3>3
      <4>2. written.data[h][s][i] = IF i = word THEN v ELSE bank.data[h][s][i]
        BY <2>2, <2>3, <2>4, <2>5
      <4> QED BY <3>2, <3>3, <4>1, <4>2 DEF ReadLine, s
    <3>4. CASE l # line
      <4>1. w # h \/ SetIndex(t, l) # s
        <5>1. TagOf(t, l) # TagOf(t, line) \/ SetIndex(t, l) # s
          BY <3>4, IndexAndTag DEF s
        <5> QED BY <2>1, <3>1, <5>1 DEF HitWays, s
      <4>2. written.data[w][SetIndex(t, l)] = bank.data[w][SetIndex(t, l)]
        BY <2>2, <2>3, <2>4, <2>5, <3>2, <4>1
      <4> QED BY <3>2, <3>4, <4>2 DEF ReadLine
    <3> QED BY <3>3, <3>4
  <2> QED BY <2>7, <2>9, <2>10 DEF written, WritesWord
<1> QED BY <1>1, <1>2
-----------------------------------------------------------------------------
\* The copies of word a that a load of CU c can return.
InL1(c, a) == Hit(L1, l1_caches[c], a[1])
InL2(a) == Hit(L2, l2_cache, a[1])
L1Word(c, a) == ReadLine(L1, l1_caches[c], a[1])[a[2]]
L2Word(a) == ReadLine(L2, l2_cache, a[1])[a[2]]
GlobalWord(a) == global_mem[a[1]][a[2]]

(***************************************************************************)
(* NeverOlder speaks of the first copy a lookup meets.  It is kept because *)
(* the copies are ordered: what c has seen is no newer than its L1's copy, *)
(* that no newer than L2's, and that no newer than global memory's, which  *)
(* is what the next miss brings in after an eviction.                      *)
(***************************************************************************)
OrderOf(c, a) ==
    /\ seen[c][a] <= GlobalWord(a) /\ GlobalWord(a) <= writes
    /\ InL2(a) => seen[c][a] <= L2Word(a) /\ L2Word(a) <= GlobalWord(a)
    /\ InL1(c, a) => seen[c][a] <= L1Word(c, a) /\ L1Word(c, a) <= GlobalWord(a)
    /\ InL1(c, a) /\ InL2(a) => L1Word(c, a) <= L2Word(a)

OrderInv == \A c \in CU, a \in Addr : OrderOf(c, a)

\* The golden caches hold what the golden global memory holds, and that is
\* what the device's global memory holds.
ParityOf(a) ==
    /\ GlobalWord(a) = golden_global[a]
    /\ a \in DOMAIN golden_l1 => golden_l1[a] = golden_global[a]
    /\ a \in DOMAIN golden_l2 => golden_l2[a] = golden_global[a]

ParityInv == \A a \in Addr : ParityOf(a)
-----------------------------------------------------------------------------
LEMMA Sizes ==
    /\ SizesOK(L1) /\ SizesOK(L2)
    /\ 0 \in Value /\ Value \in SUBSET Nat /\ Line \in SUBSET Nat
  BY MemoryAssumption DEF SizesOK, L1, L2, Value, Line

LEMMA AddrParts ==
    /\ \A a \in Addr : a[1] \in Line /\ a[2] \in Word
    /\ \A a, b \in Addr : a[1] = b[1] /\ a[2] = b[2] => a = b
  BY DEF Addr

\* What the caches' invariant says of the banks.
LEMMA Banks ==
    ASSUME CachesInv
    PROVE  /\ l2_cache \in Bank(L2, Value) /\ LineInOneWay(L2, l2_cache, Line)
           /\ \A c \in CU : /\ l1_caches[c] \in Bank(L1, Value)
                            /\ LineInOneWay(L1, l1_caches[c], Line)
  BY DEF CachesInv, TypeOK, NoLineTwice

LEMMA LoadLineType ==
    ASSUME CachesInv, NEW c \in CU, NEW line \in Line
    PROVE  LoadLine(c, line) \in [Word -> Value]
<1>1. CASE Hit(L1, l1_caches[c], line)
  <2>1. ReadLine(L1, l1_caches[c], line) \in [Word -> Value]
    BY <1>1, Banks, Sizes, ReadLineType
  <2> QED BY <1>1, <2>1, Sizes DEF LoadLine
<1>2. CASE ~ Hit(L1, l1_caches[c], line) /\ Hit(L2, l2_cache, line)
  <2>1. ReadLine(L2, l2_cache, line) \in [Word -> Value]
    BY <1>2, Banks, Sizes, ReadLineType
  <2> QED BY <1>2, <2>1, Sizes DEF LoadLine
<1>3. CASE ~ Hit(L1, l1_caches[c], line) /\ ~ Hit(L2, l2_cache, line)
  BY <1>3 DEF LoadLine, CachesInv, TypeOK
<1> QED BY <1>1, <1>2, <1>3

\* loadWord(), tier by tier.
LEMMA LoadTiers ==
    ASSUME CachesInv, NEW c \in CU, NEW line \in Line, LoadWord(c, line)
    PROVE  /\ \A d \in CU : d # c => l1_caches'[d] = l1_caches[d]
           /\ Hit(L1, l1_caches[c], line) => l1_caches'[c] = l1_caches[c]
           /\ ~ Hit(L1, l1_caches[c], line) =>
                FillsLine(L1, l1_caches'[c], Value, Line, l1_caches[c], line, LoadLine(c, line))
           /\ Hit(L1, l1_caches[c], line) \/ Hit(L2, l2_cache, line) => l2_cache' = l2_cache
           /\ ~ Hit(L1, l1_caches[c], line) /\ ~ Hit(L2, l2_cache, line) =>
                FillsLine(L2, l2_cache', Value, Line, l2_cache, line, global_mem[line])
           /\ DOMAIN l1_caches' = CU /\ l1_caches' = [d \in CU |-> l1_caches'[d]]
<1>1. LoadLine(c, line) \in [Word -> Value] /\ global_mem[line] \in [Word -> Value]
  BY LoadLineType, Sizes DEF CachesInv, TypeOK
<1>2. l1_caches \in [CU -> Bank(L1, Value)]
  BY DEF CachesInv, TypeOK
<1>3. ASSUME ~ Hit(L1, l1_caches[c], line)
      PROVE  FillsLine(L1, l1_caches'[c], Value, Line, l1_caches[c], line, LoadLine(c, line))
  <2>1. l1_caches'[c] = FillLine(L1, l1_caches[c], line, LoadLine(c, line))
    BY <1>2, <1>3 DEF LoadWord
  <2> QED BY <1>1, <1>3, <2>1, Banks, Sizes, FillLineFacts
<1>4. ASSUME ~ Hit(L1, l1_caches[c], line), ~ Hit(L2, l2_cache, line)
      PROVE  FillsLine(L2, l2_cache', Value, Line, l2_cache, line, global_mem[line])
  <2>1. l2_cache' = FillLine(L2, l2_cache, line, global_mem[line])
    BY <1>4 DEF LoadWord
  <2> QED BY <1>1, <1>4, <2>1, Banks, Sizes, FillLineFacts
<1>5. /\ \A d \in CU : d # c => l1_caches'[d] = l1_caches[d]
      /\ Hit(L1, l1_caches[c], line) => l1_caches'[c] = l1_caches[c]
      /\ DOMAIN l1_caches' = CU /\ l1_caches' = [d \in CU |-> l1_caches'[d]]
  BY <1>2 DEF LoadWord
<1>6. Hit(L1, l1_caches[c], line) \/ Hit(L2, l2_cache, line) => l2_cache' = l2_cache
  BY DEF LoadWord
<1> QED BY <1>3, <1>4, <1>5, <1>6

\* storeWord(), tier by tier.
LEMMA StoreTiers ==
    ASSUME CachesInv, NEW c \in CU, NEW line \in Line, NEW word \in Word, NEW v \in Value,
           StoreWord(c, line, word, v)
    PROVE  /\ \A d \in CU : d # c => l1_caches'[d] = l1_caches[d]
           /\ WritesWord(L1, l1_caches'[c], Value, Line, l1_caches[c], line, word, v)
           /\ WritesWord(L2, l2_cache', Value, Line, l2_cache, line, word, v)
           /\ l1_caches' = [d \in CU |-> l1_caches'[d]]
<1>1. l1_caches \in [CU -> Bank(L1, Value)] /\ word \in Word /\ word \in Word
  BY Sizes DEF CachesInv, TypeOK
<1>2. WritesWord(L1, l1_caches'[c], Value, Line, l1_caches[c], line, word, v)
  <2>1. l1_caches'[c] = WriteIfHit(L1, l1_caches[c], line, word, v)
    BY <1>1 DEF StoreWord
  <2> QED BY <1>1, <2>1, Banks, Sizes, WriteIfHitFacts
<1>3. WritesWord(L2, l2_cache', Value, Line, l2_cache, line, word, v)
  <2>1. l2_cache' = WriteIfHit(L2, l2_cache, line, word, v)
    BY DEF StoreWord
  <2> QED BY <1>1, <2>1, Banks, Sizes, WriteIfHitFacts
<1>4. /\ \A d \in CU : d # c => l1_caches'[d] = l1_caches[d]
      /\ l1_caches' = [d \in CU |-> l1_caches'[d]]
  BY <1>1 DEF StoreWord
<1> QED BY <1>2, <1>3, <1>4
-----------------------------------------------------------------------------
(***************************************************************************)
(* CachesInv                                                               *)
(***************************************************************************)
LEMMA InitCaches == Init => CachesInv
<1> SUFFICES ASSUME Init PROVE CachesInv
  OBVIOUS
<1>1. Reset(L1) \in Bank(L1, Value) /\ \A l \in Nat : ~ Hit(L1, Reset(L1), l)
  BY Sizes, ResetEmpty
<1>2. Reset(L2) \in Bank(L2, Value) /\ \A l \in Nat : ~ Hit(L2, Reset(L2), l)
  BY Sizes, ResetEmpty
<1>3. LineInOneWay(L1, Reset(L1), Line)
  BY <1>1, Sizes DEF LineInOneWay, Hit
<1>4. LineInOneWay(L2, Reset(L2), Line)
  BY <1>2, Sizes DEF LineInOneWay, Hit
<1>5. DOMAIN golden_l1 \in SUBSET Addr /\ DOMAIN golden_l2 \in SUBSET Addr
  BY DEF Init
<1>6. global_mem \in [Line -> [Word -> Value]] /\ golden_global \in [Addr -> Value]
  BY Sizes DEF Init
<1>7. /\ l1_caches \in [CU -> Bank(L1, Value)] /\ l2_cache \in Bank(L2, Value)
      /\ writes \in Value /\ host_writes \in Nat /\ seen \in [CU -> [Addr -> Value]]
  BY <1>1, <1>2, Sizes DEF Init
<1>8. NoLineTwice
  BY <1>3, <1>4 DEF Init, NoLineTwice
<1> QED BY <1>5, <1>6, <1>7, <1>8 DEF CachesInv, TypeOK

LEMMA GoldenDomains ==
    ASSUME TypeOK, NEW a \in Addr, NEW v \in Value,
           \/ GoldenLoadWord(a) \/ GoldenStoreWord(a, v) \/ GoldenWriteBytes(a, v)
    PROVE  /\ DOMAIN golden_l1' \in SUBSET Addr /\ DOMAIN golden_l2' \in SUBSET Addr
           /\ golden_global' \in [Addr -> Value]
<1>1. DOMAIN golden_l1 \in SUBSET Addr /\ DOMAIN golden_l2 \in SUBSET Addr
      /\ golden_global \in [Addr -> Value]
  BY DEF TypeOK
<1>2. CASE GoldenLoadWord(a)
  BY <1>1, <1>2 DEF GoldenLoadWord, Put
<1>3. CASE GoldenStoreWord(a, v)
  BY <1>1, <1>3 DEF GoldenStoreWord, PutIfPresent, Put
<1>4. CASE GoldenWriteBytes(a, v)
  BY <1>1, <1>4 DEF GoldenWriteBytes, Erase
<1> QED BY <1>2, <1>3, <1>4

LEMMA LoadCaches ==
    ASSUME CachesInv, NEW c \in CU, NEW a \in Addr, Load(c, a)
    PROVE  CachesInv'
<1>1. a[1] \in Line /\ a[2] \in Word /\ LoadWord(c, a[1]) /\ TypeOK
  BY AddrParts DEF Load, CachesInv
<1>2. \A d \in CU : l1_caches'[d] \in Bank(L1, Value) /\ LineInOneWay(L1, l1_caches'[d], Line)
  <2> SUFFICES ASSUME NEW d \in CU
               PROVE  l1_caches'[d] \in Bank(L1, Value) /\ LineInOneWay(L1, l1_caches'[d], Line)
    OBVIOUS
  <2>1. CASE d # c \/ Hit(L1, l1_caches[c], a[1])
    <3>1. l1_caches'[d] = l1_caches[d]
      BY <1>1, <2>1, LoadTiers
    <3> QED BY <3>1, Banks
  <2>2. CASE d = c /\ ~ Hit(L1, l1_caches[c], a[1])
    BY <1>1, <2>2, LoadTiers DEF FillsLine
  <2> QED BY <2>1, <2>2
<1>3. l2_cache' \in Bank(L2, Value) /\ LineInOneWay(L2, l2_cache', Line)
  <2>1. CASE Hit(L1, l1_caches[c], a[1]) \/ Hit(L2, l2_cache, a[1])
    <3>1. l2_cache' = l2_cache
      BY <1>1, <2>1, LoadTiers
    <3> QED BY <3>1, Banks
  <2>2. CASE ~ Hit(L1, l1_caches[c], a[1]) /\ ~ Hit(L2, l2_cache, a[1])
    BY <1>1, <2>2, LoadTiers DEF FillsLine
  <2> QED BY <2>1, <2>2
<1>4. l1_caches' \in [CU -> Bank(L1, Value)]
  <2>1. l1_caches' = [d \in CU |-> l1_caches'[d]]
    BY <1>1, LoadTiers
  <2> QED BY <1>2, <2>1
<1>5. LoadValue(c, a) \in Value
  BY <1>1, LoadLineType DEF LoadValue
<1>6. seen' \in [CU -> [Addr -> Value]]
  BY <1>1, <1>5 DEF Load, Max2, TypeOK
<1>7. /\ DOMAIN golden_l1' \in SUBSET Addr /\ DOMAIN golden_l2' \in SUBSET Addr
      /\ golden_global' \in [Addr -> Value]
  BY <1>1, <1>5, GoldenDomains DEF Load
<1>8. /\ global_mem' \in [Line -> [Word -> Value]] /\ writes' \in Value /\ host_writes' \in Nat
  BY <1>1 DEF Load, LoadWord, TypeOK
<1> QED BY <1>2, <1>3, <1>4, <1>6, <1>7, <1>8 DEF CachesInv, TypeOK, NoLineTwice

LEMMA StoreCaches ==
    ASSUME CachesInv, NEW c \in CU, NEW a \in Addr, Store(c, a)
    PROVE  CachesInv'
<1>1. /\ a[1] \in Line /\ a[2] \in Word /\ TypeOK /\ writes' \in Value
  BY AddrParts, MemoryAssumption DEF Store, CachesInv, TypeOK, Value
<1>2. StoreWord(c, a[1], a[2], writes')
  BY DEF Store
<1>3. \A d \in CU : l1_caches'[d] \in Bank(L1, Value) /\ LineInOneWay(L1, l1_caches'[d], Line)
  <2> SUFFICES ASSUME NEW d \in CU
               PROVE  l1_caches'[d] \in Bank(L1, Value) /\ LineInOneWay(L1, l1_caches'[d], Line)
    OBVIOUS
  <2>1. CASE d # c
    <3>1. l1_caches'[d] = l1_caches[d]
      BY <1>1, <1>2, <2>1, StoreTiers
    <3> QED BY <3>1, Banks
  <2>2. CASE d = c
    <3>1. WritesWord(L1, l1_caches'[c], Value, Line, l1_caches[c], a[1], a[2], writes')
      BY <1>1, <1>2, StoreTiers
    <3> QED BY <2>2, <3>1 DEF WritesWord
  <2> QED BY <2>1, <2>2
<1>4. l2_cache' \in Bank(L2, Value) /\ LineInOneWay(L2, l2_cache', Line)
  <2>1. WritesWord(L2, l2_cache', Value, Line, l2_cache, a[1], a[2], writes')
    BY <1>1, <1>2, StoreTiers
  <2> QED BY <2>1 DEF WritesWord
<1>5. l1_caches' \in [CU -> Bank(L1, Value)]
  <2>1. l1_caches' = [d \in CU |-> l1_caches'[d]]
    BY <1>1, <1>2, StoreTiers
  <2> QED BY <1>3, <2>1
<1>6. global_mem' \in [Line -> [Word -> Value]] /\ host_writes' \in Nat
  BY <1>1 DEF Store, StoreWord, TypeOK
<1>7. seen' \in [CU -> [Addr -> Value]]
  BY <1>1 DEF Store, TypeOK
<1>8. /\ DOMAIN golden_l1' \in SUBSET Addr /\ DOMAIN golden_l2' \in SUBSET Addr
      /\ golden_global' \in [Addr -> Value]
  BY <1>1, GoldenDomains DEF Store
<1> QED BY <1>1, <1>3, <1>4, <1>5, <1>6, <1>7, <1>8 DEF CachesInv, TypeOK, NoLineTwice

LEMMA HostWriteCaches ==
    ASSUME CachesInv, NEW a \in Addr, HostWrite(a)
    PROVE  CachesInv'
<1>1. /\ a[1] \in Line /\ a[2] \in Word /\ TypeOK /\ writes' \in Value
  BY AddrParts, MemoryAssumption DEF HostWrite, CachesInv, TypeOK, Value
<1>2. NoLineTwice'
  BY DEF HostWrite, CachesInv, NoLineTwice
<1>3. global_mem' \in [Line -> [Word -> Value]] /\ host_writes' \in Nat
  BY <1>1 DEF HostWrite, TypeOK
<1>4. /\ DOMAIN golden_l1' \in SUBSET Addr /\ DOMAIN golden_l2' \in SUBSET Addr
      /\ golden_global' \in [Addr -> Value]
  BY <1>1, GoldenDomains DEF HostWrite
<1>5. UNCHANGED <<l1_caches, l2_cache, seen>>
  BY DEF HostWrite
<1> QED BY <1>1, <1>2, <1>3, <1>4, <1>5 DEF CachesInv, TypeOK

LEMMA NextCaches == CachesInv /\ [Next]_vars => CachesInv'
<1> SUFFICES ASSUME CachesInv, [Next]_vars PROVE CachesInv'
  OBVIOUS
<1>1. CASE UNCHANGED vars
  BY <1>1 DEF vars, CachesInv, TypeOK, NoLineTwice
<1> QED BY <1>1, LoadCaches, StoreCaches, HostWriteCaches DEF Next

\* fillLine() and writeWord() leave every line in at most one way of its
\* set, and every tier well formed, for every cache geometry
\* (cache_bank.h:159-185, memory_pipeline.h).
THEOREM CachesProof == Spec => []CachesInv
  BY InitCaches, NextCaches, PTL DEF Spec
-----------------------------------------------------------------------------
(***************************************************************************)
(* NeverOlder                                                              *)
(***************************************************************************)
LEMMA WordTypes ==
    ASSUME CachesInv, NEW c \in CU, NEW a \in Addr
    PROVE  /\ GlobalWord(a) \in Nat /\ seen[c][a] \in Nat /\ writes \in Nat
           /\ InL1(c, a) => L1Word(c, a) \in Nat
           /\ InL2(a) => L2Word(a) \in Nat
<1>1. a[1] \in Line /\ a[2] \in Word
  BY AddrParts
<1>2. GlobalWord(a) \in Nat /\ seen[c][a] \in Nat /\ writes \in Nat
  BY <1>1, Sizes DEF CachesInv, TypeOK, GlobalWord
<1>3. ASSUME InL1(c, a) PROVE L1Word(c, a) \in Nat
  <2>1. ReadLine(L1, l1_caches[c], a[1]) \in [Word -> Value]
    BY <1>1, <1>3, Banks, Sizes, ReadLineType DEF InL1
  <2> QED BY <1>1, <2>1, Sizes DEF L1Word
<1>4. ASSUME InL2(a) PROVE L2Word(a) \in Nat
  <2>1. ReadLine(L2, l2_cache, a[1]) \in [Word -> Value]
    BY <1>1, <1>4, Banks, Sizes, ReadLineType DEF InL2
  <2> QED BY <1>1, <2>1, Sizes DEF L2Word
<1> QED BY <1>2, <1>3, <1>4

\* The word a load returns.
LEMMA LoadedWord ==
    ASSUME NEW c \in CU, NEW a \in Addr
    PROVE  /\ LoadValue(c, a) = IF InL1(c, a) THEN L1Word(c, a)
                                ELSE IF InL2(a) THEN L2Word(a) ELSE GlobalWord(a)
           /\ \A b \in Addr : b[1] = a[1] =>
                /\ InL1(c, b) = InL1(c, a) /\ InL2(b) = InL2(a)
                /\ LoadLine(c, a[1])[b[2]] = LoadValue(c, b)
  BY DEF LoadValue, LoadLine, InL1, InL2, L1Word, L2Word, GlobalWord

LEMMA OrderGivesNeverOlder ==
    ASSUME CachesInv, OrderInv
    PROVE  NeverOlder
<1> SUFFICES ASSUME NEW c \in CU, NEW a \in Addr PROVE LoadValue(c, a) >= seen[c][a]
  BY DEF NeverOlder
<1>1. OrderOf(c, a)
  BY DEF OrderInv
<1> QED BY <1>1, LoadedWord, WordTypes DEF OrderOf

LEMMA InitOrder == Init => OrderInv
<1> SUFFICES ASSUME Init, NEW c \in CU, NEW a \in Addr PROVE OrderOf(c, a)
  BY DEF OrderInv
<1>1. a[1] \in Line /\ a[2] \in Word /\ a[1] \in Nat
  BY AddrParts, Sizes
<1>2. ~ InL1(c, a) /\ ~ InL2(a)
  BY <1>1, Sizes, ResetEmpty DEF Init, InL1, InL2
<1>3. seen[c][a] = 0 /\ GlobalWord(a) = 0 /\ writes = 0
  BY <1>1 DEF Init, GlobalWord
<1> QED BY <1>2, <1>3 DEF OrderOf

\* A load changes what b has where: the tiers it fills hold the line it read.
LEMMA LoadWords ==
    ASSUME CachesInv, NEW c \in CU, NEW a \in Addr, Load(c, a), NEW d \in CU, NEW b \in Addr
    PROVE  /\ GlobalWord(b)' = GlobalWord(b) /\ writes' = writes
           /\ InL1(d, b)' => \/ InL1(d, b) /\ L1Word(d, b)' = L1Word(d, b)
                             \/ /\ d = c /\ b[1] = a[1] /\ ~ InL1(c, b)
                                /\ L1Word(d, b)' = LoadValue(c, b)
           /\ InL2(b)' => \/ InL2(b) /\ L2Word(b)' = L2Word(b)
                          \/ ~ InL2(b) /\ L2Word(b)' = GlobalWord(b)
           /\ d = c /\ b[1] = a[1] /\ ~ InL1(c, b) => InL2(b)' /\ L2Word(b)' = LoadValue(c, b)
           /\ seen'[d][b] = IF d = c /\ b = a THEN Max2(seen[c][a], LoadValue(c, a))
                            ELSE seen[d][b]
<1>1. a[1] \in Line /\ b[1] \in Line /\ b[2] \in Word /\ LoadWord(c, a[1])
  BY AddrParts DEF Load
<1>2. /\ \A e \in CU : e # c => l1_caches'[e] = l1_caches[e]
      /\ Hit(L1, l1_caches[c], a[1]) => l1_caches'[c] = l1_caches[c]
      /\ ~ Hit(L1, l1_caches[c], a[1]) =>
           FillsLine(L1, l1_caches'[c], Value, Line, l1_caches[c], a[1], LoadLine(c, a[1]))
      /\ Hit(L1, l1_caches[c], a[1]) \/ Hit(L2, l2_cache, a[1]) => l2_cache' = l2_cache
      /\ ~ Hit(L1, l1_caches[c], a[1]) /\ ~ Hit(L2, l2_cache, a[1]) =>
           FillsLine(L2, l2_cache', Value, Line, l2_cache, a[1], global_mem[a[1]])
  BY <1>1, LoadTiers
<1>3. GlobalWord(b)' = GlobalWord(b) /\ writes' = writes
  BY DEF Load, LoadWord, GlobalWord
<1>4. ASSUME InL1(d, b)'
      PROVE  \/ InL1(d, b) /\ L1Word(d, b)' = L1Word(d, b)
             \/ /\ d = c /\ b[1] = a[1] /\ ~ InL1(c, b)
                /\ L1Word(d, b)' = LoadValue(c, b)
  <2>1. CASE d # c \/ Hit(L1, l1_caches[c], a[1])
    BY <1>2, <1>4, <2>1 DEF InL1, L1Word
  <2>2. CASE d = c /\ ~ Hit(L1, l1_caches[c], a[1]) /\ b[1] = a[1]
    <3>1. L1Word(d, b)' = LoadLine(c, a[1])[b[2]]
      BY <1>2, <2>2 DEF FillsLine, L1Word
    <3> QED BY <2>2, <3>1, LoadedWord DEF InL1
  <2>3. CASE d = c /\ ~ Hit(L1, l1_caches[c], a[1]) /\ b[1] # a[1]
    BY <1>1, <1>2, <1>4, <2>3 DEF FillsLine, L1Word, InL1
  <2> QED BY <2>1, <2>2, <2>3
<1>5. ASSUME InL2(b)'
      PROVE  \/ InL2(b) /\ L2Word(b)' = L2Word(b)
             \/ ~ InL2(b) /\ L2Word(b)' = GlobalWord(b)
  <2>1. CASE Hit(L1, l1_caches[c], a[1]) \/ Hit(L2, l2_cache, a[1])
    BY <1>2, <1>5, <2>1 DEF InL2, L2Word
  <2>2. CASE ~ Hit(L1, l1_caches[c], a[1]) /\ ~ Hit(L2, l2_cache, a[1]) /\ b[1] = a[1]
    BY <1>2, <2>2 DEF FillsLine, L2Word, InL2, GlobalWord
  <2>3. CASE ~ Hit(L1, l1_caches[c], a[1]) /\ ~ Hit(L2, l2_cache, a[1]) /\ b[1] # a[1]
    BY <1>1, <1>2, <1>5, <2>3 DEF FillsLine, L2Word, InL2
  <2> QED BY <2>1, <2>2, <2>3
<1>6. ASSUME b[1] = a[1], ~ InL1(c, b)
      PROVE  InL2(b)' /\ L2Word(b)' = LoadValue(c, b)
  <2>1. CASE Hit(L2, l2_cache, a[1])
    <3>1. l2_cache' = l2_cache
      BY <1>2, <2>1
    <3>2. InL2(b) /\ LoadValue(c, b) = L2Word(b)
      BY <1>6, <2>1, LoadedWord DEF InL2
    <3> QED BY <3>1, <3>2 DEF InL2, L2Word
  <2>2. CASE ~ Hit(L2, l2_cache, a[1])
    <3>1. InL2(b)' /\ L2Word(b)' = GlobalWord(b)
      BY <1>2, <1>6, <2>2 DEF InL1, InL2, L2Word, GlobalWord, FillsLine
    <3>2. LoadValue(c, b) = GlobalWord(b)
      BY <1>6, <2>2, LoadedWord DEF InL2
    <3> QED BY <3>1, <3>2
  <2> QED BY <2>1, <2>2
<1>7. seen'[d][b] = IF d = c /\ b = a THEN Max2(seen[c][a], LoadValue(c, a)) ELSE seen[d][b]
  BY DEF Load, CachesInv, TypeOK
<1> QED BY <1>3, <1>4, <1>5, <1>6, <1>7

LEMMA LoadOrder ==
    ASSUME CachesInv, OrderInv, NEW c \in CU, NEW a \in Addr, Load(c, a)
    PROVE  OrderInv'
<1> SUFFICES ASSUME NEW d \in CU, NEW b \in Addr PROVE OrderOf(d, b)'
  BY DEF OrderInv
<1>1. OrderOf(d, b) /\ OrderOf(c, b)
  BY DEF OrderInv
<1>2. /\ GlobalWord(b)' = GlobalWord(b) /\ writes' = writes
      /\ InL1(d, b)' => \/ InL1(d, b) /\ L1Word(d, b)' = L1Word(d, b)
                        \/ /\ d = c /\ b[1] = a[1] /\ ~ InL1(c, b)
                           /\ L1Word(d, b)' = LoadValue(c, b)
      /\ InL2(b)' => \/ InL2(b) /\ L2Word(b)' = L2Word(b)
                     \/ ~ InL2(b) /\ L2Word(b)' = GlobalWord(b)
      /\ d = c /\ b[1] = a[1] /\ ~ InL1(c, b) => InL2(b)' /\ L2Word(b)' = LoadValue(c, b)
      /\ seen'[d][b] = IF d = c /\ b = a THEN Max2(seen[c][a], LoadValue(c, a))
                       ELSE seen[d][b]
  BY LoadWords
<1>3. LoadValue(c, b) = IF InL1(c, b) THEN L1Word(c, b)
                        ELSE IF InL2(b) THEN L2Word(b) ELSE GlobalWord(b)
  BY LoadedWord
<1>4. /\ GlobalWord(b) \in Nat /\ seen[d][b] \in Nat /\ seen[c][b] \in Nat /\ writes \in Nat
      /\ InL1(d, b) => L1Word(d, b) \in Nat
      /\ InL1(c, b) => L1Word(c, b) \in Nat
      /\ InL2(b) => L2Word(b) \in Nat
  BY WordTypes
<1>5. LoadValue(c, b) \in Nat /\ LoadValue(c, b) >= seen[c][b] /\ LoadValue(c, b) <= GlobalWord(b)
  BY <1>1, <1>3, <1>4 DEF OrderOf
<1>6. seen'[d][b] \in Nat /\ (d = c /\ b = a => seen'[d][b] = LoadValue(c, b))
      /\ (d # c \/ b # a => seen'[d][b] = seen[d][b])
  BY <1>2, <1>4, <1>5 DEF Max2
<1>7. seen'[d][b] <= GlobalWord(b)' /\ GlobalWord(b)' <= writes'
  BY <1>1, <1>2, <1>4, <1>5, <1>6 DEF OrderOf
<1>8. InL2(b)' => seen'[d][b] <= L2Word(b)' /\ L2Word(b)' <= GlobalWord(b)'
  BY <1>1, <1>2, <1>3, <1>4, <1>5, <1>6, <1>7 DEF OrderOf
<1>9. InL1(d, b)' => seen'[d][b] <= L1Word(d, b)' /\ L1Word(d, b)' <= GlobalWord(b)'
  BY <1>1, <1>2, <1>3, <1>4, <1>5, <1>6, <1>7 DEF OrderOf
<1>10. InL1(d, b)' /\ InL2(b)' => L1Word(d, b)' <= L2Word(b)'
  BY <1>1, <1>2, <1>3, <1>4, <1>5, <1>6, <1>7 DEF OrderOf
<1> QED BY <1>7, <1>8, <1>9, <1>10 DEF OrderOf

\* A store writes the word in every tier that holds it and in global memory.
LEMMA StoreWords ==
    ASSUME CachesInv, NEW c \in CU, NEW a \in Addr, Store(c, a), NEW d \in CU, NEW b \in Addr
    PROVE  /\ GlobalWord(b)' = IF b = a THEN writes' ELSE GlobalWord(b)
           /\ InL1(d, b)' => /\ InL1(d, b)
                             /\ L1Word(d, b)' = IF d = c /\ b = a THEN writes' ELSE L1Word(d, b)
           /\ InL2(b)' => InL2(b) /\ L2Word(b)' = IF b = a THEN writes' ELSE L2Word(b)
           /\ seen'[d][b] = IF d = c /\ b = a THEN writes' ELSE seen[d][b]
<1>1. /\ a[1] \in Line /\ a[2] \in Word /\ b[1] \in Line /\ b[2] \in Word
      /\ (b[1] = a[1] /\ b[2] = a[2] => b = a)
  BY AddrParts
<1>2. StoreWord(c, a[1], a[2], writes') /\ writes' \in Value
  <2>1. StoreWord(c, a[1], a[2], writes')
    BY DEF Store
  <2>2. writes' \in Value
    BY MemoryAssumption DEF Store, CachesInv, TypeOK, Value
  <2> QED BY <2>1, <2>2
<1>3. GlobalWord(b)' = IF b = a THEN writes' ELSE GlobalWord(b)
  <2>1. global_mem \in [Line -> [Word -> Value]]
        /\ global_mem' = [global_mem EXCEPT ![a[1]][a[2]] = writes']
    BY <1>2 DEF StoreWord, CachesInv, TypeOK
  <2>2. CASE b = a
    BY <1>1, <2>1, <2>2 DEF GlobalWord
  <2>3. CASE b # a
    BY <1>1, <2>1, <2>3 DEF GlobalWord
  <2> QED BY <2>2, <2>3
<1>4. ASSUME InL1(d, b)'
      PROVE  /\ InL1(d, b)
             /\ L1Word(d, b)' = IF d = c /\ b = a THEN writes' ELSE L1Word(d, b)
  <2>1. CASE d # c
    <3>1. l1_caches'[d] = l1_caches[d]
      BY <1>1, <1>2, <2>1, StoreTiers
    <3> QED BY <1>4, <2>1, <3>1 DEF InL1, L1Word
  <2>2. CASE d = c
    <3>1. WritesWord(L1, l1_caches'[c], Value, Line, l1_caches[c], a[1], a[2], writes')
      BY <1>1, <1>2, StoreTiers
    <3> QED BY <1>1, <1>4, <2>2, <3>1, Sizes DEF InL1, L1Word, WritesWord
  <2> QED BY <2>1, <2>2
<1>5. ASSUME InL2(b)'
      PROVE  InL2(b) /\ L2Word(b)' = IF b = a THEN writes' ELSE L2Word(b)
  <2>1. WritesWord(L2, l2_cache', Value, Line, l2_cache, a[1], a[2], writes')
    BY <1>1, <1>2, StoreTiers
  <2> QED BY <1>1, <1>5, <2>1, Sizes DEF InL2, L2Word, WritesWord
<1>6. seen'[d][b] = IF d = c /\ b = a THEN writes' ELSE seen[d][b]
  BY DEF Store, CachesInv, TypeOK
<1> QED BY <1>3, <1>4, <1>5, <1>6

LEMMA StoreOrder ==
    ASSUME CachesInv, OrderInv, NEW c \in CU, NEW a \in Addr, Store(c, a)
    PROVE  OrderInv'
<1> SUFFICES ASSUME NEW d \in CU, NEW b \in Addr PROVE OrderOf(d, b)'
  BY DEF OrderInv
<1>1. OrderOf(d, b) /\ writes' = writes + 1
  BY DEF OrderInv, Store
<1>2. /\ GlobalWord(b)' = IF b = a THEN writes' ELSE GlobalWord(b)
      /\ InL1(d, b)' => /\ InL1(d, b)
                        /\ L1Word(d, b)' = IF d = c /\ b = a THEN writes' ELSE L1Word(d, b)
      /\ InL2(b)' => InL2(b) /\ L2Word(b)' = IF b = a THEN writes' ELSE L2Word(b)
      /\ seen'[d][b] = IF d = c /\ b = a THEN writes' ELSE seen[d][b]
  BY StoreWords
<1>3. /\ GlobalWord(b) \in Nat /\ seen[d][b] \in Nat /\ writes \in Nat
      /\ InL1(d, b) => L1Word(d, b) \in Nat
      /\ InL2(b) => L2Word(b) \in Nat
  BY WordTypes
<1> QED BY <1>1, <1>2, <1>3 DEF OrderOf

\* DMA reaches global memory alone, which only grows newer.
LEMMA HostWriteOrder ==
    ASSUME CachesInv, OrderInv, NEW a \in Addr, HostWrite(a)
    PROVE  OrderInv'
<1> SUFFICES ASSUME NEW d \in CU, NEW b \in Addr PROVE OrderOf(d, b)'
  BY DEF OrderInv
<1>1. OrderOf(d, b) /\ writes' = writes + 1
  BY DEF OrderInv, HostWrite
<1>2. GlobalWord(b)' = IF b = a THEN writes' ELSE GlobalWord(b)
  <2>1. /\ a[1] \in Line /\ a[2] \in Word /\ b[1] \in Line /\ b[2] \in Word
        /\ (b[1] = a[1] /\ b[2] = a[2] => b = a)
    BY AddrParts
  <2>2. global_mem \in [Line -> [Word -> Value]]
        /\ global_mem' = [global_mem EXCEPT ![a[1]][a[2]] = writes']
    BY DEF HostWrite, CachesInv, TypeOK
  <2>3. CASE b = a
    BY <2>1, <2>2, <2>3 DEF GlobalWord
  <2>4. CASE b # a
    BY <2>1, <2>2, <2>4 DEF GlobalWord
  <2> QED BY <2>3, <2>4
<1>3. /\ InL1(d, b)' = InL1(d, b) /\ L1Word(d, b)' = L1Word(d, b)
      /\ InL2(b)' = InL2(b) /\ L2Word(b)' = L2Word(b) /\ seen'[d][b] = seen[d][b]
  BY DEF HostWrite, InL1, L1Word, InL2, L2Word
<1>4. /\ GlobalWord(b) \in Nat /\ seen[d][b] \in Nat /\ writes \in Nat
      /\ InL1(d, b) => L1Word(d, b) \in Nat
      /\ InL2(b) => L2Word(b) \in Nat
  BY WordTypes
<1> QED BY <1>1, <1>2, <1>3, <1>4 DEF OrderOf

LEMMA NextOrder == CachesInv /\ OrderInv /\ [Next]_vars => OrderInv'
<1> SUFFICES ASSUME CachesInv, OrderInv, [Next]_vars PROVE OrderInv'
  OBVIOUS
<1>1. CASE UNCHANGED vars
  BY <1>1 DEF vars, OrderInv, OrderOf, InL1, InL2, L1Word, L2Word, GlobalWord
<1> QED BY <1>1, LoadOrder, StoreOrder, HostWriteOrder DEF Next

\* No compute unit ever loads a word older than one it has loaded or stored,
\* for every cache geometry and every interleaving of loads, stores and DMA:
\* loadWord() fills L1 from what L2 then holds, and storeWord() writes every
\* tier that holds the word (memory_pipeline.h).
THEOREM NeverOlderProof == Spec => []NeverOlder
<1>1. Init => CachesInv /\ OrderInv
  BY InitCaches, InitOrder
<1>2. CachesInv /\ OrderInv /\ [Next]_vars => CachesInv' /\ OrderInv'
  BY NextCaches, NextOrder
<1>3. CachesInv /\ OrderInv => NeverOlder
  BY OrderGivesNeverOlder
<1> QED BY <1>1, <1>2, <1>3, PTL DEF Spec
-----------------------------------------------------------------------------
(***************************************************************************)
(* ReadbackParity                                                          *)
(***************************************************************************)
LEMMA InitParity == Init => ParityInv
<1> SUFFICES ASSUME Init, NEW a \in Addr PROVE ParityOf(a)
  BY DEF ParityInv
<1>1. a[1] \in Line /\ a[2] \in Word
  BY AddrParts
<1>2. GlobalWord(a) = 0 /\ golden_global[a] = 0
  BY <1>1 DEF Init, GlobalWord
<1>3. a \notin DOMAIN golden_l1 /\ a \notin DOMAIN golden_l2
  BY DEF Init
<1> QED BY <1>2, <1>3 DEF ParityOf

LEMMA LoadParity ==
    ASSUME CachesInv, ParityInv, NEW c \in CU, NEW a \in Addr, Load(c, a)
    PROVE  ParityInv'
<1> SUFFICES ASSUME NEW b \in Addr PROVE ParityOf(b)'
  BY DEF ParityInv
<1>1. ParityOf(b) /\ GoldenLoadValue(a) = golden_global[a]
  BY DEF ParityInv, ParityOf, GoldenLoadValue
<1>2. GlobalWord(b)' = GlobalWord(b) /\ golden_global' = golden_global
  BY DEF Load, LoadWord, GoldenLoadWord, GlobalWord
<1>3. /\ golden_l1' = Put(golden_l1, a, golden_global[a])
      /\ golden_l2' = golden_l2 \/ golden_l2' = Put(golden_l2, a, golden_global[a])
  BY <1>1 DEF Load, GoldenLoadWord
<1> QED BY <1>1, <1>2, <1>3 DEF ParityOf, Put

LEMMA WriteParity ==
    ASSUME CachesInv, ParityInv, NEW a \in Addr, NEW v,
           global_mem' = [global_mem EXCEPT ![a[1]][a[2]] = v],
           GoldenStoreWord(a, v) \/ GoldenWriteBytes(a, v)
    PROVE  ParityInv'
<1> SUFFICES ASSUME NEW b \in Addr PROVE ParityOf(b)'
  BY DEF ParityInv
<1>1. ParityOf(b)
  BY DEF ParityInv
<1>2. GlobalWord(b)' = IF b = a THEN v ELSE GlobalWord(b)
  <2>1. /\ a[1] \in Line /\ a[2] \in Word /\ b[1] \in Line /\ b[2] \in Word
        /\ (b[1] = a[1] /\ b[2] = a[2] => b = a)
    BY AddrParts
  <2>2. global_mem \in [Line -> [Word -> Value]]
    BY DEF CachesInv, TypeOK
  <2>3. CASE b = a
    BY <2>1, <2>2, <2>3 DEF GlobalWord
  <2>4. CASE b # a
    BY <2>1, <2>2, <2>4 DEF GlobalWord
  <2> QED BY <2>3, <2>4
<1>3. golden_global'[b] = IF b = a THEN v ELSE golden_global[b]
  BY DEF GoldenStoreWord, GoldenWriteBytes, CachesInv, TypeOK
<1>4. CASE GoldenStoreWord(a, v)
  BY <1>1, <1>2, <1>3, <1>4 DEF GoldenStoreWord, PutIfPresent, Put, ParityOf
<1>5. CASE GoldenWriteBytes(a, v)
  BY <1>1, <1>2, <1>3, <1>5 DEF GoldenWriteBytes, Erase, ParityOf
<1> QED BY <1>4, <1>5

LEMMA NextParity == CachesInv /\ ParityInv /\ [Next]_vars => ParityInv'
<1> SUFFICES ASSUME CachesInv, ParityInv, [Next]_vars PROVE ParityInv'
  OBVIOUS
<1>1. CASE UNCHANGED vars
  BY <1>1 DEF vars, ParityInv, ParityOf, GlobalWord
<1>2. ASSUME NEW c \in CU, NEW a \in Addr, Store(c, a) PROVE ParityInv'
  BY <1>2, WriteParity DEF Store, StoreWord
<1>3. ASSUME NEW a \in Addr, HostWrite(a) PROVE ParityInv'
  BY <1>3, WriteParity DEF HostWrite
<1> QED BY <1>1, <1>2, <1>3, LoadParity DEF Next

\* What the host reads back from global memory is the golden result, for
\* every cache geometry: storeWord() writes through whatever the caches hold
\* (memory_pipeline.h), and the golden hierarchy never serves a stale word.
THEOREM ReadbackParityProof == Spec => []ReadbackParity
<1>1. Init => CachesInv /\ ParityInv
  BY InitCaches, InitParity
<1>2. CachesInv /\ ParityInv /\ [Next]_vars => CachesInv' /\ ParityInv'
  BY NextCaches, NextParity
<1>3. ParityInv => ReadbackParity
  BY DEF ParityInv, ParityOf, ReadbackParity, GoldenLoadValue, GlobalWord
<1> QED BY <1>1, <1>2, <1>3, PTL DEF Spec
=============================================================================
