------------------------------ MODULE CacheBank ------------------------------
(***************************************************************************)
(* SetAssocCache (hls/src/memory/cache_bank.h): one tier of the cache as a *)
(* value, and the operations of the class as operators on it.              *)
(*                                                                         *)
(* A word address is a line number and a word in that line; setIndex() and *)
(* tagOf() split the line number, whose bits lie above LINE_OFFSET_BITS.   *)
(* The tag and the data of a way that is not valid are never read.         *)
(* Parameter t is the tier: how many ways and sets its template has.       *)
(***************************************************************************)
EXTENDS Naturals

CONSTANT WORDS_PER_LINE

Way(t) == 0 .. t.ways - 1
Set(t) == 0 .. t.sets - 1
Word == 0 .. WORDS_PER_LINE - 1

Bank(t, values) ==
    [valid : [Way(t) -> [Set(t) -> BOOLEAN]],
     tag : [Way(t) -> [Set(t) -> Nat]],
     data : [Way(t) -> [Set(t) -> [Word -> values]]],
     next_victim : [Set(t) -> Way(t)]]

Reset(t) ==
    [valid |-> [w \in Way(t) |-> [s \in Set(t) |-> FALSE]],
     tag |-> [w \in Way(t) |-> [s \in Set(t) |-> 0]],
     data |-> [w \in Way(t) |-> [s \in Set(t) |-> [i \in Word |-> 0]]],
     next_victim |-> [s \in Set(t) |-> 0]]

SetIndex(t, line) == line % t.sets

TagOf(t, line) == line \div t.sets

\* The ways on which lookup() hits.
HitWays(t, bank, line) ==
    {w \in Way(t) : /\ bank.valid[w][SetIndex(t, line)]
                    /\ bank.tag[w][SetIndex(t, line)] = TagOf(t, line)}

Hit(t, bank, line) == HitWays(t, bank, line) # {}

\* lookup() keeps the last way that hits.
HitWay(t, bank, line) ==
    CHOOSE w \in HitWays(t, bank, line) : \A v \in HitWays(t, bank, line) : v <= w

ReadLine(t, bank, line) == bank.data[HitWay(t, bank, line)][SetIndex(t, line)]

WriteWord(t, bank, line, word, value) ==
    [bank EXCEPT !.data[HitWay(t, bank, line)][SetIndex(t, line)][word] = value]

\* storeWord()'s use of the tier: a line that is not resident is not allocated.
WriteIfHit(t, bank, line, word, value) ==
    IF Hit(t, bank, line) THEN WriteWord(t, bank, line, word, value) ELSE bank

FillLine(t, bank, line, words) ==
    LET s == SetIndex(t, line)
        victim == bank.next_victim[s]
    IN  [valid |-> [bank.valid EXCEPT ![victim][s] = TRUE],
         tag |-> [bank.tag EXCEPT ![victim][s] = TagOf(t, line)],
         data |-> [bank.data EXCEPT ![victim][s] = words],
         next_victim |-> [bank.next_victim EXCEPT
                            ![s] = IF victim = t.ways - 1 THEN 0 ELSE victim + 1]]

(***************************************************************************)
(* A line is resident in at most one way: lookup(), writeWord() and        *)
(* readLine() would otherwise see, and update, only one of its copies.     *)
(***************************************************************************)
LineInOneWay(t, bank, lines) ==
    \A line \in lines : \A v, w \in HitWays(t, bank, line) : v = w
=============================================================================
