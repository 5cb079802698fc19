----------------------------- MODULE IdRegistry -----------------------------
(***************************************************************************)
(* What the id allocator promises (identifiers.ts:12-25): papers get the     *)
(* next sequence number of their (subject, year) counter, once, and the      *)
(* number and the counter move together.                                     *)
(***************************************************************************)
EXTENDS Naturals

CONSTANTS
    Papers,     \* rows of papers
    Counters,   \* rows of id_counters: (subject, year) pairs
    CounterOf   \* primary category and year of creation of a paper

ASSUME RegistryAssumption == CounterOf \in [Papers -> Counters]

VARIABLES
    id,         \* sequence number of a paper's id, 0 for none
    counter     \* last number given out by a counter

regVars == <<id, counter>>

RegInit ==
    /\ id = [p \in Papers |-> 0]
    /\ counter = [c \in Counters |-> 0]

Assign(p) ==
    LET c == CounterOf[p] IN
    /\ id[p] = 0
    /\ counter' = [counter EXCEPT ![c] = @ + 1]
    /\ id' = [id EXCEPT ![p] = counter[c] + 1]

RegNext == \E p \in Papers : Assign(p)

RegSpec == RegInit /\ [][RegNext]_regVars

RegTypeOK ==
    /\ id \in [Papers -> Nat]
    /\ counter \in [Counters -> Nat]

\* No two papers of a counter share a number.
IdsUnique ==
    \A p, q \in Papers :
        id[p] # 0 /\ id[p] = id[q] /\ CounterOf[p] = CounterOf[q] => p = q

\* The numbers given out are exactly those up to the counter: no gap, and no
\* number the counter has not reached.
IdsGapless ==
    /\ \A p \in Papers : id[p] <= counter[CounterOf[p]]
    /\ \A c \in Counters : \A n \in 1..counter[c] :
            \E p \in Papers : CounterOf[p] = c /\ id[p] = n
=============================================================================
