-------------------------- MODULE RefreshContract --------------------------
(***************************************************************************)
(* What a block promises to whoever looks at the bar, without saying how:  *)
(* the text of a block is never shown on more than a bounded number of     *)
(* lines, and never once after it was asked to be fetched anew.            *)
(***************************************************************************)
EXTENDS Naturals

CONSTANTS Block,    \* the blocks of the bar
          Periods   \* the numbers of lines a text may be shown on

VARIABLES period,   \* of each block, fixed by the configuration in use
          fetched,  \* the blocks that have a text
          age,      \* lines the text was shown on since its first
          asked     \* the blocks whose text is to be fetched anew

vars == <<period, fetched, age, asked>>

Init ==
    /\ period \in [Block -> Periods]
    /\ fetched = {}
    /\ age = [b \in Block |-> 0]
    /\ asked = {}

Ask(S) ==
    /\ asked' = asked \cup S
    /\ UNCHANGED <<period, fetched, age>>

ShowNew(b) ==
    /\ fetched' = fetched \cup {b}
    /\ age' = [age EXCEPT ![b] = 0]
    /\ asked' = asked \ {b}
    /\ UNCHANGED period

ShowAgain(b) ==
    /\ b \in fetched \ asked
    /\ age[b] + 1 < period[b]
    /\ age' = [age EXCEPT ![b] = @ + 1]
    /\ UNCHANGED <<period, fetched, asked>>

(* A configuration is read: whatever was shown is forgotten. *)
Restart ==
    /\ period' \in [Block -> Periods]
    /\ fetched' = {}
    /\ age' = [b \in Block |-> 0]
    /\ asked' = {}

Next ==
    \/ \E S \in SUBSET Block : Ask(S)
    \/ \E b \in Block : ShowNew(b) \/ ShowAgain(b)
    \/ Restart

Spec == Init /\ [][Next]_vars
=============================================================================
