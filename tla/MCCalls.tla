------------------------------ MODULE MCCalls ------------------------------
EXTENDS Calls
CONSTANTS a, b, d1, d2
\* Two people, or one with two devices who is not answered.
OwnersHere == {[d \in Device |-> IF d = d1 THEN a ELSE p] : p \in {a, b}}
=============================================================================
