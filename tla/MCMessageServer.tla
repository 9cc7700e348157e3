--------------------------- MODULE MCMessageServer ---------------------------
(* Constants for model checking MessageServer. *)
EXTENDS MessageServer, TLC

CONSTANTS x1, x2, x3, x4, m1, m2, m3, u1, u2

ThreeCalls == {x1, x2, x3}
FourCalls  == {x1, x2, x3, x4}
OneAuthor  == [m \in Msg |-> u1]
\* Calls differ only in what they ask; messages nobody replies to, only in their names.
Symmetry   == Permutations(Call) \cup Permutations(Msg \ Root)
=============================================================================
