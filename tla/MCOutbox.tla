------------------------------ MODULE MCOutbox ------------------------------
(* Constants for model checking Outbox. *)
EXTENDS Outbox, TLC

CONSTANTS t1, t2, t3

OneTab    == {t1}
TwoTabs   == {t1, t2}
ThreeTabs == {t1, t2, t3}
TabSymmetry == Permutations(Tab)
=============================================================================
