----------------------------- MODULE MCTimeline -----------------------------
(* Constants for model checking Timeline. *)
EXTENDS Timeline, TLC
=============================================================================
