---------------------------- MODULE MCRadioWindow ----------------------------
(* RadioWindow for TLC: the starts are interchangeable, and so are the stops. *)
EXTENDS RadioWindow, TLC

Symmetry == Permutations(Starts) \cup Permutations(Stops)
=============================================================================
