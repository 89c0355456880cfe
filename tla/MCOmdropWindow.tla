--------------------------- MODULE MCOmdropWindow ---------------------------
(* OmdropWindow for TLC: the runs of on, and of off, are interchangeable.    *)
(* States that differ in what a finished `on` left in its variables, or in    *)
(* the value of the counter and not in who is current, have the same          *)
(* behaviours; so have those that differ in which finished `on` was overtaken. *)
EXTENDS OmdropWindow, TLC

Symmetry == Permutations(Ons) \cup Permutations(Offs)

Local(p) ==
  IF pc[p] \in {"idle", "refused", "done"} THEN <<>>
  ELSE <<mySeq[p] = seq, shape[p], undo[p]>>

\* Where off may fail and windows may be opened again, no action reads `last` and
\* `orphan`, nor does a property of the run that has this view.
View ==
  <<window, lock, unitVars, pc, [p \in Ons |-> Local(p)],
    {p \in overtaken : pc[p] = "begun"},
    IF {"stop", "repeat"} \subseteq may THEN <<>> ELSE <<last, orphan>>, may>>
=============================================================================
