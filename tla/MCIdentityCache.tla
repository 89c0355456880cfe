--------------------------- MODULE MCIdentityCache ---------------------------
(* IdentityCache for TLC: commands and items are interchangeable, and so are *)
(* identities.  States that differ in what a finished command left in its    *)
(* variables, or in the values of the counters and not in who is current,    *)
(* have the same behaviours.                                                 *)
EXTENDS IdentityCache, TLC

Symmetry == Permutations(Cmds) \cup Permutations(Items) \cup Permutations(Contents)

Local(p) ==
  IF pc[p] = "done" THEN <<"done">>
  ELSE <<pc[p], kind[p], then[p], mySeq[p] = seq, myGen[p] = gen, ref[p], got[p], present[p],
         sawMode[p]>>

View == <<mode, item, disk, window, fetchPid, lock, worldVars, killed, barred, adopted, torn,
          [p \in Cmds |-> Local(p)]>>
=============================================================================
