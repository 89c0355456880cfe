----------------------------- MODULE MCCliSend ------------------------------
(* A small instance of CliSend for TLC: two addresses, four rooms, and     *)
(* argument lists that reach every way Classify ends.                *)
EXTENDS CliSend, TLC

CONSTANTS a1, a2

\* Two devices of the same name; one that only contains it; another; one that gives
\* no name.
MCRooms == {[a \in {a1, a2} |-> "want"], (a1 :> "want") @@ (a2 :> "part"),
            (a1 :> "part") @@ (a2 :> "other"), (a1 :> "anon") @@ (a2 :> "part")}

MCArgLists == {<<"file">>, <<"url">>, <<"absent", "file">>, <<"file", "copy">>, <<"shortcut", "file">>}
=============================================================================
