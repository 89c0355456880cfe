------------------------------ MODULE MCBrowse ------------------------------
(* Two receivers, of which the second may have no /Discover. *)
EXTENDS Browse

CONSTANTS d1, d2

MCTos    == {[kind |-> "any", id |-> <<d1, 0>>], [kind |-> "id", id |-> <<d1, 1>>],
             [kind |-> "name", id |-> <<d1, 0>>], [kind |-> "mac", id |-> <<d1, 0>>]}
MCMacTos == {[kind |-> "mac", id |-> <<d1, 0>>]}
=============================================================================
