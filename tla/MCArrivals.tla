----------------------------- MODULE MCArrivals -----------------------------
(* Arrivals for TLC: two photos in one upload, one of them with a comma in    *)
(* its name; a photo that decodes for ever; links that someone else may have   *)
(* put there, whose names are the other photo's up to the comma and after it;  *)
(* a line of the log that only looks like one; and a name that begins with a   *)
(* dot, which no arrival has.                                                  *)
EXTENDS Arrivals, TLC

MCNames == {<<"h">>, <<"a", "b">>, <<"s">>, <<"a">>, <<"b">>, <<"d">>}

MCRecords ==
  {[kind |-> "stored", names |-> <<<<"h">>, <<"a", "b">>>>],
   [kind |-> "stored", names |-> <<<<"d">>, <<"s">>>>],
   [kind |-> "other", names |-> <<<<"h">>>>]}

MCKind == [n \in MCNames |-> IF n \in {<<"a">>, <<"b">>, <<"d">>} THEN "link" ELSE "heif"]

MCSlow == {<<"s">>}

\* A piece that begins a name with a dot.
MCDotted == {"d"}
=============================================================================
