----------------------------- MODULE MCArchive -----------------------------
(* A small instance of Archive for TLC: two uploads, the second a single      *)
(* file whose name collides with the first's and with files already there.    *)
EXTENDS Archive

CONSTANTS u1, u2

\* A path that is cut down to "a.b", an AppleDouble file, a name that is too long.
Plain == Member(<<"/", ".", "a", "~", ".", "b">>, "file", 1)
Apple == Member(<<"d", "/", ".", "_", "a">>, "file", 1)
Long  == Member(<<"a", "a", "a", "a", "a", ".", "b">>, "file", 2)
Dots  == Member(<<" ", ".", ".">>, "file", 1)

TwoFiles == <<Tok("open"), Plain, Tok("data"), Plain, Tok("data"), Tok("trailer"), Tok("close")>>
Padded   == <<Tok("open"), Long, Tok("data"), Tok("trailer"), Tok("close"),
              Tok("open"), Tok("data"), Tok("close")>>
Spoiled  == <<Tok("open"), Apple, Tok("data"), Dots, Tok("data"), Apple, Tok("data")>>
OneFile  == <<Tok("open"), Plain, Tok("data"), Tok("trailer"), Tok("close")>>

Chunked(b) == [script |-> b, plan |-> "chunked", bursts |-> {1, 2}]

MCBodies == (u1 :> {Chunked(TwoFiles), Chunked(Padded), Chunked(Spoiled)})
            @@ (u2 :> {[script |-> OneFile, plan |-> "length", bursts |-> {5}],
                      [script |-> <<Tok("open"), Tok("garbage")>>, plan |-> "length", bursts |-> {2}]})

MCNumeral  == [k \in 1..Candidates |-> <<ToString(k)>>]
MCExisting == {<<"a", ".", "b">>}
=============================================================================
