---------------------------- MODULE WindowTurns -----------------------------
(***************************************************************************)
(* What the identity lock and the counter `seq` promise about a window,      *)
(* whatever fails: commands take turns; only an `on` whose turn it is opens   *)
(* a window or brings a unit up; and an `on` that had asked for its identity   *)
(* when an `off` got its turn never gets one.                                  *)
(***************************************************************************)
CONSTANTS Ons, Closers,    \* the runs of `on` and of `off`
          None             \* nobody

VARIABLES
    holder,     \* whose turn it is
    asked,      \* the ons that ask for their identity, without the lock
    stale,      \* the ons that an off overtook
    window,     \* "none" or the identity of the window file
    units       \* what is up: the receiver, the radio, the timers, the watcher

tvars == <<holder, asked, stale, window, units>>

TInit == /\ holder = None /\ asked = {} /\ stale = {}
         /\ window = "none" /\ units = {}

Ask(p) ==
    /\ holder = None /\ p \notin asked \union stale
    /\ asked' = asked \union {p}
    /\ UNCHANGED <<holder, stale, window, units>>

\* Told that it was turned off, or for want of an identity.
GiveUp(p) ==
    /\ p \in asked /\ asked' = asked \ {p}
    /\ UNCHANGED <<holder, stale, window, units>>

\* An on gets its turn, with the window there is or with a new one.
Open(p) ==
    /\ holder = None /\ p \in asked \ stale
    /\ holder' = p /\ asked' = asked \ {p}
    /\ IF window = "none" THEN window' \in {"self-signed", "1password"} ELSE UNCHANGED window
    /\ UNCHANGED <<stale, units>>

\* An off gets its turn, and overtakes everyone who is asking.
Overtake(c) ==
    /\ holder = None
    /\ holder' = c /\ stale' = stale \union asked
    /\ UNCHANGED <<asked, window, units>>

\* The on whose turn it is brings units up, or takes them down again.
Work(p) ==
    /\ holder = p
    /\ units' \subseteq {"receiver", "radio", "window", "expiry", "watcher"}
    /\ UNCHANGED <<holder, asked, stale, window>>

\* Anything may end at any time.
Drop ==
    /\ units' \subseteq units
    /\ UNCHANGED <<holder, asked, stale, window>>

\* A turn ends, and maybe the window with it.  The last thing an on does in its
\* turn is to give the radio its time once more.
Leave ==
    /\ holder # None /\ holder' = None
    /\ window' \in {window, "none"}
    /\ units' \subseteq IF holder \in Ons THEN units \union {"radio"} ELSE units
    /\ UNCHANGED <<asked, stale>>

TNext ==
    \/ \E p \in Ons : Ask(p) \/ GiveUp(p) \/ Open(p) \/ Work(p)
    \/ \E c \in Closers : Overtake(c)
    \/ Drop \/ Leave

TSpec == TInit /\ [][TNext]_tvars
=============================================================================
