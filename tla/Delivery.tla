----------------------------- MODULE Delivery ------------------------------
(***************************************************************************)
(* What the receiver promises about a transfer, whatever its connections,  *)
(* threads and timeouts do: a transfer is let in by the visibility of that *)
(* moment or by what its sender proved on that connection, its content is  *)
(* stored only after that, and a sender is told "200" only of a transfer   *)
(* that is stored.                                                         *)
(***************************************************************************)
CONSTANTS Conns, Transfers     \* a transfer is <<connection, number>>

ConnOf(t) == t[1]

VARIABLES
    mode,       \* "everyone" or "contacts"
    proven,     \* connections whose sender proved to be a known contact
    open,       \* transfers let in and not settled yet
    stored,     \* transfers whose content is in the download directory
    told        \* transfers whose sender read a 200

dvars == <<mode, proven, open, stored, told>>

DInit == /\ mode \in {"everyone", "contacts"}
         /\ proven = {} /\ open = {} /\ stored = {} /\ told = {}

SetMode(m) == mode' = m /\ UNCHANGED <<proven, open, stored, told>>

Prove(c) == proven' = proven \union {c} /\ UNCHANGED <<mode, open, stored, told>>

\* A connection ends, and with it what its sender proved on it.
Leave(c) == proven' = proven \ {c} /\ open' = {t \in open : ConnOf(t) # c} /\ UNCHANGED <<mode, stored, told>>

LetIn(t) ==
    /\ t \notin open \union stored
    /\ mode = "everyone" \/ ConnOf(t) \in proven'
    /\ proven' \in {proven, proven \union {ConnOf(t)}}
    /\ open' = open \union {t}
    /\ UNCHANGED <<mode, stored, told>>

Store(t) ==
    /\ t \in open
    /\ stored' = stored \union {t} /\ open' = open \ {t}
    /\ UNCHANGED <<mode, proven, told>>

Refuse(t) ==
    /\ t \in open /\ open' = open \ {t}
    /\ UNCHANGED <<mode, proven, stored, told>>

Tell(t) ==
    /\ t \in stored /\ told' = told \union {t}
    /\ UNCHANGED <<mode, proven, open, stored>>

\* The receiver stops: what is open is lost, what is stored stays.
Stop == /\ open' = {} /\ proven' = {}
        /\ UNCHANGED <<mode, stored, told>>

DNext ==
    \/ \E m \in {"everyone", "contacts"} : SetMode(m)
    \/ \E c \in Conns : Prove(c) \/ Leave(c)
    \/ \E t \in Transfers : LetIn(t) \/ Store(t) \/ Refuse(t) \/ Tell(t)
    \/ Stop

DSpec == DInit /\ [][DNext]_dvars
=============================================================================
