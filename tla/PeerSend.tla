------------------------------ MODULE PeerSend ------------------------------
(***************************************************************************)
(* One run of send-to-peer (omdrop-send/src/send_to_peer.rs, peer_env.rs): *)
(* its main thread, its name-lookup threads, its signal thread, and its    *)
(* two children, the BLE advertiser and airdrop-send (airdrop_send.rs,     *)
(* client.rs, http.rs), which asks a peer and uploads.                     *)
(*                                                                         *)
(* The room is open: which addresses the table lists, whether a knock is   *)
(* answered and what a peer replies is any choice at every step.  A peer   *)
(* is its address for the session (the MAC rotates: a new address is a new *)
(* peer), with the name it would give.  Module CliSend starts these runs.  *)
(***************************************************************************)
EXTENDS Naturals, FiniteSets

CONSTANTS
    Addrs,      \* addresses that may be heard
    NoAddr,     \* no --mac
    Own,        \* this machine's own address
    Rooms,      \* who may be around: the name each address would give
    Workers,    \* LOOKUP_WORKERS
    MaxEdits    \* how often the user changes the file that is being sent

ASSUME PeerSendConstants ==
    /\ IsFiniteSet(Addrs) /\ NoAddr \notin Addrs /\ Own \notin Addrs
    /\ Workers \in Nat \ {0} /\ MaxEdits \in Nat
    /\ Rooms \subseteq [Addrs -> {"want", "part", "other", "anon"}]

VARIABLES
    nameOf,     \* the name each address gives, as the wanted name sees it
    stp,        \* main thread of send-to-peer
    probe,      \* per address: its lookup thread
    answer,     \* per address: what its lookup came to
    out,        \* rows printed and not read yet
    sig,        \* the signal thread
    termed,     \* processes with a TERM to take: "stp", "snd"
    slot,       \* the WAKE slot holds the advertiser
    spid,       \* SENDER_PID is set
    adv,        \* the advertiser
    snd,        \* airdrop-send
    file,       \* the file being sent: its size now, edits so far
    asks,       \* per address: Asks that reached it
    delivered   \* addresses that have the whole transfer

lookupVars == <<probe, answer, out>>
sigVars    == <<sig, termed, slot, spid>>
peerVars   == <<file, asks, delivered>>
psVars     == <<nameOf, stp, lookupVars, sigVars, adv, snd, peerVars>>

\* The name as the wanted one sees it: equal to it, containing it, another one, or
\* none given.  "none" in answer: "(no response)".
Names   == {"want", "part", "other", "anon"}
Answers == Names \union {"none", "unasked"}

NoStp == [pc |-> "off", mode |-> "list", to |-> NoAddr, kind |-> "files", stream |-> FALSE,
          known |-> {}, ready |-> FALSE, then |-> "names", opened |-> FALSE, rc |-> 0]
NoSnd == [pc |-> "none", announced |-> 0, size |-> 0, retried |-> FALSE, rc |-> 0]

StpAlive == stp.pc \notin {"off", "gone"}
SndAlive == snd.pc \notin {"none", "over"}
AdvAlive == adv # "none"

PSInit ==
    /\ nameOf \in Rooms
    /\ stp = NoStp
    /\ probe = [a \in Addrs |-> "no"] /\ answer = [a \in Addrs |-> "unasked"] /\ out = {}
    /\ sig = "idle" /\ termed = {} /\ slot = FALSE /\ spid = FALSE
    /\ adv = "none" /\ snd = NoSnd
    /\ file = [size |-> 1, edits |-> 0]
    /\ asks = [a \in Addrs |-> 0] /\ delivered = {}

\* A new send-to-peer process, its signal thread installed before anything else.
Spawn(mode, to, kind, stream) ==
    /\ stp' = [NoStp EXCEPT !.pc = "peers", !.mode = mode, !.to = to, !.kind = kind, !.stream = stream]
    /\ probe' = [a \in Addrs |-> "no"] /\ answer' = [a \in Addrs |-> "unasked"] /\ out' = {}
    /\ sig' = "idle" /\ termed' = {} /\ slot' = FALSE /\ spid' = FALSE
    /\ snd' = NoSnd

\* The process ends; what it had in memory is of no further interest.
Exit(rc) == stp' = [NoStp EXCEPT !.pc = "gone", !.rc = rc, !.mode = stp.mode, !.to = stp.to, !.kind = stp.kind,
                               !.stream = stp.stream]

-----------------------------------------------------------------------------
(* The main thread. *)

\* What env.peers() may return: the table's addresses and the watcher's
\* registrations, without our own.
MergePeers(table, registered) == (table \union registered) \ {Own}
Heard == LET seen == SUBSET (Addrs \union {Own})
         IN  {MergePeers(table, registered) : table \in seen, registered \in seen}

\* env.peers(), then what each mode makes of it.  A helper that failed is not an
\* empty room.
ReadPeers ==
    /\ stp.pc = "peers"
    /\ \/ Exit(4) /\ UNCHANGED out
       \/ \E heard \in Heard :
             CASE stp.mode = "list" ->
                    /\ out' = {<<a, "unasked">> : a \in heard}
                    /\ Exit(IF heard = {} THEN 1 ELSE 0)
               [] stp.mode = "names" /\ heard = {} -> Exit(1) /\ UNCHANGED out
               [] stp.mode = "byname" \/ (stp.mode = "names" /\ heard # {}) ->
                    /\ stp' = [stp EXCEPT !.pc = "wake", !.then = "names", !.known = heard]
                    /\ UNCHANGED out
               [] stp.mode = "send" /\ stp.to \in heard ->
                    stp' = [stp EXCEPT !.pc = "listen"] /\ UNCHANGED out
               [] stp.mode = "send" /\ stp.to = NoAddr /\ Cardinality(heard) = 1 ->
                    /\ stp' = [stp EXCEPT !.pc = "listen", !.to = CHOOSE a \in heard : TRUE]
                    /\ UNCHANGED out
               [] OTHER -> Exit(2) /\ UNCHANGED out
    /\ UNCHANGED <<nameOf, probe, answer, sigVars, adv, snd, peerVars>>

\* wake(): no advertiser, --no-wake or a spawn that fails; or the child is started,
\* and only then put into the slot the signal thread looks at.
WakeSpawn ==
    /\ stp.pc = "wake"
    /\ \/ stp' = [stp EXCEPT !.pc = stp.then, !.ready = FALSE] /\ UNCHANGED adv
       \/ /\ ~AdvAlive
          /\ adv' = "starting"
          /\ stp' = [stp EXCEPT !.pc = "slot"]
    /\ UNCHANGED <<nameOf, lookupVars, sigVars, snd, peerVars>>

WakeStore ==
    /\ stp.pc = "slot"
    /\ slot' = TRUE /\ stp' = [stp EXCEPT !.pc = "ready"]
    /\ UNCHANGED <<nameOf, lookupVars, sig, termed, spid, adv, snd, peerVars>>

\* wake_start waits for START (the wake has a deadline from here on), FAILED or
\* WAKE_READY (the child stays, without one), or the child's end.
WakeReady ==
    /\ stp.pc = "ready"
    /\ \/ /\ adv = "up" /\ stp' = [stp EXCEPT !.pc = stp.then, !.ready = TRUE]
          /\ UNCHANGED slot
       \/ /\ AdvAlive /\ stp' = [stp EXCEPT !.pc = stp.then, !.ready = FALSE]
          /\ UNCHANGED slot
       \/ /\ ~AdvAlive \/ ~slot
          /\ stp' = [stp EXCEPT !.pc = stp.then, !.ready = FALSE]
          /\ slot' = FALSE
    /\ UNCHANGED <<nameOf, lookupVars, sig, termed, spid, adv, snd, peerVars>>

\* peer_names: one thread per address heard.
StartProbes ==
    /\ stp.pc = "names"
    /\ probe' = [a \in Addrs |-> IF a \in stp.known THEN "queued" ELSE "no"]
    /\ stp' = [stp EXCEPT !.pc = "naming", !.known = {}]
    /\ UNCHANGED <<nameOf, answer, out, sigVars, adv, snd, peerVars>>

\* Slots::acquire
ProbeStart(a) ==
    /\ StpAlive /\ probe[a] = "queued"
    /\ Cardinality({b \in Addrs : probe[b] = "asking"}) < Workers
    /\ probe' = [probe EXCEPT ![a] = "asking"]
    /\ UNCHANGED <<nameOf, stp, answer, out, sigVars, adv, snd, peerVars>>

\* peer_name: knocks, then /Discover as often as lookup_budget allows; the name it
\* gives, or none.
PeerName(a) == {nameOf[a], "none"}

\* discover_once answered or the attempts are over.  The answer reaches on_result,
\* and --stream prints the row at once.
ProbeEnd(a) ==
    /\ StpAlive /\ probe[a] = "asking"
    /\ probe' = [probe EXCEPT ![a] = "told"]
    /\ \E r \in PeerName(a) :
          /\ answer' = [answer EXCEPT ![a] = r]
          /\ out' = IF stp.mode = "names" /\ stp.stream THEN out \union {<<a, r>>} ELSE out
    /\ UNCHANGED <<nameOf, stp, sigVars, adv, snd, peerVars>>

\* Newcomers, while the wake lasts (it may be over at any time); only --list re-reads
\* the table.
Rescan ==
    /\ stp.pc = "naming" /\ stp.mode = "names" /\ stp.ready
    /\ \E heard \in Heard :
          /\ \E a \in heard : probe[a] = "no"
          /\ probe' = [a \in Addrs |-> IF a \in heard /\ probe[a] = "no" THEN "queued" ELSE probe[a]]
    /\ UNCHANGED <<nameOf, stp, answer, out, sigVars, adv, snd, peerVars>>

\* Every thread's answer is in (pending = 0).
NamesDone ==
    /\ stp.pc = "naming" /\ \A a \in Addrs : probe[a] \in {"no", "told"}
    /\ stp' = [stp EXCEPT !.pc = "drop", !.ready = FALSE]
    /\ UNCHANGED <<nameOf, lookupVars, sigVars, adv, snd, peerVars>>

\* --wait 0 or a port that is open; otherwise a wait behind a wake of its own.
Listen ==
    /\ stp.pc = "listen"
    /\ \/ stp' = [stp EXCEPT !.pc = "send"]
       \/ stp' = [stp EXCEPT !.pc = "wake", !.then = "wait"]
    /\ UNCHANGED <<nameOf, lookupVars, sigVars, adv, snd, peerVars>>

Wait ==
    /\ stp.pc = "wait"
    /\ \E o \in BOOLEAN : stp' = [stp EXCEPT !.pc = "drop", !.opened = o]
    /\ UNCHANGED <<nameOf, lookupVars, sigVars, adv, snd, peerVars>>

\* TERM, unless the child is gone.
Terminate == adv' = IF AdvAlive THEN "stopping" ELSE adv

\* Wake::drop and stop_wake_child: whoever takes the child out of the slot ends it.
DropWake ==
    /\ stp.pc = "drop"
    /\ IF slot THEN slot' = FALSE /\ Terminate /\ stp' = [stp EXCEPT !.pc = "reapwake"]
       ELSE UNCHANGED <<slot, adv>> /\ stp' = [stp EXCEPT !.pc = "dropped"]
    /\ UNCHANGED <<nameOf, lookupVars, sig, termed, spid, snd, peerVars>>

\* terminate: reaped, or killed after five seconds.
ReapWake ==
    /\ stp.pc = "reapwake" /\ adv' = "none" /\ stp' = [stp EXCEPT !.pc = "dropped"]
    /\ UNCHANGED <<nameOf, lookupVars, sigVars, snd, peerVars>>

\* What follows a lookup or a wait.  A name given to --mac must be one device's.
AfterWake ==
    /\ stp.pc = "dropped"
    /\ LET matches == {a \in Addrs : answer[a] \in {"want", "part"}} IN
       CASE stp.then = "wait" ->
              /\ IF stp.opened THEN stp' = [stp EXCEPT !.pc = "send"] ELSE Exit(3)
              /\ UNCHANGED out
         [] stp.then = "names" /\ stp.mode = "names" ->
              /\ Exit(0)
              /\ out' = IF stp.stream THEN out
                        ELSE {<<a, IF answer[a] = "unasked" THEN "none" ELSE answer[a]>> :
                                  a \in {b \in Addrs : probe[b] # "no"}}
         [] OTHER ->
              /\ IF Cardinality(matches) = 1
                 THEN stp' = [stp EXCEPT !.pc = "listen", !.to = CHOOSE a \in matches : TRUE]
                 ELSE Exit(2)
              /\ UNCHANGED out
    /\ UNCHANGED <<nameOf, probe, answer, sigVars, adv, snd, peerVars>>

\* run_sender: the child is started, then its pid stored, then it is waited for.
SpawnSender ==
    /\ stp.pc = "send"
    /\ \/ Exit(1) /\ UNCHANGED snd
       \/ stp' = [stp EXCEPT !.pc = "store"] /\ snd' = [NoSnd EXCEPT !.pc = "open"]
    /\ UNCHANGED <<nameOf, lookupVars, sigVars, adv, peerVars>>

StorePid ==
    /\ stp.pc = "store" /\ spid' = TRUE /\ stp' = [stp EXCEPT !.pc = "reap"]
    /\ UNCHANGED <<nameOf, lookupVars, sig, termed, slot, adv, snd, peerVars>>

Reap ==
    /\ stp.pc = "reap" /\ snd.pc = "over" /\ spid' = FALSE /\ Exit(snd.rc)
    /\ UNCHANGED <<nameOf, lookupVars, sig, termed, slot, adv, snd, peerVars>>

-----------------------------------------------------------------------------
(* The signal thread, and the advertiser. *)

SigTake ==
    /\ StpAlive /\ "stp" \in termed /\ sig = "idle"
    /\ sig' = "wake" /\ termed' = termed \ {"stp"}
    /\ UNCHANGED <<nameOf, stp, lookupVars, slot, spid, adv, snd, peerVars>>

SigWake ==
    /\ StpAlive /\ sig = "wake"
    /\ IF slot THEN slot' = FALSE /\ Terminate /\ sig' = "reapwake"
       ELSE UNCHANGED <<slot, adv>> /\ sig' = "sender"
    /\ UNCHANGED <<nameOf, stp, lookupVars, termed, spid, snd, peerVars>>

SigReapWake ==
    /\ StpAlive /\ sig = "reapwake" /\ adv' = "none" /\ sig' = "sender"
    /\ UNCHANGED <<nameOf, stp, lookupVars, termed, slot, spid, snd, peerVars>>

SigSender ==
    /\ StpAlive /\ sig = "sender" /\ sig' = "exit"
    /\ termed' = IF spid /\ SndAlive THEN termed \union {"snd"} ELSE termed
    /\ UNCHANGED <<nameOf, stp, lookupVars, slot, spid, adv, snd, peerVars>>

SigExit ==
    /\ StpAlive /\ sig = "exit" /\ Exit(143)
    /\ UNCHANGED <<nameOf, lookupVars, sigVars, adv, snd, peerVars>>

AdvRegister ==
    /\ adv = "starting" /\ adv' = "up"
    /\ UNCHANGED <<nameOf, stp, lookupVars, sigVars, snd, peerVars>>

\* Its --seconds are over, it failed, or it took its TERM.
AdvExit ==
    /\ AdvAlive /\ adv' = "none"
    /\ UNCHANGED <<nameOf, stp, lookupVars, sigVars, snd, peerVars>>

-----------------------------------------------------------------------------
(* airdrop-send --direct. *)

Over(rc)  == snd' = [snd EXCEPT !.pc = "over", !.rc = rc]
Peer      == stp.to
sndElse   == <<nameOf, stp, lookupVars, sigVars, adv, file>>

\* Outgoing::new: the file is opened here, once, and the Ask announces its size.
Outgoing == [snd EXCEPT !.announced = file.size]

\* parse_options
SndOptions ==
    /\ snd.pc = "open"
    /\ \/ Over(2)
       \/ snd' = [Outgoing EXCEPT !.pc = "identity"]
    /\ UNCHANGED <<sndElse, asks, delivered>>

\* service_id, resolve_identity, sender_from_identity
SndOpen ==
    /\ snd.pc = "identity"
    /\ \/ Over(1)
       \/ snd' = [snd EXCEPT !.pc = "discover"]
    /\ UNCHANGED <<sndElse, asks, delivered>>

\* /Discover, tried once more when the peer dropped the connection.
SndDiscover ==
    /\ snd.pc = "discover"
    /\ \/ snd' = [snd EXCEPT !.pc = "connect"]
       \/ ~snd.retried /\ snd' = [snd EXCEPT !.retried = TRUE]
       \/ Over(2)
    /\ UNCHANGED <<sndElse, asks, delivered>>

\* reconnect: a connection of the Ask's own.
SndConnect ==
    /\ snd.pc = "connect"
    /\ Over(3) \/ snd' = [snd EXCEPT !.pc = "ask"]
    /\ UNCHANGED <<sndElse, asks, delivered>>

SndAsk ==
    /\ snd.pc = "ask"
    /\ asks' = [asks EXCEPT ![Peer] = @ + 1]
    /\ snd' = [snd EXCEPT !.pc = "asked"]
    /\ UNCHANGED <<sndElse, delivered>>

\* Declined, or no answer (the peer may have accepted); accepted: for a link that is
\* the delivery.
SndAnswered ==
    /\ snd.pc = "asked"
    /\ \/ Over(3) /\ delivered' \in {delivered, IF stp.kind = "links" THEN delivered \union {Peer} ELSE delivered}
       \/ /\ stp.kind = "links" /\ Over(0) /\ delivered' = delivered \union {Peer}
       \/ /\ stp.kind = "files" /\ snd' = [snd EXCEPT !.pc = "upload"] /\ UNCHANGED delivered
    /\ UNCHANGED <<sndElse, asks>>

\* upload: the header of each member carries the size the file has now.
SndUpload ==
    /\ snd.pc = "upload"
    /\ Over(4) \/ snd' = [snd EXCEPT !.pc = "stream", !.size = file.size]
    /\ UNCHANGED <<sndElse, asks, delivered>>

\* The body is written: a file that shrank or grew meanwhile, a lost connection and
\* any status but 200 are failures, the peer may have stored the files all the same.
SndStream ==
    /\ snd.pc = "stream"
    /\ \/ Over(4) /\ UNCHANGED delivered
       \/ /\ file.size = snd.size
          /\ Over(4) \/ Over(0)
          /\ delivered' = delivered \union {Peer}
    /\ UNCHANGED <<sndElse, asks>>

SndTerm ==
    /\ "snd" \in termed /\ SndAlive /\ Over(143)
    /\ termed' = termed \ {"snd"}
    /\ UNCHANGED <<nameOf, stp, lookupVars, sig, slot, spid, adv, peerVars>>

\* The user changes the file.
EditFile ==
    /\ file.edits < MaxEdits /\ SndAlive
    /\ file' = [size |-> 3 - file.size, edits |-> file.edits + 1]
    /\ UNCHANGED <<nameOf, stp, lookupVars, sigVars, adv, snd, asks, delivered>>

Sender == SndOptions \/ SndOpen \/ SndDiscover \/ SndConnect \/ SndAsk \/ SndAnswered \/ SndUpload \/ SndStream
          \/ SndTerm

PSNext ==
    \/ ReadPeers \/ WakeSpawn \/ WakeStore \/ WakeReady \/ StartProbes \/ Rescan
    \/ NamesDone \/ Listen \/ Wait \/ DropWake \/ ReapWake \/ AfterWake
    \/ SpawnSender \/ StorePid \/ Reap
    \/ \E a \in Addrs : ProbeStart(a) \/ ProbeEnd(a)
    \/ SigTake \/ SigWake \/ SigReapWake \/ SigSender \/ SigExit
    \/ AdvRegister \/ AdvExit \/ Sender \/ EditFile
=============================================================================
