------------------------------ MODULE CliSend -------------------------------
(***************************************************************************)
(* omdrop send and omdrop peers (omdrop-cli/src/send.rs, proc.rs, pick.rs) *)
(* composed with the send-to-peer runs they start (module PeerSend): the   *)
(* checks, the radio, the lookup passes with their deadline, the choice of *)
(* a device, the transfer, and what a TERM, INT or HUP does at any moment. *)
(***************************************************************************)
EXTENDS PeerSend, Sequences

CONSTANTS
    ArgLists,   \* argument lists of omdrop send, each argument by what it is
    Pickers,    \* {FALSE}, or BOOLEAN: the panel's --pick route too
    MaxPasses,  \* lookup passes before the deadline must come
    Direct      \* send-to-peer may also be run by hand, without omdrop

ASSUME CliSendConstants ==
    /\ Pickers \subseteq BOOLEAN /\ MaxPasses \in Nat \ {0} /\ Direct \in BOOLEAN

VARIABLE cli

vars == <<psVars, cli>>

NoRow == [a \in Addrs |-> "unheard"]
NoCli == [pc |-> "shell", cmd |-> "none", to |-> "none", addr |-> NoAddr, kind |-> "files",
          trapped |-> FALSE, caught |-> FALSE, signalled |-> FALSE, lost |-> FALSE, late |-> FALSE,
          rows |-> NoRow, found |-> FALSE, passes |-> 0, next |-> 0, rc |-> 0]

Init == PSInit /\ cli = NoCli

Group    == StpAlive \/ SndAlive \/ AdvAlive     \* the process group of a run
Writers  == StpAlive \/ SndAlive                 \* who holds its stdout
cliElse  == psVars

\* Inside untrap_signals: past its look at the flag, and before the default action.
Untrapping   == cli.pc \in {"unlook", "unsend"}

\* The command ends; what is kept of it is what it was, its status, and whether it
\* had been signalled, and by a signal that nobody looked at.
Ended(rc, s) == [NoCli EXCEPT !.pc = "exited", !.cmd = cli.cmd, !.rc = rc, !.signalled = s,
                              !.lost = cli.lost]
Quit(rc)     == cli' = Ended(rc, cli.signalled)
Die          == Quit(1)
\* stop_group, after which the command ends.
Stop(rc)     == cli' = [NoCli EXCEPT !.pc = "stop", !.cmd = cli.cmd, !.signalled = cli.signalled,
                                     !.lost = cli.lost, !.trapped = TRUE, !.next = rc]
\* The lookup is over: the rows are what remains of it.
Settled      == [cli EXCEPT !.pc = "match", !.trapped = FALSE, !.late = FALSE, !.found = FALSE, !.passes = 0]

-----------------------------------------------------------------------------
(* Arguments. *)

\* The base name under which a file argument would arrive.
Base(arg) == IF arg = "copy" THEN "file" ELSE arg

\* cmd_send up to the payload: an argument is a "url", a "file", a "copy" (a file in
\* another folder with the name of "file"), a "shortcut" holding a web link, a
\* "folder" or "absent".  Without --to one absent argument is the recipient.
Classify(args, to) ==
    LET at(k)  == {i \in DOMAIN args : args[i] = k}
        absent == IF to = "none" THEN at("absent") ELSE {}
        links  == at("url") \union at("shortcut")
        files  == DOMAIN args \ (links \union absent)
        twice  == \E i, j \in files : i # j /\ Base(args[i]) = Base(args[j])
    IN  IF \/ Cardinality(absent) > 1 \/ (links # {} /\ files # {}) \/ (links = {} /\ files = {})
           \/ twice \/ \E i \in files : args[i] \notin {"file", "copy"}
        THEN [ok |-> FALSE]
        ELSE [ok |-> TRUE, to |-> IF absent = {} THEN to ELSE "name",
              kind |-> IF links = {} THEN "files" ELSE "links"]

\* omdrop send ARGS: parsed and checked, sender installed and new enough.
Send ==
    /\ cli.pc = "shell" /\ ~StpAlive
    /\ \E args \in ArgLists, to \in {"none", "name", "addr"}, a \in Addrs, pick \in Pickers :
          LET c == Classify(args, to) IN
          \/ Die
          \/ /\ c.ok
             /\ cli' = [NoCli EXCEPT !.pc = IF pick THEN "pick" ELSE "radio", !.cmd = "send",
                                     !.to = c.to, !.addr = IF c.to = "addr" THEN a ELSE NoAddr,
                                     !.kind = c.kind, !.trapped = pick]
    /\ UNCHANGED cliElse

\* The chooser's answer, or its cancel.  It is looked at before the signal, and
\* untrap_forget then forgets what was caught.
PickAnswer ==
    /\ cli.pc = "pick"
    /\ \/ cli' = [cli EXCEPT !.pc = "radio", !.trapped = FALSE, !.caught = FALSE, !.signalled = FALSE]
       \/ Die
    /\ UNCHANGED cliElse

\* wait_answer: a signal closes the chooser, as a cancel.
PickClosed ==
    /\ cli.pc = "pick" /\ cli.caught
    /\ Die
    /\ UNCHANGED cliElse

\* radio_on; off: a named send turns omdrop on and looks again.
Radio ==
    /\ cli.pc = "radio"
    /\ \/ cli' = [cli EXCEPT !.pc = "choose"]
       \/ cli.to # "none" /\ cli' = [cli EXCEPT !.pc = "choose"]
       \/ Die
    /\ UNCHANGED cliElse

-----------------------------------------------------------------------------
(* choose_peer *)

\* By address, or by nothing: --list, in this process's own group, with no trap.
List ==
    /\ cli.pc = "choose" /\ cli.to # "name"
    /\ Spawn("list", NoAddr, cli.kind, FALSE)
    /\ cli' = [cli EXCEPT !.pc = "listing"]
    /\ UNCHANGED <<nameOf, adv, peerVars>>

Listed ==
    /\ cli.pc = "listing" /\ ~StpAlive
    /\ IF stp.rc \notin {0, 1} THEN Die /\ UNCHANGED out
       ELSE /\ cli' = [cli EXCEPT !.pc = "match",
                         !.rows = [a \in Addrs |-> IF <<a, "unasked">> \in out THEN "unasked" ELSE "unheard"]]
            /\ out' = {}
    /\ UNCHANGED <<nameOf, stp, probe, answer, sigVars, adv, snd, peerVars>>

\* find_by_name: signals trapped, the deadline running.
Look ==
    /\ cli.pc = "choose" /\ cli.to = "name"
    /\ cli' = [cli EXCEPT !.pc = "look", !.trapped = TRUE]
    /\ UNCHANGED cliElse

\* One pass, in a session of its own; or the deadline, or a sender that will not start.
Pass ==
    /\ cli.pc = "look" /\ ~cli.late /\ cli.passes < MaxPasses
    /\ \/ /\ \E stream \in BOOLEAN : Spawn("names", NoAddr, cli.kind, stream)
          /\ cli' = [cli EXCEPT !.pc = "pass", !.passes = @ + 1]
          /\ UNCHANGED <<nameOf, adv, peerVars>>
       \/ Die /\ UNCHANGED cliElse

\* Untrap at the end of the lookup: a signal not seen yet still cancels.
LookOver ==
    /\ cli.pc = "look" /\ cli.late
    /\ IF cli.caught THEN Quit(130) ELSE cli' = [cli EXCEPT !.pc = "unlook"]
    /\ UNCHANGED cliElse

\* The default action is back; what was caught since that look stays where it is.
LookUntrapped ==
    /\ cli.pc = "unlook"
    /\ cli' = Settled
    /\ UNCHANGED cliElse

\* The rows kept across passes: an answer stands against a later "(no response)".
Hear(a, r) == IF cli.rows[a] # "unheard" /\ r = "none" THEN cli.rows
              ELSE [cli.rows EXCEPT ![a] = r]

ReadRow ==
    /\ cli.pc = "pass"
    /\ \E row \in out :
          /\ out' = out \ {row}
          /\ cli' = [cli EXCEPT !.rows = Hear(row[1], row[2]), !.found = @ \/ row[2] \in {"want", "part"}]
    /\ UNCHANGED <<nameOf, stp, probe, answer, sigVars, adv, snd, peerVars>>

\* Mutant: the sender's exit ends the pass, whatever is still unread.
PassDoneUnread ==
    /\ cli.pc = "pass" /\ ~Writers
    /\ IF stp.rc \notin {0, 1} THEN Die
       ELSE IF cli.caught THEN Quit(130)
       ELSE IF cli.found THEN cli' = [cli EXCEPT !.pc = "unlook"]
       ELSE cli' = [cli EXCEPT !.pc = "look"]
    /\ UNCHANGED cliElse

\* The end of a pass: a failed table read dies, a match ends the lookup, else a nap
\* that a signal cuts short.
PassDone ==
    /\ cli.pc = "pass" /\ ~Writers /\ out = {}
    /\ IF stp.rc \notin {0, 1} THEN Die
       ELSE IF cli.caught THEN Quit(130)
       ELSE IF cli.found THEN cli' = [cli EXCEPT !.pc = "unlook"]
       ELSE cli' = [cli EXCEPT !.pc = "look"]
    /\ UNCHANGED cliElse

\* A pass cut off by the deadline cannot establish that a match is the only one.
PassTimedOut ==
    /\ cli.pc = "pass" /\ cli.late
    /\ Stop(1)
    /\ UNCHANGED cliElse

Matching(ns) == {a \in Addrs : cli.rows[a] \in ns}

\* An exact name before a partial one.
Chosen ==
    CASE cli.to = "name" -> IF Matching({"want"}) # {} THEN Matching({"want"})
                            ELSE Matching({"want", "part"})
      [] cli.to = "addr" -> Matching({"unasked"}) \intersect {cli.addr}
      [] OTHER           -> Matching({"unasked"})

\* One device, or none is asked.  mark_sending, then the sender in a group of its own
\* with signals trapped; between the two traps a signal simply kills.
Transfer ==
    /\ cli.pc = "match" /\ ~StpAlive
    /\ \/ /\ Cardinality(Chosen) = 1
          /\ Spawn("send", CHOOSE a \in Chosen : TRUE, cli.kind, FALSE)
          /\ cli' = [cli EXCEPT !.pc = "send", !.trapped = TRUE, !.caught = FALSE]
          /\ UNCHANGED <<nameOf, adv, peerVars>>
       \/ Die /\ UNCHANGED cliElse

\* omdrop peers, with or without names, for the panel or a person.
Peers ==
    /\ cli.pc = "shell" /\ ~StpAlive
    /\ \/ /\ \E m \in {<<"list", FALSE>>, <<"names", FALSE>>, <<"names", TRUE>>} : Spawn(m[1], NoAddr, "files", m[2])
          /\ cli' = [NoCli EXCEPT !.pc = "send", !.cmd = "peers", !.trapped = TRUE]
          /\ UNCHANGED <<nameOf, adv, peerVars>>
       \/ Die /\ UNCHANGED cliElse

\* peers_stream: a row for a panel that is gone ends the lookup (141).
PrintRow ==
    /\ cli.pc = "send" /\ cli.cmd = "peers" /\ out # {}
    /\ \/ cli' = cli /\ \E row \in out : out' = out \ {row}
       \/ stp.stream /\ Stop(141) /\ UNCHANGED out
    /\ UNCHANGED <<nameOf, stp, probe, answer, sigVars, adv, snd, peerVars>>

\* End of output, then the status.  What stderr's last holder does is not ours.
SendDone ==
    /\ cli.pc = "send" /\ ~Writers /\ (cli.cmd = "peers" => out = {})
    /\ cli' = [cli EXCEPT !.pc = "errors", !.rc = stp.rc]
    /\ UNCHANGED cliElse

\* Mutant: a signal that came after the last line is not looked at.
ErrorsEndBlind ==
    /\ cli.pc = "errors"
    /\ cli' = [cli EXCEPT !.pc = "unsend"]
    /\ UNCHANGED cliElse

\* The thread that passes complaints on may wait for that holder for ever; a signal
\* must still end the command, also one that untrap_signals is first to see.
ErrorsEnd ==
    /\ cli.pc = "errors" /\ ~cli.caught
    /\ cli' = [cli EXCEPT !.pc = "unsend"]
    /\ UNCHANGED cliElse

\* The default action is back, and the command ends with the sender's status.
SendUntrapped ==
    /\ cli.pc = "unsend"
    /\ Quit(cli.rc)
    /\ UNCHANGED cliElse

\* Mutant: a blocking join: only the thread's end counts.
CancelledJoining ==
    /\ cli.caught
    /\ cli.pc \in {"look", "pass", "send"} /\ Stop(130)
    /\ UNCHANGED cliElse

\* cancelled(): at every wait that polls for a signal.
Cancelled ==
    /\ cli.caught
    /\ \/ cli.pc \in {"pass", "send"} /\ Stop(130)
       \/ cli.pc \in {"look", "errors"} /\ Quit(130)
    /\ UNCHANGED cliElse

-----------------------------------------------------------------------------
(* stop_group, signals and time. *)

TermGroup ==
    /\ termed' = termed \union (IF StpAlive THEN {"stp"} ELSE {}) \union (IF SndAlive THEN {"snd"} ELSE {})
    /\ Terminate

StopTerm ==
    /\ cli.pc = "stop"
    /\ TermGroup
    /\ cli' = [cli EXCEPT !.pc = "grace"]
    /\ UNCHANGED <<nameOf, stp, lookupVars, sig, slot, spid, snd, peerVars>>

StopGone ==
    /\ cli.pc = "grace" /\ ~Group
    /\ Quit(cli.next)
    /\ UNCHANGED cliElse

\* Mutant: nothing is killed when the grace is over.
StopKillNothing ==
    /\ cli.pc = "grace" /\ Group
    /\ Quit(cli.next)
    /\ UNCHANGED psVars

\* Two seconds are over: KILL to the group.
StopKill ==
    /\ cli.pc = "grace" /\ Group
    /\ stp' = IF StpAlive THEN [stp EXCEPT !.pc = "gone", !.rc = 137] ELSE stp
    /\ snd' = IF SndAlive THEN [snd EXCEPT !.pc = "over", !.rc = 137] ELSE snd
    /\ adv' = "none"
    /\ Quit(cli.next)
    /\ UNCHANGED <<nameOf, lookupVars, sigVars, peerVars>>

\* TERM, INT or HUP to omdrop: trapped, it is a flag, which nobody looks at while the
\* trap is taken down; otherwise it ends the command.
Signal ==
    /\ cli.pc \notin {"shell", "exited", "hand"} /\ (cli.signalled => cli.lost)
    /\ cli' = IF cli.trapped THEN [cli EXCEPT !.signalled = TRUE, !.lost = Untrapping,
                                              !.caught = cli.pc \notin {"stop", "grace"}]
              ELSE Ended(143, TRUE)
    /\ UNCHANGED cliElse

\* OMDROP_NAME_WAIT runs out.
Deadline ==
    /\ cli.pc \in {"look", "pass"} /\ ~cli.late
    /\ cli' = [cli EXCEPT !.late = TRUE]
    /\ UNCHANGED cliElse

\* send-to-peer run by hand, and signalled alone.
ByHand ==
    /\ Direct /\ cli.pc = "shell"
    /\ cli' = [NoCli EXCEPT !.pc = "hand"]
    /\ \E mode \in {"names", "byname", "send"}, a \in Addrs \union {NoAddr} :
          Spawn(mode, IF mode = "send" THEN a ELSE NoAddr, "files", FALSE)
    /\ UNCHANGED <<nameOf, adv, peerVars>>

SignalByHand ==
    /\ cli.pc = "hand" /\ StpAlive /\ sig = "idle" /\ "stp" \notin termed
    /\ termed' = termed \union {"stp"}
    /\ UNCHANGED <<nameOf, stp, lookupVars, sig, slot, spid, adv, snd, peerVars, cli>>

Cli ==
    \/ PickClosed \/ Radio \/ List \/ Listed \/ Look \/ Pass \/ LookOver \/ LookUntrapped \/ ReadRow
    \/ PassDone \/ PassTimedOut \/ Transfer \/ PrintRow \/ SendDone \/ SendUntrapped \/ Cancelled
    \/ StopTerm \/ StopGone \/ StopKill

Next ==
    \/ PSNext /\ UNCHANGED cli
    \/ Send \/ Peers \/ PickAnswer \/ Cli \/ ErrorsEnd \/ Signal \/ Deadline \/ ByHand \/ SignalByHand

\* omdrop runs on, and its clocks run out; no fairness for the person at the chooser,
\* for the sender, for a peer, or for whoever holds the sender's stderr.
Spec == Init /\ [][Next]_vars /\ WF_vars(Cli) /\ WF_vars(Deadline)

-----------------------------------------------------------------------------
(* Properties. *)

\* Type invariant.
TypeOK ==
    /\ nameOf \in [Addrs -> Names] /\ answer \in [Addrs -> Answers]
    /\ probe \in [Addrs -> {"no", "queued", "asking", "told"}]
    /\ out \subseteq Addrs \X Answers
    /\ stp.pc \in {"off", "gone", "peers", "wake", "slot", "ready", "names", "naming", "drop", "reapwake",
                   "dropped", "listen", "wait", "send", "store", "reap"}
    /\ stp.to \in Addrs \union {NoAddr} /\ stp.known \subseteq Addrs
    /\ sig \in {"idle", "wake", "reapwake", "sender", "exit"}
    /\ termed \subseteq {"stp", "snd"} /\ slot \in BOOLEAN /\ spid \in BOOLEAN
    /\ adv \in {"none", "starting", "up", "stopping"}
    /\ snd.pc \in {"none", "open", "identity", "discover", "connect", "ask", "asked", "upload", "stream", "over"}
    /\ cli.pc \in {"shell", "pick", "radio", "choose", "listing", "look", "pass", "unlook", "match", "send",
                   "errors", "unsend", "stop", "grace", "exited", "hand"}
    /\ cli.to \in {"none", "name", "addr"} /\ cli.kind \in {"files", "links"}
    /\ cli.rows \in [Addrs -> Answers \union {"unheard"}] /\ cli.passes \in 0..MaxPasses

\* Whom a named send may ask: among everybody that gave a name to the lookups so far
\* (read or not), the only one with that name, or the only one containing it.
Best(S) == IF \E a \in S : nameOf[a] = "want" THEN {a \in S : nameOf[a] = "want"} ELSE S

\* send.rs find_by_name, "finishing each pass before choosing: another device may
\* have the same name", and airdrop_send.rs, "Nothing has been asked yet, so one more
\* /Discover is safe".  The choice is made from everybody the finished pass named; a
\* named send asks a device with that name, and never while another one answered to
\* it just as well; and one command puts at most one question before one person.
AsksRight ==
    /\ cli.pc = "match" /\ cli.to = "name" =>
          \A a \in Addrs : answer[a] \in {"want", "part", "other"} => cli.rows[a] = answer[a]
    /\ cli.cmd = "send" /\ cli.to = "name" /\ cli.pc = "send" =>
          Best({a \in Addrs : cli.rows[a] \in {"want", "part"}}) = {stp.to}
    /\ \A a \in Addrs : asks[a] <= 1
    /\ \A a, b \in Addrs : asks[a] > 0 /\ asks[b] > 0 => a = b

\* proc.rs run_cancellable, "it would still have delivered the file", and
\* send_to_peer.rs, the wait "stops it before the transfer starts": once omdrop has
\* exited, nothing of its run is left, no sender and no advert; and no advert is up
\* while a transfer runs, unless the run is being stopped.
NothingOutlives ==
    /\ cli.pc = "exited" => ~SndAlive /\ ~AdvAlive /\ (StpAlive => stp.mode = "list")
    /\ SndAlive /\ AdvAlive => sig # "idle" \/ cli.pc = "grace" \/ "stp" \in termed

\* send.rs send_narrated, "The exit status is the sender's", and proc.rs, "A signal
\* that arrived after the last check still gets the trap": success is reported only
\* of a transfer the chosen peer has in full; and never by a command that was
\* signalled, unless the last signal came while untrap_signals, having looked at the
\* flag, put the default action back.
StatusIsTrue ==
    cli.pc = "exited" =>
        /\ cli.cmd = "send" /\ cli.rc = 0 => delivered # {} /\ delivered = {stp.to}
        /\ cli.signalled /\ ~cli.lost => cli.rc # 0

\* send.rs find_by_name, "Every wait is bounded by OMDROP_NAME_WAIT", and
\* send_narrated, "without ever giving up a cancel: a blocking join here once ignored
\* Ctrl-C forever": a lookup ends, whatever its sender and the peers do, and so does a
\* signalled command, unless the chooser's answer was there before the signal was
\* looked at, or nobody looks at it, as in StatusIsTrue.
CommandEnds ==
    /\ cli.pc \in {"look", "pass"} ~> cli.pc \in {"match", "exited"}
    /\ cli.signalled /\ ~cli.lost ~> cli.pc = "exited" \/ ~cli.signalled
=============================================================================
