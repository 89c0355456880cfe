--------------------------- MODULE CliSendProofs ----------------------------
(***************************************************************************)
(* Theorems about CliSend (omdrop send with the send-to-peer runs it       *)
(* starts), for any addresses, rooms, arguments and number of lookups: its *)
(* typing, that nothing outlives the command, that its status is true, and *)
(* that it asks the right person once.  All rest on SendInv.               *)
(***************************************************************************)
EXTENDS CliSend, FiniteSetTheorems, TLAPS

-----------------------------------------------------------------------------
(* The inductive invariant. *)

StpPcs == {"off", "gone", "peers", "wake", "slot", "ready", "names", "naming", "drop", "reapwake",
           "dropped", "listen", "wait", "send", "store", "reap"}
SndPcs == {"none", "open", "identity", "discover", "connect", "ask", "asked", "upload", "stream", "over"}
CliPcs == {"shell", "pick", "radio", "choose", "listing", "look", "pass", "unlook", "match", "send",
           "errors", "unsend", "stop", "grace", "exited", "hand"}

StpType == [pc : StpPcs, mode : {"list", "names", "byname", "send"}, to : Addrs \union {NoAddr},
            kind : {"files", "links"}, stream : BOOLEAN, known : SUBSET Addrs, ready : BOOLEAN,
            then : {"names", "wait"}, opened : BOOLEAN, rc : Nat]
SndType == [pc : SndPcs, announced : Nat, size : Nat, retried : BOOLEAN, rc : Nat]
CliType == [pc : CliPcs, cmd : {"none", "send", "peers"}, to : {"none", "name", "addr"},
            addr : Addrs \union {NoAddr}, kind : {"files", "links"}, trapped : BOOLEAN, caught : BOOLEAN,
            signalled : BOOLEAN, lost : BOOLEAN, late : BOOLEAN, rows : [Addrs -> Answers \union {"unheard"}],
            found : BOOLEAN, passes : 0..MaxPasses, next : Nat, rc : Nat]

Records == stp \in StpType /\ snd \in SndType /\ cli \in CliType

Typed ==
    /\ Records
    /\ nameOf \in [Addrs -> Names] /\ answer \in [Addrs -> Answers]
    /\ probe \in [Addrs -> {"no", "queued", "asking", "told"}]
    /\ out \subseteq Addrs \X Answers
    /\ sig \in {"idle", "wake", "reapwake", "sender", "exit"}
    /\ termed \subseteq {"stp", "snd"} /\ slot \in BOOLEAN /\ spid \in BOOLEAN
    /\ adv \in {"none", "starting", "up", "stopping"}
    /\ file \in [size : 1..2, edits : Nat]
    /\ asks \in [Addrs -> Nat] /\ delivered \subseteq Addrs \union {NoAddr}

\* Where a run of each mode can be, and where the command is meanwhile.
Course ==
    /\ stp.pc = "off" => stp.mode = "list"
    /\ stp.mode = "list" => stp.pc \in {"off", "peers", "gone"}
    /\ stp.mode = "names" => stp.then = "names" /\ stp.pc \notin {"off", "listen", "wait", "send", "store", "reap"}
    /\ stp.mode = "send" => stp.pc \notin {"off", "names", "naming"}
    /\ stp.mode = "send" /\ stp.pc \in {"wake", "slot", "ready", "wait", "drop", "reapwake", "dropped"}
          => stp.then = "wait"
    /\ stp.mode \in {"list", "names"} => snd.pc = "none"
    /\ snd.pc # "none" => stp.pc \in {"store", "reap", "gone"}
    /\ SndAlive /\ stp.pc = "gone" => sig = "exit"

Waits ==
    /\ cli.pc \in {"pick", "radio", "choose", "listing", "look", "pass", "unlook", "match"} =>
          cli.cmd = "send"
    /\ cli.pc \in {"shell", "pick", "radio", "choose"} => stp.pc = "off"
    /\ cli.pc \in {"look", "unlook", "match", "errors", "unsend"} => stp.pc \in {"off", "gone"}
    /\ cli.pc = "listing" => stp.mode = "list" /\ cli.to # "name"
    /\ cli.pc \in {"look", "unlook", "match"} => stp.mode \in {"list", "names"}
    /\ cli.pc = "pass" => stp.mode = "names"
    /\ cli.pc \in {"send", "errors", "unsend"} =>
          IF cli.cmd = "send" THEN stp.mode = "send" /\ stp.to \in Addrs ELSE stp.mode \in {"list", "names"}
    /\ cli.pc \in {"errors", "unsend"} /\ cli.cmd = "send" => stp.pc = "gone" /\ cli.rc = stp.rc
    /\ cli.pc \in {"pass", "listing", "send"} => stp.pc # "off"

\* Who owns the advertiser: the main thread while it starts or ends it, else the slot.
WakeOwned ==
    /\ stp.pc = "off" => sig = "idle" /\ adv = "none"
    /\ AdvAlive /\ sig = "idle" => slot \/ stp.pc \in {"slot", "reapwake"}
    /\ slot => stp.pc \in {"ready", "names", "naming", "wait", "drop", "gone"}
    /\ AdvAlive /\ stp.pc = "gone" => sig # "idle"
    /\ cli.pc \notin {"grace", "exited", "hand"} => termed = {} /\ sig = "idle"

\* What the command knows of a signal.
Signals ==
    /\ cli.trapped \/ cli.pc \in {"shell", "radio", "choose", "listing", "match", "exited", "hand"}
    /\ cli.pc \in {"radio", "choose", "listing"} => ~cli.trapped /\ ~cli.signalled /\ ~cli.caught
    /\ cli.pc = "match" => ~cli.trapped
    /\ cli.pc \in {"pick", "look", "pass", "send", "errors"} => (cli.signalled => cli.caught \/ cli.lost)
    /\ cli.pc \in {"unlook", "match", "unsend"} => (cli.signalled => cli.lost)
    /\ cli.pc \in {"stop", "grace"} => cli.next # 0

Over0 == stp.mode = "send" /\ stp.pc = "gone" /\ stp.rc = 0

\* One command puts one question, to the device the sender was started for, and what
\* the sender says of it is so.
AskedOnce ==
    /\ snd.pc \in {"none", "open", "identity", "discover", "connect", "ask"} => \A a \in Addrs : asks[a] = 0
    /\ \A a \in Addrs : asks[a] <= 1 /\ (a # stp.to => asks[a] = 0)
    /\ delivered \subseteq {stp.to}
    /\ snd.pc # "over" => delivered = {}
    /\ snd.pc = "over" /\ snd.rc = 0 => delivered = {stp.to}
    /\ Over0 => delivered = {stp.to}

\* A run that looks names up, before its lookups start.
Early == {"peers", "wake", "slot", "ready", "names"}

Named == {"want", "part", "other"}

\* What a lookup was told, printed or read is what the device of that address says.
RowsTrue ==
    /\ \A a \in Addrs : /\ answer[a] \in {nameOf[a], "none", "unasked"}
                        /\ cli.rows[a] \in {nameOf[a], "none", "unasked", "unheard"}
    /\ \A row \in out : row[2] \in {nameOf[row[1]], "none", "unasked"}

\* An answer is in the rows, in the pipe, or still in the sender that prints at the end.
RowsKept ==
    /\ stp.pc = "off" => \A a \in Addrs : answer[a] = "unasked"
    /\ stp.mode = "names" =>
          /\ \A a \in Addrs : answer[a] # "unasked" => probe[a] = "told"
          /\ stp.pc \in Early =>
                \A a \in Addrs : probe[a] = "no"
          /\ StpAlive => \A row \in out : probe[row[1]] = "told"
          /\ \A row \in out : row[2] = answer[row[1]] \/ (row[2] = "none" /\ answer[row[1]] \notin Named)
    /\ cli.pc \in {"look", "unlook", "match"} /\ cli.to = "name" =>
          \A a \in Addrs : answer[a] \in Named => cli.rows[a] = answer[a]
    /\ cli.pc = "pass" =>
          \A a \in Addrs : answer[a] \in Named =>
              cli.rows[a] = answer[a] \/ <<a, answer[a]>> \in out \/ (~stp.stream /\ StpAlive)

\* A named send asks the one device that answers to the name best.
ChosenAlone ==
    cli.pc = "send" /\ cli.cmd = "send" /\ cli.to = "name" =>
        Best({a \in Addrs : cli.rows[a] \in {"want", "part"}}) = {stp.to}

SendInv ==
    /\ Typed /\ Course /\ Waits /\ WakeOwned /\ Signals /\ AskedOnce /\ RowsTrue /\ RowsKept
    /\ ChosenAlone /\ NothingOutlives /\ StatusIsTrue

-----------------------------------------------------------------------------
(* The records, and the steps that write a whole one. *)

\* A process that has not started, a sender and a command likewise.
LEMMA NoStpIs ==
    /\ NoStp \in StpType /\ NoStp.pc = "off" /\ NoStp.mode = "list" /\ NoStp.then = "names" /\ NoStp.rc = 0
    /\ NoStp.to = NoAddr
BY DEF NoStp, StpType, StpPcs

\* No transfer yet.
LEMMA NoSndIs == NoSnd \in SndType /\ NoSnd.pc = "none" /\ NoSnd.rc = 0
BY DEF NoSnd, SndType, SndPcs

\* Nobody heard yet.
LEMMA NoRowIs == NoRow \in [Addrs -> Answers \union {"unheard"}] /\ \A a \in Addrs : NoRow[a] = "unheard"
BY DEF NoRow

\* The shell, before a command.
LEMMA NoCliIs ==
    /\ NoCli \in CliType /\ NoCli.pc = "shell" /\ NoCli.cmd = "none" /\ NoCli.to = "none"
    /\ NoCli.rows = NoRow /\ NoCli.rc = 0
    /\ NoCli.trapped = FALSE /\ NoCli.caught = FALSE /\ NoCli.signalled = FALSE
<1>1. MaxPasses \in Nat /\ 0 \in 0..MaxPasses
  BY CliSendConstants
<1>2. QED
  BY <1>1, NoRowIs DEF NoCli, CliType, CliPcs

\* A process that ends keeps what it was started for.
LEMMA ExitIs ==
  ASSUME stp \in StpType, NEW rc \in Nat, Exit(rc)
  PROVE  /\ stp' \in StpType /\ stp'.pc = "gone" /\ stp'.rc = rc /\ stp'.then = "names"
         /\ stp'.mode = stp.mode /\ stp'.to = stp.to /\ stp'.stream = stp.stream
BY NoStpIs DEF Exit, StpType, StpPcs

\* A new process has told, printed and asked nothing.
LEMMA SpawnIs ==
  ASSUME NEW mode \in {"list", "names", "byname", "send"}, NEW to \in Addrs \union {NoAddr},
         NEW kind \in {"files", "links"}, NEW stream \in BOOLEAN, Spawn(mode, to, kind, stream)
  PROVE  /\ stp' \in StpType /\ stp'.pc = "peers" /\ stp'.mode = mode /\ stp'.to = to
         /\ stp'.then = "names" /\ stp'.stream = stream
         /\ probe' \in [Addrs -> {"no", "queued", "asking", "told"}] /\ \A a \in Addrs : probe'[a] = "no"
         /\ answer' \in [Addrs -> Answers] /\ \A a \in Addrs : answer'[a] = "unasked"
         /\ out' = {} /\ sig' = "idle" /\ termed' = {} /\ slot' = FALSE /\ spid' = FALSE
         /\ snd' \in SndType /\ snd'.pc = "none"
<1>1. stp' \in StpType /\ stp'.pc = "peers" /\ stp'.mode = mode /\ stp'.to = to /\ stp'.then = "names"
  BY NoStpIs DEF Spawn, StpType, StpPcs
<1>2. snd' \in SndType /\ snd'.pc = "none"
  BY NoSndIs DEF Spawn
<1>3. QED
  BY <1>1, <1>2 DEF Spawn, Answers, Names

\* A command that ends keeps what it was, its status and whether it was signalled.
LEMMA EndedIs ==
  ASSUME cli \in CliType, NEW rc \in Nat, NEW s \in BOOLEAN, cli' = Ended(rc, s)
  PROVE  /\ cli' \in CliType /\ cli'.pc = "exited" /\ cli'.cmd = cli.cmd /\ cli'.rc = rc
         /\ cli'.signalled = s /\ cli'.lost = cli.lost /\ cli'.rows = NoRow
<1>1. "exited" \in CliPcs /\ cli.lost \in BOOLEAN /\ cli.cmd \in {"none", "send", "peers"}
  BY DEF CliType, CliPcs
<1>2. cli' = [NoCli EXCEPT !.pc = "exited", !.cmd = cli.cmd, !.rc = rc, !.signalled = s,
                           !.lost = cli.lost]
  BY DEF Ended
<1> DEFINE half == [NoCli EXCEPT !.pc = "exited", !.cmd = cli.cmd, !.rc = rc]
<1>3. half \in CliType /\ half.pc = "exited" /\ half.cmd = cli.cmd /\ half.rc = rc /\ half.rows = NoRow
  BY <1>1, NoCliIs DEF CliType
<1>4. cli' = [half EXCEPT !.signalled = s, !.lost = cli.lost]
  BY <1>2, NoCliIs DEF CliType
<1> HIDE DEF half
<1>5. QED
  BY <1>1, <1>3, <1>4 DEF CliType

\* So does one that quits.
LEMMA QuitIs ==
  ASSUME cli \in CliType, NEW rc \in Nat, Quit(rc)
  PROVE  /\ cli' \in CliType /\ cli'.pc = "exited" /\ cli'.cmd = cli.cmd /\ cli'.rc = rc
         /\ cli'.signalled = cli.signalled /\ cli'.lost = cli.lost /\ cli'.rows = NoRow
<1>1. cli.signalled \in BOOLEAN
  BY DEF CliType
<1>2. QED
  BY <1>1, EndedIs DEF Quit

\* A command that stops its run has nothing of the lookup left.
LEMMA StopIs ==
  ASSUME cli \in CliType, NEW rc \in Nat, Stop(rc)
  PROVE  /\ cli' \in CliType /\ cli'.pc = "stop" /\ cli'.next = rc /\ cli'.trapped = TRUE /\ cli'.rows = NoRow
BY NoCliIs DEF Stop, CliType, CliPcs

\* A lookup that is over keeps the rows and what was asked for.
LEMMA SettledIs ==
  ASSUME cli \in CliType, cli' = Settled
  PROVE  /\ cli' \in CliType /\ cli'.pc = "match" /\ cli'.cmd = cli.cmd /\ cli'.to = cli.to
         /\ cli'.rows = cli.rows /\ cli'.signalled = cli.signalled /\ cli'.caught = cli.caught
         /\ cli'.kind = cli.kind /\ cli'.addr = cli.addr /\ cli'.trapped = FALSE /\ cli'.lost = cli.lost
<1>1. 0 \in 0..MaxPasses
  BY CliSendConstants
<1>2. QED
  BY <1>1 DEF Settled, CliType, CliPcs

\* A command that only goes on to another wait.
Moved(l) == cli' = [cli EXCEPT !.pc = l]
LEMMA MovedIs ==
  ASSUME cli \in CliType, NEW l \in CliPcs, Moved(l)
  PROVE  /\ cli' \in CliType /\ cli'.pc = l /\ cli'.cmd = cli.cmd /\ cli'.to = cli.to
         /\ cli'.rows = cli.rows /\ cli'.signalled = cli.signalled /\ cli'.caught = cli.caught
         /\ cli'.lost = cli.lost /\ cli'.trapped = cli.trapped /\ cli'.rc = cli.rc /\ cli'.next = cli.next
         /\ cli'.kind = cli.kind /\ cli'.addr = cli.addr
BY DEF Moved, CliType

\* A send that has picked its peer has untrapped, and forgets what it had caught.
Picked == cli' = [cli EXCEPT !.pc = "radio", !.trapped = FALSE, !.caught = FALSE, !.signalled = FALSE]
LEMMA PickedIs ==
  ASSUME cli \in CliType, Picked
  PROVE  /\ cli' \in CliType /\ cli'.pc = "radio" /\ cli'.cmd = cli.cmd /\ cli'.to = cli.to
         /\ cli'.rows = cli.rows /\ cli'.signalled = FALSE /\ cli'.caught = FALSE
         /\ cli'.lost = cli.lost /\ cli'.trapped = FALSE /\ cli'.rc = cli.rc /\ cli'.next = cli.next
         /\ cli'.kind = cli.kind /\ cli'.addr = cli.addr
BY DEF Picked, CliType, CliPcs

\* Where it goes.
LEMMA Moves == {"look", "unlook", "unsend"} \subseteq CliPcs
BY DEF CliPcs

\* The only element of a set is the one that is chosen.
LEMMA TheOnly ==
  ASSUME NEW S \in SUBSET Addrs, Cardinality(S) = 1
  PROVE  (CHOOSE a \in S : TRUE) \in Addrs /\ S = {CHOOSE a \in S : TRUE}
<1>1. IsFiniteSet(S)
  BY PeerSendConstants, FS_Subset
<1>2. PICK x : S = {x}
  BY <1>1, FS_Singleton
<1>3. QED
  BY <1>2

\* env.peers() returns addresses only.
LEMMA HeardIs == ASSUME NEW heard \in Heard PROVE heard \in SUBSET Addrs
BY DEF Heard, MergePeers

\* A list of arguments that is accepted has a recipient and a payload.
LEMMA ClassifyIs ==
  ASSUME NEW args, NEW to \in {"none", "name", "addr"}, Classify(args, to).ok
  PROVE  Classify(args, to).to \in {"none", "name", "addr"} /\ Classify(args, to).kind \in {"files", "links"}
BY DEF Classify

\* The parts of the invariant.
LEMMA Parts ==
  ASSUME SendInv
  PROVE  /\ Typed /\ Records /\ stp \in StpType /\ snd \in SndType /\ cli \in CliType
         /\ Course /\ Waits /\ WakeOwned /\ Signals /\ AskedOnce /\ RowsTrue /\ RowsKept
         /\ ChosenAlone /\ NothingOutlives /\ StatusIsTrue
BY DEF SendInv, Typed, Records

-----------------------------------------------------------------------------
(* The steps, grouped by what they leave alone. *)

Prober ==
    /\ UNCHANGED cli
    /\ \/ StartProbes \/ Rescan \/ (\E a \in Addrs : ProbeStart(a)) \/ (\E a \in Addrs : ProbeEnd(a))

Stages ==
    /\ UNCHANGED cli
    /\ \/ WakeSpawn \/ WakeStore \/ WakeReady \/ NamesDone \/ Listen \/ Wait \/ DropWake \/ ReapWake \/
          SpawnSender \/ StorePid \/ Reap

Signaller ==
    /\ UNCHANGED cli
    /\ \/ SigTake \/ SigWake \/ SigReapWake \/ SigSender

Advert ==
    /\ UNCHANGED cli
    /\ \/ AdvRegister \/ AdvExit

Transferring ==
    /\ UNCHANGED cli
    /\ \/ SndOptions \/ SndOpen \/ SndDiscover \/ SndConnect \/ SndAsk \/ SndAnswered \/ SndUpload \/
          SndStream

Alone ==
    Send \/ PickAnswer \/ PickClosed \/ Radio \/ Look \/ LookOver \/ LookUntrapped \/ PassDone \/
        PassTimedOut \/ SendUntrapped \/ SendDone \/ Cancelled \/ StopGone \/ ErrorsEnd \/ Signal \/ Deadline

\* What the lookup threads leave alone.
LEMMA ProberKeeps == ASSUME Prober PROVE UNCHANGED <<sigVars, adv, snd, peerVars, cli, nameOf>>
BY DEF Prober, StartProbes, Rescan, ProbeStart, StpAlive, ProbeEnd, PeerName, lookupVars, sigVars,
    peerVars, psVars, cliElse, sndElse

\* What the main thread's own stages leave alone.
LEMMA StagesKeeps == ASSUME Stages PROVE UNCHANGED <<nameOf, lookupVars, peerVars, sig, termed, cli>>
BY DEF Stages, WakeSpawn, AdvAlive, WakeStore, WakeReady, NamesDone, Listen, Wait, DropWake, Terminate,
    ReapWake, SpawnSender, StorePid, Reap, Die, StpAlive, Exit, lookupVars, sigVars, peerVars, psVars,
    cliElse, sndElse

\* What the signal thread leaves alone.
LEMMA SignallerKeeps == ASSUME Signaller PROVE UNCHANGED <<nameOf, stp, lookupVars, spid, snd, peerVars, cli>>
BY DEF Signaller, SigTake, StpAlive, SigWake, Terminate, AdvAlive, SigReapWake, SigSender, SndAlive,
    lookupVars, sigVars, peerVars, psVars, cliElse, sndElse

\* What the advertiser leaves alone.
LEMMA AdvertKeeps == ASSUME Advert PROVE UNCHANGED <<nameOf, stp, lookupVars, sigVars, snd, peerVars, cli>>
BY DEF Advert, AdvRegister, AdvExit, AdvAlive, lookupVars, sigVars, peerVars, psVars, cliElse, sndElse

\* What airdrop-send leaves alone.
LEMMA TransferringKeeps == ASSUME Transferring PROVE UNCHANGED <<nameOf, stp, lookupVars, sigVars, adv, file, cli>>
BY DEF Transferring, SndOptions, Over, Outgoing, SndOpen, SndDiscover, SndConnect, SndAsk, Peer,
    SndAnswered, SndUpload, SndStream, lookupVars, sigVars, peerVars, psVars, cliElse, sndElse

\* What the command's own steps leave alone.
LEMMA AloneKeeps == ASSUME Alone PROVE UNCHANGED <<psVars>>
BY DEF Alone, Send, Die, StpAlive, Exit, PickAnswer, PickClosed, Radio, Look, LookOver, LookUntrapped,
    SendUntrapped, PassDone,
    Writers, SndAlive, PassTimedOut, SendDone, Cancelled, StopGone, Group, AdvAlive, ErrorsEnd, Signal,
    Deadline, lookupVars, sigVars, peerVars, psVars, cliElse, sndElse

\* Every step is of one of these kinds, or one of the others by name.
LEMMA Kinds ==
  ASSUME [Next]_vars
  PROVE  \/ UNCHANGED vars \/ Prober \/ Stages \/ Signaller \/ Advert \/ Transferring \/ Alone
         \/ (UNCHANGED cli /\ (ReadPeers \/ AfterWake \/ SigExit \/ SndTerm \/ EditFile))
         \/ Peers \/ List \/ Listed \/ Pass \/ ReadRow \/ Transfer \/ PrintRow \/ StopTerm \/ StopKill \/ ByHand \/ SignalByHand
BY DEF Next, PSNext, Sender, Cli, Prober, Stages, Signaller, Advert, Transferring, Alone

-----------------------------------------------------------------------------
(* Whom it chooses from. *)

\* A device is chosen among the addresses.
LEMMA ChosenIs == ASSUME cli \in CliType PROVE Chosen \in SUBSET Addrs
BY DEF Chosen, Matching, CliType

-----------------------------------------------------------------------------
(* What the steps that write a whole record come to. *)

\* The transfer ends with a status.
LEMMA OverIs ==
  ASSUME snd \in SndType, NEW rc \in Nat, Over(rc)
  PROVE  snd' \in SndType /\ snd'.pc = "over" /\ snd'.rc = rc
BY DEF Over, SndType, SndPcs

\* The transfer goes on.
LEMMA SndMoveIs ==
  ASSUME snd \in SndType, NEW pc \in SndPcs, snd' = [snd EXCEPT !.pc = pc]
  PROVE  snd' \in SndType /\ snd'.pc = pc
BY DEF SndType

\* The process keeps what it was started for.
SameRun == stp' \in StpType /\ stp'.mode = stp.mode /\ stp'.stream = stp.stream
Gone    == SameRun /\ stp'.pc = "gone" /\ stp'.then = "names" /\ stp'.to = stp.to

\* The table read: the end of the run, its rows, or its next stage.
LEMMA ReadPeersIs ==
  ASSUME stp \in StpType, ReadPeers
  PROVE  /\ stp.pc = "peers" /\ SameRun
         /\ \/ Gone /\ out' = out /\ stp'.rc # 0
            \/ /\ Gone /\ stp.mode = "list"
               /\ out' \subseteq Addrs \X {"unasked"}
            \/ /\ stp'.pc = "wake" /\ stp.mode \in {"names", "byname"} /\ stp'.to = stp.to
               /\ stp'.then = "names" /\ out' = out
            \/ /\ stp'.pc = "listen" /\ stp.mode = "send" /\ stp'.to \in Addrs /\ out' = out
               /\ stp'.then = stp.then /\ (stp.to \in Addrs => stp'.to = stp.to)
         /\ UNCHANGED <<nameOf, probe, answer, sigVars, adv, snd, peerVars>>
<1>0. stp.pc = "peers" /\ UNCHANGED <<nameOf, probe, answer, sigVars, adv, snd, peerVars>>
  BY DEF ReadPeers
<1>1. ASSUME NEW rc \in Nat, Exit(rc) PROVE Gone /\ SameRun /\ stp'.rc = rc
  BY <1>1, ExitIs DEF Gone, SameRun
<1>2. CASE Exit(4) /\ UNCHANGED out
  BY <1>0, <1>1, <1>2
<1>3. ASSUME NEW heard \in Heard, stp.mode = "list", out' = {<<a, "unasked">> : a \in heard},
             Exit(IF heard = {} THEN 1 ELSE 0)
      PROVE  Gone /\ SameRun /\ out' \subseteq Addrs \X {"unasked"}
  <2>1. (IF heard = {} THEN 1 ELSE 0) \in Nat
    OBVIOUS
  <2>2. heard \in SUBSET Addrs
    BY HeardIs
  <2>3. QED
    BY <1>1, <1>3, <2>1, <2>2
<1>4. ASSUME NEW heard \in Heard, stp.mode \in {"names", "byname"},
             stp' = [stp EXCEPT !.pc = "wake", !.then = "names", !.known = heard]
      PROVE  /\ SameRun /\ stp'.pc = "wake" /\ stp'.to = stp.to /\ stp'.then = "names"
  BY <1>4, HeardIs DEF StpType, StpPcs, SameRun
<1>5. ASSUME NEW heard \in Heard, stp.mode = "send", stp.to \in heard, stp' = [stp EXCEPT !.pc = "listen"]
      PROVE  /\ SameRun /\ stp'.pc = "listen" /\ stp'.to \in Addrs /\ stp'.then = stp.then /\ stp'.to = stp.to
  BY <1>5, HeardIs DEF StpType, StpPcs, SameRun
<1>6. ASSUME NEW heard \in Heard, stp.mode = "send", stp.to = NoAddr, Cardinality(heard) = 1,
             stp' = [stp EXCEPT !.pc = "listen", !.to = CHOOSE a \in heard : TRUE]
      PROVE  /\ SameRun /\ stp'.pc = "listen" /\ stp'.to \in Addrs /\ stp'.then = stp.then
             /\ stp.to \notin Addrs
  <2>1. (CHOOSE a \in heard : TRUE) \in Addrs /\ NoAddr \notin Addrs
    BY <1>6, HeardIs, TheOnly, PeerSendConstants
  <2>2. QED
    BY <1>6, <2>1 DEF StpType, StpPcs, SameRun
<1>7. CASE \E heard \in Heard :
              CASE stp.mode = "list" ->
                     /\ out' = {<<a, "unasked">> : a \in heard}
                     /\ Exit(IF heard = {} THEN 1 ELSE 0)
                [] stp.mode = "names" /\ heard = {} -> Exit(1) /\ UNCHANGED out
                [] stp.mode = "byname" \/ (stp.mode = "names" /\ heard # {}) ->
                     /\ stp' = [stp EXCEPT !.pc = "wake", !.then = "names", !.known = heard]
                     /\ UNCHANGED out
                [] stp.mode = "send" /\ stp.to \in heard ->
                     stp' = [stp EXCEPT !.pc = "listen"] /\ UNCHANGED out
                [] stp.mode = "send" /\ stp.to = NoAddr /\ Cardinality(heard) = 1 ->
                     /\ stp' = [stp EXCEPT !.pc = "listen", !.to = CHOOSE a \in heard : TRUE]
                     /\ UNCHANGED out
                [] OTHER -> Exit(2) /\ UNCHANGED out
  <2>1. PICK heard \in Heard :
              CASE stp.mode = "list" ->
                     /\ out' = {<<a, "unasked">> : a \in heard}
                     /\ Exit(IF heard = {} THEN 1 ELSE 0)
                [] stp.mode = "names" /\ heard = {} -> Exit(1) /\ UNCHANGED out
                [] stp.mode = "byname" \/ (stp.mode = "names" /\ heard # {}) ->
                     /\ stp' = [stp EXCEPT !.pc = "wake", !.then = "names", !.known = heard]
                     /\ UNCHANGED out
                [] stp.mode = "send" /\ stp.to \in heard ->
                     stp' = [stp EXCEPT !.pc = "listen"] /\ UNCHANGED out
                [] stp.mode = "send" /\ stp.to = NoAddr /\ Cardinality(heard) = 1 ->
                     /\ stp' = [stp EXCEPT !.pc = "listen", !.to = CHOOSE a \in heard : TRUE]
                     /\ UNCHANGED out
                [] OTHER -> Exit(2) /\ UNCHANGED out
    BY <1>7
  <2>2. NoAddr \notin heard
    BY HeardIs, PeerSendConstants
  <2>3. \/ stp.mode = "list" /\ out' = {<<a, "unasked">> : a \in heard} /\ Exit(IF heard = {} THEN 1 ELSE 0)
        \/ Exit(1) /\ UNCHANGED out
        \/ /\ stp.mode \in {"names", "byname"} /\ UNCHANGED out
           /\ stp' = [stp EXCEPT !.pc = "wake", !.then = "names", !.known = heard]
        \/ stp.mode = "send" /\ stp.to \in heard /\ stp' = [stp EXCEPT !.pc = "listen"] /\ UNCHANGED out
        \/ /\ stp.mode = "send" /\ stp.to = NoAddr /\ Cardinality(heard) = 1 /\ UNCHANGED out
           /\ stp' = [stp EXCEPT !.pc = "listen", !.to = CHOOSE a \in heard : TRUE]
        \/ Exit(2) /\ UNCHANGED out
    BY <2>1, <2>2
  <2>4. CASE stp.mode = "list" /\ out' = {<<a, "unasked">> : a \in heard} /\ Exit(IF heard = {} THEN 1 ELSE 0)
    BY <1>0, <1>3, <2>4
  <2>5. CASE (Exit(1) \/ Exit(2)) /\ UNCHANGED out
    BY <1>0, <1>1, <2>5
  <2>6. CASE /\ stp.mode \in {"names", "byname"} /\ UNCHANGED out
             /\ stp' = [stp EXCEPT !.pc = "wake", !.then = "names", !.known = heard]
    BY <1>0, <1>4, <2>6
  <2>7. CASE stp.mode = "send" /\ stp.to \in heard /\ stp' = [stp EXCEPT !.pc = "listen"] /\ UNCHANGED out
    BY <1>0, <1>5, <2>7
  <2>8. CASE /\ stp.mode = "send" /\ stp.to = NoAddr /\ Cardinality(heard) = 1 /\ UNCHANGED out
             /\ stp' = [stp EXCEPT !.pc = "listen", !.to = CHOOSE a \in heard : TRUE]
    BY <1>0, <1>6, <2>8
  <2>9. QED
    BY <2>3, <2>4, <2>5, <2>6, <2>7, <2>8
<1>8. QED
  BY <1>2, <1>7 DEF ReadPeers

\* The run ends with the transfer's status.
LEMMA ReapIs ==
  ASSUME stp \in StpType, snd \in SndType, Reap
  PROVE  /\ Gone /\ stp'.rc = snd.rc /\ stp.pc = "reap" /\ snd.pc = "over"
         /\ UNCHANGED <<nameOf, lookupVars, sig, termed, slot, adv, snd, peerVars>>
<1>1. snd.rc \in Nat
  BY DEF SndType
<1>2. QED
  BY <1>1, ExitIs DEF Reap, Gone, SameRun

\* A stage of the main thread never changes whom the run is for.
LEMMA StagesIs ==
  ASSUME stp \in StpType, snd \in SndType, Stages
  PROVE  /\ StpAlive /\ SameRun /\ stp'.to = stp.to /\ stp'.pc # "off"
         /\ stp'.pc = "gone" => Reap \/ stp'.rc = 1
<1> DEFINE Goal == /\ SameRun /\ stp'.to = stp.to /\ stp'.pc # "off"
                   /\ stp'.pc = "gone" => Reap \/ stp'.rc = 1
<1>0. SUFFICES Goal
  BY DEF Stages, WakeSpawn, WakeStore, WakeReady, NamesDone, Listen, Wait, DropWake, ReapWake, SpawnSender,
         StorePid, Reap, StpAlive
<1>1. stp.then \in {"names", "wait"}
  BY DEF StpType
<1>2. ASSUME NEW pc \in StpPcs \ {"off", "gone"}, NEW b \in BOOLEAN
      PROVE  /\ stp' = [stp EXCEPT !.pc = pc] => Goal
             /\ stp' = [stp EXCEPT !.pc = pc, !.ready = b] => Goal
             /\ stp' = [stp EXCEPT !.pc = pc, !.opened = b] => Goal
             /\ stp' = [stp EXCEPT !.pc = pc, !.then = "wait"] => Goal
  <2>1. stp' = [stp EXCEPT !.pc = pc] => Goal
    BY <1>2 DEF StpType, SameRun
  <2>2. stp' = [stp EXCEPT !.pc = pc, !.ready = b] => Goal
    BY <1>2 DEF StpType, SameRun
  <2>3. stp' = [stp EXCEPT !.pc = pc, !.opened = b] => Goal
    BY <1>2 DEF StpType, SameRun
  <2>4. stp' = [stp EXCEPT !.pc = pc, !.then = "wait"] => Goal
    BY <1>2 DEF StpType, SameRun
  <2>5. QED
    BY <2>1, <2>2, <2>3, <2>4
<1> HIDE DEF Goal
<1>3. CASE WakeSpawn \/ WakeReady
  BY <1>1, <1>2, <1>3 DEF WakeSpawn, WakeReady, StpPcs
<1>4. CASE WakeStore \/ NamesDone \/ Listen \/ DropWake \/ ReapWake \/ StorePid
  BY <1>2, <1>4 DEF WakeStore, NamesDone, Listen, DropWake, ReapWake, StorePid, StpPcs
<1>5. CASE Wait
  BY <1>2, <1>5 DEF Wait, StpPcs
<1>6. CASE SpawnSender
  BY <1>2, <1>6, ExitIs DEF SpawnSender, StpPcs, SameRun, Goal
<1>7. CASE Reap
  BY <1>7, ReapIs DEF Gone, SameRun, Goal
<1>8. QED
  BY <1>3, <1>4, <1>5, <1>6, <1>7 DEF Stages

\* After a wake: the end of the run, its rows, or the transfer's stages.
LEMMA AfterWakeIs ==
  ASSUME stp \in StpType, AfterWake
  PROVE  /\ stp.pc = "dropped" /\ SameRun
         /\ \/ Gone /\ out' = out /\ stp'.rc # 0 /\ (stp.mode # "names" \/ stp.then = "wait")
            \/ /\ Gone /\ stp.mode = "names"
               /\ out' = IF stp.stream THEN out
                         ELSE {<<a, IF answer[a] = "unasked" THEN "none" ELSE answer[a]>> :
                                   a \in {b \in Addrs : probe[b] # "no"}}
            \/ stp.then = "wait" /\ stp'.pc = "send" /\ stp'.to = stp.to /\ stp'.then = stp.then /\ out' = out
            \/ /\ stp.then = "names" /\ stp.mode # "names" /\ stp'.pc = "listen" /\ out' = out
               /\ stp'.to \in Addrs
         /\ UNCHANGED <<nameOf, probe, answer, sigVars, adv, snd, peerVars>>
<1> DEFINE matches == {a \in Addrs : answer[a] \in {"want", "part"}}
<1>0. /\ stp.pc = "dropped" /\ UNCHANGED <<nameOf, probe, answer, sigVars, adv, snd, peerVars>>
      /\ stp.then \in {"names", "wait"}
  BY DEF AfterWake, StpType
<1>1. ASSUME NEW rc \in Nat, Exit(rc) PROVE Gone /\ SameRun /\ stp'.rc = rc
  BY <1>1, ExitIs DEF Gone, SameRun
<1>2. CASE stp.then = "wait"
  <2>1. UNCHANGED out /\ IF stp.opened THEN stp' = [stp EXCEPT !.pc = "send"] ELSE Exit(3)
    BY <1>2 DEF AfterWake
  <2>2. stp' = [stp EXCEPT !.pc = "send"] => SameRun /\ stp'.pc = "send" /\ stp'.to = stp.to /\ stp'.then = stp.then
    BY DEF StpType, StpPcs, SameRun
  <2>3. QED
    BY <1>0, <1>1, <1>2, <2>1, <2>2
<1>3. CASE stp.then = "names" /\ stp.mode = "names"
  <2>1. /\ Exit(0)
        /\ out' = IF stp.stream THEN out
                  ELSE {<<a, IF answer[a] = "unasked" THEN "none" ELSE answer[a]>> :
                            a \in {b \in Addrs : probe[b] # "no"}}
    BY <1>3 DEF AfterWake
  <2>2. QED
    BY <1>0, <1>1, <1>3, <2>1
<1>4. CASE stp.then = "names" /\ stp.mode # "names"
  <2>1. /\ UNCHANGED out
        /\ IF Cardinality(matches) = 1 THEN stp' = [stp EXCEPT !.pc = "listen", !.to = CHOOSE a \in matches : TRUE]
                                        ELSE Exit(2)
    BY <1>4 DEF AfterWake
  <2>2. CASE Cardinality(matches) = 1
    <3>1. (CHOOSE a \in matches : TRUE) \in Addrs
      BY <2>2, TheOnly
    <3>2. stp' = [stp EXCEPT !.pc = "listen", !.to = CHOOSE a \in matches : TRUE]
      BY <2>1, <2>2
    <3> HIDE DEF matches
    <3>3. SameRun /\ stp'.pc = "listen" /\ stp'.to \in Addrs
      BY <3>1, <3>2 DEF StpType, StpPcs, SameRun
    <3>4. QED
      BY <1>0, <1>4, <2>1, <3>3
  <2>3. CASE Cardinality(matches) # 1
    BY <1>0, <1>1, <1>4, <2>1, <2>3
  <2>4. QED
    BY <2>2, <2>3
<1>5. QED
  BY <1>0, <1>2, <1>3, <1>4

\* A new run has told, printed and asked nothing; the rest is as it was.
Fresh(mode) ==
    /\ stp' \in StpType /\ stp'.pc = "peers" /\ stp'.mode = mode /\ stp'.then = "names"
    /\ probe' \in [Addrs -> {"no", "queued", "asking", "told"}] /\ \A a \in Addrs : probe'[a] = "no"
    /\ answer' \in [Addrs -> Answers] /\ \A a \in Addrs : answer'[a] = "unasked"
    /\ out' = {} /\ sig' = "idle" /\ termed' = {} /\ slot' = FALSE /\ spid' = FALSE
    /\ snd' \in SndType /\ snd'.pc = "none"
    /\ UNCHANGED <<nameOf, adv, file, asks, delivered>>

\* The command dies with status 1, before anything else.
Died == cli' \in CliType /\ cli'.pc = "exited" /\ cli'.cmd = cli.cmd /\ cli'.rc = 1
        /\ cli'.signalled = cli.signalled /\ cli'.rows = NoRow /\ UNCHANGED psVars

\* A command that dies leaves everything else alone.
LEMMA DiedIs == ASSUME cli \in CliType, Die, UNCHANGED psVars PROVE Died
BY QuitIs DEF Die, Died

\* The command goes on with what it had.
SameCli ==
    /\ cli' \in CliType /\ cli'.cmd = cli.cmd /\ cli'.to = cli.to /\ cli'.rc = cli.rc /\ cli'.next = cli.next
    /\ cli'.addr = cli.addr /\ cli'.signalled = cli.signalled /\ cli'.lost = cli.lost
SameTraps == cli'.trapped = cli.trapped /\ cli'.caught = cli.caught

\* --list by address.
LEMMA ListIs ==
  ASSUME cli \in CliType, List
  PROVE  /\ cli.pc = "choose" /\ cli.to # "name" /\ Fresh("list")
         /\ SameCli /\ SameTraps /\ cli'.pc = "listing" /\ cli'.rows = cli.rows
<1>1. cli.kind \in {"files", "links"}
  BY DEF CliType
<1>2. Spawn("list", NoAddr, cli.kind, FALSE) /\ UNCHANGED <<nameOf, adv, peerVars>> /\ cli' = [cli EXCEPT !.pc = "listing"]
  BY DEF List
<1>3. Fresh("list")
  BY <1>1, <1>2, SpawnIs DEF Fresh, peerVars
<1>4. QED
  BY <1>2, <1>3 DEF List, CliType, CliPcs, SameCli, SameTraps

\* A lookup pass starts, or the command dies.
LEMMA PassIs ==
  ASSUME cli \in CliType, Pass
  PROVE  /\ cli.pc = "look"
         /\ \/ Died
            \/ Fresh("names") /\ SameCli /\ SameTraps /\ cli'.pc = "pass" /\ cli'.rows = cli.rows
<1>1. cli.kind \in {"files", "links"} /\ cli.passes + 1 \in 0..MaxPasses
  BY CliSendConstants DEF CliType, Pass
<1>2. CASE Die /\ UNCHANGED cliElse
  BY <1>2, DiedIs DEF cliElse, Pass
<1>3. CASE (\E stream \in BOOLEAN : Spawn("names", NoAddr, cli.kind, stream))
           /\ cli' = [cli EXCEPT !.pc = "pass", !.passes = @ + 1] /\ UNCHANGED <<nameOf, adv, peerVars>>
  <2>1. Fresh("names")
    BY <1>1, <1>3, SpawnIs DEF Fresh, peerVars
  <2>2. SameCli /\ SameTraps /\ cli'.pc = "pass" /\ cli'.rows = cli.rows
    BY <1>1, <1>3 DEF CliType, CliPcs, SameCli, SameTraps
  <2>3. QED
    BY <1>3, <2>1, <2>2 DEF Pass
<1>4. QED
  BY <1>2, <1>3 DEF Pass

\* The lookup by name begins.
LEMMA LookIs ==
  ASSUME cli \in CliType, Look
  PROVE  /\ cli.pc = "choose" /\ cli.to = "name" /\ UNCHANGED psVars
         /\ SameCli /\ cli'.pc = "look" /\ cli'.trapped = TRUE /\ cli'.caught = cli.caught /\ cli'.rows = cli.rows
BY DEF Look, CliType, CliPcs, SameCli, cliElse

\* A signal is noted, or ends the command.
LEMMA SignalIs ==
  ASSUME cli \in CliType, Signal
  PROVE  /\ cli.pc \notin {"shell", "exited", "hand"} /\ UNCHANGED psVars
         /\ \/ /\ cli.trapped
               /\ cli' \in CliType /\ cli'.pc = cli.pc /\ cli'.cmd = cli.cmd /\ cli'.to = cli.to
               /\ cli'.rc = cli.rc /\ cli'.next = cli.next /\ cli'.rows = cli.rows
               /\ cli'.trapped = cli.trapped /\ cli'.signalled = TRUE
               /\ cli.pc \notin {"stop", "grace"} => cli'.caught = TRUE
               /\ cli'.lost = (cli.pc \in {"unlook", "unsend"})
            \/ /\ ~cli.trapped
               /\ cli' \in CliType /\ cli'.pc = "exited" /\ cli'.cmd = cli.cmd /\ cli'.rc = 143
               /\ cli'.rows = NoRow
<1>1. cli.pc \notin {"shell", "exited", "hand"} /\ UNCHANGED psVars
  BY DEF Signal, cliElse
<1>2. CASE cli.trapped
  <2> DEFINE seen == cli.pc \notin {"stop", "grace"}
             past == cli.pc \in {"unlook", "unsend"}
  <2>1. /\ cli' = [cli EXCEPT !.signalled = TRUE, !.lost = past, !.caught = seen]
        /\ seen \in BOOLEAN /\ past \in BOOLEAN
    BY <1>2 DEF Signal, Untrapping
  <2>2. /\ cli.pc \notin {"stop", "grace"} => seen = TRUE
        /\ past = (cli.pc \in {"unlook", "unsend"})
    OBVIOUS
  <2> HIDE DEF seen, past
  <2>3. /\ cli' \in CliType /\ cli'.pc = cli.pc /\ cli'.cmd = cli.cmd /\ cli'.to = cli.to
        /\ cli'.rc = cli.rc /\ cli'.next = cli.next /\ cli'.rows = cli.rows
        /\ cli'.trapped = cli.trapped /\ cli'.signalled = TRUE /\ cli'.caught = seen /\ cli'.lost = past
    BY <2>1 DEF CliType
  <2>4. QED
    BY <1>1, <1>2, <2>2, <2>3
<1>3. CASE ~cli.trapped
  <2>1. cli' = Ended(143, TRUE)
    BY <1>3 DEF Signal
  <2>2. QED
    BY <1>1, <1>3, <2>1, EndedIs
<1>4. QED
  BY <1>2, <1>3

\* omdrop peers starts its run, or dies.
LEMMA PeersIs ==
  ASSUME cli \in CliType, Peers
  PROVE  /\ cli.pc = "shell"
         /\ \/ Died
            \/ /\ Fresh("list") \/ Fresh("names")
               /\ cli' \in CliType /\ cli'.pc = "send" /\ cli'.cmd = "peers" /\ cli'.trapped = TRUE
               /\ cli'.signalled = FALSE /\ cli'.caught = FALSE /\ cli'.rows = NoRow
<1>1. CASE Die /\ UNCHANGED cliElse
  BY <1>1, DiedIs DEF cliElse, Peers
<1>2. CASE /\ \E m \in {<<"list", FALSE>>, <<"names", FALSE>>, <<"names", TRUE>>} : Spawn(m[1], NoAddr, "files", m[2])
           /\ cli' = [NoCli EXCEPT !.pc = "send", !.cmd = "peers", !.trapped = TRUE]
           /\ UNCHANGED <<nameOf, adv, peerVars>>
  <2>1. PICK m \in {<<"list", FALSE>>, <<"names", FALSE>>, <<"names", TRUE>>} :
            Spawn(m[1], NoAddr, "files", m[2])
    BY <1>2
  <2>2. ASSUME NEW mode \in {"list", "names"}, NEW stream \in BOOLEAN, m = <<mode, stream>>
        PROVE  Fresh(mode)
    <3>1. Spawn(mode, NoAddr, "files", stream)
      BY <2>1, <2>2
    <3>2. mode \in {"list", "names", "byname", "send"} /\ NoAddr \in Addrs \union {NoAddr}
      OBVIOUS
    <3>3. QED
      BY <1>2, <3>1, <3>2, SpawnIs DEF Fresh, peerVars
  <2>a. Fresh("list") \/ Fresh("names")
    <3>1. CASE m = <<"list", FALSE>>
      BY <2>2, <3>1
    <3>2. CASE m = <<"names", FALSE>>
      BY <2>2, <3>2
    <3>3. CASE m = <<"names", TRUE>>
      BY <2>2, <3>3
    <3>4. QED
      BY <3>1, <3>2, <3>3
  <2>3. /\ cli' \in CliType /\ cli'.pc = "send" /\ cli'.cmd = "peers" /\ cli'.trapped = TRUE
        /\ cli'.signalled = FALSE /\ cli'.caught = FALSE /\ cli'.rows = NoRow
    BY <1>2, NoCliIs DEF CliType, CliPcs
  <2>4. QED
    BY <2>2, <2>a, <2>3 DEF Peers
<1>3. QED
  BY <1>1, <1>2 DEF Peers

\* A run by hand.
LEMMA ByHandIs ==
  ASSUME cli \in CliType, ByHand
  PROVE  /\ cli.pc = "shell" /\ cli' \in CliType /\ cli'.pc = "hand" /\ cli'.rows = NoRow
         /\ \E mode \in {"names", "byname", "send"} : Fresh(mode)
<1>1. cli.pc = "shell" /\ cli' = [NoCli EXCEPT !.pc = "hand"] /\ UNCHANGED <<nameOf, adv, peerVars>>
  BY DEF ByHand
<1>2. PICK mode \in {"names", "byname", "send"}, a \in Addrs \union {NoAddr} :
          Spawn(mode, IF mode = "send" THEN a ELSE NoAddr, "files", FALSE)
  BY DEF ByHand
<1>3. (IF mode = "send" THEN a ELSE NoAddr) \in Addrs \union {NoAddr} /\ mode \in {"list", "names", "byname", "send"}
  OBVIOUS
<1>4. Fresh(mode)
  BY <1>1, <1>2, <1>3, SpawnIs DEF Fresh, peerVars
<1>5. cli' \in CliType /\ cli'.pc = "hand" /\ cli'.rows = NoRow
  BY <1>1, NoCliIs DEF CliType, CliPcs
<1>6. QED
  BY <1>1, <1>4, <1>5

\* The one device chosen gets the transfer, or the command dies.
LEMMA TransferIs ==
  ASSUME cli \in CliType, Transfer
  PROVE  /\ cli.pc = "match" /\ ~StpAlive
         /\ \/ Died
            \/ /\ Fresh("send") /\ stp'.to \in Addrs /\ Chosen = {stp'.to}
               /\ SameCli /\ cli'.pc = "send" /\ cli'.trapped = TRUE /\ cli'.caught = FALSE
               /\ cli'.rows = cli.rows
<1>1. cli.pc = "match" /\ ~StpAlive /\ cli.kind \in {"files", "links"}
  BY DEF Transfer, CliType
<1>2. CASE Die /\ UNCHANGED cliElse
  BY <1>1, <1>2, DiedIs DEF cliElse
<1>3. CASE /\ Cardinality(Chosen) = 1 /\ Spawn("send", CHOOSE a \in Chosen : TRUE, cli.kind, FALSE)
           /\ cli' = [cli EXCEPT !.pc = "send", !.trapped = TRUE, !.caught = FALSE]
           /\ UNCHANGED <<nameOf, adv, peerVars>>
  <2> DEFINE who == CHOOSE a \in Chosen : TRUE
  <2>1. who \in Addrs /\ Chosen = {who}
    BY <1>3, ChosenIs, TheOnly
  <2>2. Spawn("send", who, cli.kind, FALSE)
    BY <1>3
  <2> HIDE DEF who
  <2>3. Fresh("send") /\ stp'.to = who
    BY <1>1, <1>3, <2>1, <2>2, SpawnIs DEF Fresh, peerVars
  <2>4. /\ SameCli /\ cli'.pc = "send" /\ cli'.trapped = TRUE /\ cli'.caught = FALSE
        /\ cli'.rows = cli.rows
    BY <1>3 DEF CliType, CliPcs, SameCli
  <2>5. QED
    BY <1>1, <1>3, <2>1, <2>3, <2>4
<1>4. QED
  BY <1>2, <1>3 DEF Transfer

\* The list is read, or the command dies.
LEMMA ListedIs ==
  ASSUME Records, Listed
  PROVE  /\ cli.pc = "listing" /\ ~StpAlive
         /\ UNCHANGED <<nameOf, stp, probe, answer, sigVars, adv, snd, peerVars>>
         /\ \/ Died
            \/ /\ out' = {} /\ SameCli /\ SameTraps /\ cli'.pc = "match"
               /\ \A a \in Addrs : cli'.rows[a] \in {"unasked", "unheard"}
<1> DEFINE rows == [a \in Addrs |-> IF <<a, "unasked">> \in out THEN "unasked" ELSE "unheard"]
<1>1. /\ cli.pc = "listing" /\ ~StpAlive /\ UNCHANGED <<nameOf, stp, probe, answer, sigVars, adv, snd, peerVars>>
      /\ \/ Die /\ UNCHANGED out
         \/ cli' = [cli EXCEPT !.pc = "match", !.rows = rows] /\ out' = {}
  BY DEF Listed
<1>2. Die /\ UNCHANGED out => Died
  BY <1>1, DiedIs DEF psVars, lookupVars, Records
<1>3. rows \in [Addrs -> Answers \union {"unheard"}] /\ \A a \in Addrs : rows[a] \in {"unasked", "unheard"}
  BY DEF Answers
<1> HIDE DEF rows
<1>4. cli' = [cli EXCEPT !.pc = "match", !.rows = rows] => 
          SameCli /\ SameTraps /\ cli'.pc = "match" /\ cli'.rows = rows
  BY <1>3 DEF CliType, CliPcs, Records, SameCli, SameTraps
<1>5. QED
  BY <1>1, <1>2, <1>3, <1>4

\* A row goes from the pipe to the rows kept.
LEMMA ReadRowIs ==
  ASSUME Typed, ReadRow
  PROVE  /\ cli.pc = "pass" /\ UNCHANGED <<nameOf, stp, probe, answer, sigVars, adv, snd, peerVars>>
         /\ \E row \in out :
               /\ row[1] \in Addrs /\ row[2] \in Answers /\ row = <<row[1], row[2]>>
               /\ out' = out \ {row} /\ SameCli /\ SameTraps /\ cli'.pc = "pass"
               /\ cli'.rows = Hear(row[1], row[2])
<1>1. cli.pc = "pass" /\ UNCHANGED <<nameOf, stp, probe, answer, sigVars, adv, snd, peerVars>>
  BY DEF ReadRow
<1>2. PICK row \in out :
          /\ out' = out \ {row}
          /\ cli' = [cli EXCEPT !.rows = Hear(row[1], row[2]), !.found = @ \/ row[2] \in {"want", "part"}]
  BY DEF ReadRow
<1>3. row[1] \in Addrs /\ row[2] \in Answers /\ row = <<row[1], row[2]>>
  BY DEF Typed
<1>4. Hear(row[1], row[2]) \in [Addrs -> Answers \union {"unheard"}]
  BY <1>3 DEF Hear, Typed, Records, CliType
<1>5. (cli.found \/ row[2] \in {"want", "part"}) \in BOOLEAN
  OBVIOUS
<1> DEFINE heard == Hear(row[1], row[2])
           found == cli.found \/ row[2] \in {"want", "part"}
<1>6. heard \in [Addrs -> Answers \union {"unheard"}] /\ found \in BOOLEAN
      /\ cli' = [cli EXCEPT !.rows = heard, !.found = found]
  BY <1>2, <1>4
<1> HIDE DEF heard, found
<1>7. SameCli /\ SameTraps /\ cli'.pc = "pass" /\ cli'.rows = heard
  BY <1>1, <1>6 DEF CliType, Typed, Records, SameCli, SameTraps
<1>8. cli'.rows = Hear(row[1], row[2])
  BY <1>7 DEF heard
<1>9. QED
  BY <1>1, <1>2, <1>3, <1>7, <1>8

\* omdrop send begins, or dies.
LEMMA SendIs ==
  ASSUME cli \in CliType, Send
  PROVE  /\ cli.pc = "shell" /\ cli' \in CliType /\ UNCHANGED psVars
         /\ \/ Died
            \/ /\ cli'.pc = IF cli'.trapped THEN "pick" ELSE "radio"
               /\ cli'.cmd = "send" /\ cli'.rows = NoRow
               /\ cli'.signalled = FALSE /\ cli'.caught = FALSE
<1>1. cli.pc = "shell" /\ UNCHANGED psVars
  BY DEF Send, cliElse
<1>2. CASE Die
  BY <1>1, <1>2, DiedIs DEF Died
<1>3. ASSUME NEW to \in {"none", "name", "addr"}, NEW kind \in {"files", "links"},
             NEW addr \in Addrs \union {NoAddr}, NEW pick \in Pickers,
             NEW pc \in {"pick", "radio"}, pc = IF pick THEN "pick" ELSE "radio",
             cli' = [NoCli EXCEPT !.pc = pc, !.cmd = "send",
                                  !.to = to, !.addr = addr, !.kind = kind, !.trapped = pick]
      PROVE  /\ cli' \in CliType /\ cli'.pc = IF cli'.trapped THEN "pick" ELSE "radio"
             /\ cli'.cmd = "send" /\ cli'.rows = NoRow
             /\ cli'.signalled = FALSE /\ cli'.caught = FALSE
  <2>1. pick \in BOOLEAN
    BY CliSendConstants
  <2> DEFINE half == [NoCli EXCEPT !.pc = pc, !.cmd = "send", !.trapped = pick]
  <2>a. half \in CliType
    BY <2>1, NoCliIs DEF CliType, CliPcs
  <2>b. cli' = [half EXCEPT !.to = to, !.addr = addr, !.kind = kind]
    BY <1>3, NoCliIs DEF CliType
  <2>2. cli' \in CliType
    <3> HIDE DEF half
    <3>1. QED
      BY <2>a, <2>b DEF CliType
  <2>3. cli'.pc = pc /\ cli'.trapped = pick /\ cli'.cmd = "send" /\ cli'.rows = NoRow
        /\ cli'.signalled = FALSE /\ cli'.caught = FALSE
    BY <1>3, NoCliIs DEF CliType
  <2>4. QED
    BY <1>3, <2>2, <2>3
<1>4. CASE ~Die
  <2>0. \E args \in ArgLists, to \in {"none", "name", "addr"}, a \in Addrs, pick \in Pickers :
          \/ Die
          \/ /\ Classify(args, to).ok
             /\ cli' = [NoCli EXCEPT !.pc = IF pick THEN "pick" ELSE "radio", !.cmd = "send",
                                     !.to = Classify(args, to).to,
                                     !.addr = IF Classify(args, to).to = "addr" THEN a ELSE NoAddr,
                                     !.kind = Classify(args, to).kind, !.trapped = pick]
    BY Zenon DEF Send
  <2>1. PICK args \in ArgLists, to \in {"none", "name", "addr"}, a \in Addrs, pick \in Pickers :
          \/ Die
          \/ /\ Classify(args, to).ok
             /\ cli' = [NoCli EXCEPT !.pc = IF pick THEN "pick" ELSE "radio", !.cmd = "send",
                                  !.to = Classify(args, to).to,
                                  !.addr = IF Classify(args, to).to = "addr" THEN a ELSE NoAddr,
                                  !.kind = Classify(args, to).kind, !.trapped = pick]
    BY <2>0
  <2>2. Classify(args, to).to \in {"none", "name", "addr"} /\ Classify(args, to).kind \in {"files", "links"}
    BY <1>4, <2>1, ClassifyIs
  <2> DEFINE rcpt == Classify(args, to).to
             kind == Classify(args, to).kind
             addr == IF rcpt = "addr" THEN a ELSE NoAddr
             pc == IF pick THEN "pick" ELSE "radio"
  <2>3. /\ rcpt \in {"none", "name", "addr"} /\ kind \in {"files", "links"} /\ addr \in Addrs \union {NoAddr}
        /\ pc \in {"pick", "radio"} /\ pc = IF pick THEN "pick" ELSE "radio"
        /\ cli' = [NoCli EXCEPT !.pc = pc, !.cmd = "send",
                                !.to = rcpt, !.addr = addr, !.kind = kind, !.trapped = pick]
    BY <1>4, <2>1, <2>2
  <2> HIDE DEF rcpt, kind, addr, pc
  <2>4. /\ cli' \in CliType /\ cli'.pc = IF cli'.trapped THEN "pick" ELSE "radio"
        /\ cli'.cmd = "send" /\ cli'.rows = NoRow
        /\ cli'.signalled = FALSE /\ cli'.caught = FALSE
    BY <1>3, <2>3
  <2>5. QED
    BY <1>1, <2>4
<1>5. QED
  BY <1>2, <1>4

\* A run that looks names up stays alive until it is through, and does not go back.
LEMMA NamesStages ==
  ASSUME stp \in StpType, snd \in SndType, Course, stp.mode = "names", Stages
  PROVE  StpAlive' /\ (stp'.pc \in Early => stp.pc \in Early)
<1>1. /\ stp.then = "names" /\ stp.pc \notin {"off", "listen", "wait", "send", "store", "reap"}
      /\ StpAlive /\ stp'.pc # "off" /\ (stp'.pc = "gone" => Reap \/ stp'.rc = 1)
  BY StagesIs DEF Course
<1>2. \/ WakeSpawn \/ WakeStore \/ WakeReady \/ NamesDone \/ DropWake \/ ReapWake
  BY <1>1 DEF Stages, Listen, Wait, SpawnSender, StorePid, Reap
<1>3. \/ stp.pc \in {"wake", "slot", "ready"} /\ stp'.pc \in {"slot", "ready", "names"}
      \/ stp'.pc \in {"drop", "reapwake", "dropped"}
  BY <1>1, <1>2 DEF WakeSpawn, WakeStore, WakeReady, NamesDone, DropWake, ReapWake, StpType
<1>4. QED
  BY <1>3 DEF Early, StpAlive

-----------------------------------------------------------------------------
(* Typing. *)

\* The main thread's record keeps its type.
LEMMA StpTyped ==
  ASSUME SendInv, [Next]_vars
  PROVE  stp' \in StpType
<1>0. Typed /\ Records /\ stp \in StpType /\ snd \in SndType /\ cli \in CliType
  BY Parts
<1>1. CASE UNCHANGED vars
  BY <1>0, <1>1 DEF vars, lookupVars, sigVars, peerVars, psVars, cliElse, sndElse, StpType
<1>2. CASE Prober
  <2>1. CASE StartProbes /\ UNCHANGED cli
    BY <1>0, <2>1 DEF StartProbes, StpType, StpPcs, lookupVars, sigVars, peerVars, psVars, cliElse,
        sndElse
  <2>2. CASE Rescan /\ UNCHANGED cli
    BY <1>0, <2>2, HeardIs DEF Rescan, StpType, StpPcs, lookupVars, sigVars, peerVars, psVars, cliElse,
        sndElse
  <2>3. ASSUME NEW a \in Addrs, ProbeStart(a), UNCHANGED cli PROVE stp' \in StpType
    BY <1>0, <2>3 DEF ProbeStart, StpAlive, StpType, StpPcs, lookupVars, sigVars, peerVars, psVars,
        cliElse, sndElse
  <2>4. ASSUME NEW a \in Addrs, ProbeEnd(a), UNCHANGED cli PROVE stp' \in StpType
    BY <1>0, <2>4 DEF ProbeEnd, StpAlive, PeerName, StpType, StpPcs, lookupVars, sigVars, peerVars,
        psVars, cliElse, sndElse
  <2>5. QED
    BY <1>2, <2>1, <2>2, <2>3, <2>4 DEF Prober
<1>3. CASE Stages
  <2>1. CASE WakeSpawn /\ UNCHANGED cli
    BY <1>0, <2>1 DEF WakeSpawn, AdvAlive, StpType, StpPcs, lookupVars, sigVars, peerVars, psVars,
        cliElse, sndElse
  <2>2. CASE WakeStore /\ UNCHANGED cli
    BY <1>0, <2>2 DEF WakeStore, StpType, StpPcs, lookupVars, sigVars, peerVars, psVars, cliElse,
        sndElse
  <2>3. CASE WakeReady /\ UNCHANGED cli
    BY <1>0, <2>3 DEF WakeReady, AdvAlive, StpType, StpPcs, lookupVars, sigVars, peerVars, psVars,
        cliElse, sndElse
  <2>4. CASE NamesDone /\ UNCHANGED cli
    BY <1>0, <2>4 DEF NamesDone, StpType, StpPcs, lookupVars, sigVars, peerVars, psVars, cliElse,
        sndElse
  <2>5. CASE Listen /\ UNCHANGED cli
    BY <1>0, <2>5 DEF Listen, StpType, StpPcs, lookupVars, sigVars, peerVars, psVars, cliElse, sndElse
  <2>6. CASE Wait /\ UNCHANGED cli
    BY <1>0, <2>6 DEF Wait, StpType, StpPcs, lookupVars, sigVars, peerVars, psVars, cliElse, sndElse
  <2>7. CASE DropWake /\ UNCHANGED cli
    BY <1>0, <2>7 DEF DropWake, Terminate, AdvAlive, StpType, StpPcs, lookupVars, sigVars, peerVars,
        psVars, cliElse, sndElse
  <2>8. CASE ReapWake /\ UNCHANGED cli
    BY <1>0, <2>8 DEF ReapWake, StpType, StpPcs, lookupVars, sigVars, peerVars, psVars, cliElse, sndElse
  <2>9. CASE SpawnSender /\ UNCHANGED cli
    BY <1>0, <2>9, ExitIs, NoSndIs DEF SpawnSender, StpType, StpPcs, lookupVars, sigVars, peerVars,
        psVars, cliElse, sndElse
  <2>10. CASE StorePid /\ UNCHANGED cli
    BY <1>0, <2>10 DEF StorePid, StpType, StpPcs, lookupVars, sigVars, peerVars, psVars, cliElse,
        sndElse
  <2>11. CASE Reap /\ UNCHANGED cli
    BY <1>0, <2>11, ReapIs DEF SameRun, Gone, StpType, StpPcs, lookupVars, sigVars, peerVars, psVars,
        cliElse, sndElse
  <2>12. QED
    BY <1>3, <2>1, <2>2, <2>3, <2>4, <2>5, <2>6, <2>7, <2>8, <2>9, <2>10, <2>11 DEF Stages
<1>4. CASE Signaller
  BY <1>0, <1>4, SignallerKeeps DEF StpType, lookupVars, sigVars, peerVars, psVars, cliElse, sndElse
<1>5. CASE Advert
  BY <1>0, <1>5, AdvertKeeps DEF StpType, lookupVars, sigVars, peerVars, psVars, cliElse, sndElse
<1>6. CASE Transferring
  BY <1>0, <1>6, TransferringKeeps DEF StpType, lookupVars, sigVars, peerVars, psVars, cliElse, sndElse
<1>7. CASE Alone
  BY <1>0, <1>7, AloneKeeps DEF StpType, lookupVars, sigVars, peerVars, psVars, cliElse, sndElse
<1>8. CASE ReadPeers /\ UNCHANGED cli
  BY <1>0, <1>8, ReadPeersIs DEF SameRun, Gone, StpType, StpPcs, lookupVars, sigVars, peerVars, psVars,
      cliElse, sndElse
<1>9. CASE AfterWake /\ UNCHANGED cli
  BY <1>0, <1>9, AfterWakeIs DEF SameRun, Gone, StpType, StpPcs, lookupVars, sigVars, peerVars, psVars,
      cliElse, sndElse
<1>10. CASE SigExit /\ UNCHANGED cli
  BY <1>0, <1>10, ExitIs DEF SigExit, StpType, StpPcs, lookupVars, sigVars, peerVars, psVars, cliElse,
      sndElse
<1>11. CASE SndTerm /\ UNCHANGED cli
  BY <1>0, <1>11, OverIs DEF SndTerm, SndAlive, StpType, StpPcs, lookupVars, sigVars, peerVars, psVars,
      cliElse, sndElse
<1>12. CASE EditFile /\ UNCHANGED cli
  BY <1>0, <1>12 DEF EditFile, SndAlive, StpType, StpPcs, lookupVars, sigVars, peerVars, psVars,
      cliElse, sndElse
<1>13. CASE Peers
  BY <1>0, <1>13, PeersIs DEF Fresh, Died, StpType, StpPcs, lookupVars, sigVars, peerVars, psVars,
      cliElse, sndElse
<1>14. CASE List
  BY <1>0, <1>14, ListIs DEF Fresh, SameCli, SameTraps, StpType, StpPcs, lookupVars, sigVars, peerVars,
      psVars, cliElse, sndElse
<1>15. CASE Listed
  BY <1>0, <1>15, ListedIs DEF Died, SameCli, SameTraps, StpType, StpPcs, lookupVars, sigVars, peerVars,
      psVars, cliElse, sndElse
<1>16. CASE Pass
  BY <1>0, <1>16, PassIs DEF Fresh, Died, SameCli, SameTraps, StpType, StpPcs, lookupVars, sigVars,
      peerVars, psVars, cliElse, sndElse
<1>17. CASE ReadRow
  BY <1>0, <1>17, ReadRowIs DEF SameCli, SameTraps, StpType, StpPcs, lookupVars, sigVars, peerVars,
      psVars, cliElse, sndElse
<1>18. CASE Transfer
  BY <1>0, <1>18, TransferIs DEF Fresh, Died, SameCli, StpType, StpPcs, lookupVars, sigVars, peerVars,
      psVars, cliElse, sndElse
<1>19. CASE PrintRow
  BY <1>0, <1>19, StopIs DEF PrintRow, StpType, StpPcs, lookupVars, sigVars, peerVars, psVars, cliElse,
      sndElse
<1>20. CASE StopTerm
  BY <1>0, <1>20 DEF StopTerm, TermGroup, Terminate, StpAlive, SndAlive, AdvAlive, StpType, StpPcs,
      lookupVars, sigVars, peerVars, psVars, cliElse, sndElse
<1>21. CASE StopKill
  BY <1>0, <1>21, QuitIs DEF StopKill, StpAlive, SndAlive, StpType, StpPcs, lookupVars, sigVars,
      peerVars, psVars, cliElse, sndElse
<1>22. CASE ByHand
  BY <1>0, <1>22, ByHandIs DEF Fresh, StpType, StpPcs, lookupVars, sigVars, peerVars, psVars, cliElse,
      sndElse
<1>23. CASE SignalByHand
  BY <1>0, <1>23 DEF SignalByHand, StpAlive, StpType, StpPcs, lookupVars, sigVars, peerVars, psVars,
      cliElse, sndElse
<1>24. QED
  BY <1>1, <1>2, <1>3, <1>4, <1>5, <1>6, <1>7, <1>8, <1>9, <1>10, <1>11, <1>12, <1>13, <1>14, <1>15,
      <1>16, <1>17, <1>18, <1>19, <1>20, <1>21, <1>22, <1>23, Kinds

\* The sender's record keeps its type.
LEMMA SndTyped ==
  ASSUME SendInv, [Next]_vars
  PROVE  snd' \in SndType
<1>0. Typed /\ Records /\ stp \in StpType /\ snd \in SndType /\ cli \in CliType
  BY Parts
<1>1. CASE UNCHANGED vars
  BY <1>0, <1>1 DEF vars, lookupVars, sigVars, peerVars, psVars, cliElse, sndElse, SndType
<1>2. CASE Prober
  BY <1>0, <1>2, ProberKeeps DEF SndType, lookupVars, sigVars, peerVars, psVars, cliElse, sndElse
<1>3. CASE Stages
  <2>1. CASE WakeSpawn /\ UNCHANGED cli
    BY <1>0, <2>1 DEF WakeSpawn, AdvAlive, SndType, SndPcs, lookupVars, sigVars, peerVars, psVars,
        cliElse, sndElse
  <2>2. CASE WakeStore /\ UNCHANGED cli
    BY <1>0, <2>2 DEF WakeStore, SndType, SndPcs, lookupVars, sigVars, peerVars, psVars, cliElse,
        sndElse
  <2>3. CASE WakeReady /\ UNCHANGED cli
    BY <1>0, <2>3 DEF WakeReady, AdvAlive, SndType, SndPcs, lookupVars, sigVars, peerVars, psVars,
        cliElse, sndElse
  <2>4. CASE NamesDone /\ UNCHANGED cli
    BY <1>0, <2>4 DEF NamesDone, SndType, SndPcs, lookupVars, sigVars, peerVars, psVars, cliElse,
        sndElse
  <2>5. CASE Listen /\ UNCHANGED cli
    BY <1>0, <2>5 DEF Listen, SndType, SndPcs, lookupVars, sigVars, peerVars, psVars, cliElse, sndElse
  <2>6. CASE Wait /\ UNCHANGED cli
    BY <1>0, <2>6 DEF Wait, SndType, SndPcs, lookupVars, sigVars, peerVars, psVars, cliElse, sndElse
  <2>7. CASE DropWake /\ UNCHANGED cli
    BY <1>0, <2>7 DEF DropWake, Terminate, AdvAlive, SndType, SndPcs, lookupVars, sigVars, peerVars,
        psVars, cliElse, sndElse
  <2>8. CASE ReapWake /\ UNCHANGED cli
    BY <1>0, <2>8 DEF ReapWake, SndType, SndPcs, lookupVars, sigVars, peerVars, psVars, cliElse, sndElse
  <2>9. CASE SpawnSender /\ UNCHANGED cli
    BY <1>0, <2>9, ExitIs, NoSndIs DEF SpawnSender, SndType, SndPcs, lookupVars, sigVars, peerVars,
        psVars, cliElse, sndElse
  <2>10. CASE StorePid /\ UNCHANGED cli
    BY <1>0, <2>10 DEF StorePid, SndType, SndPcs, lookupVars, sigVars, peerVars, psVars, cliElse,
        sndElse
  <2>11. CASE Reap /\ UNCHANGED cli
    BY <1>0, <2>11, ReapIs DEF SameRun, Gone, SndType, SndPcs, lookupVars, sigVars, peerVars, psVars,
        cliElse, sndElse
  <2>12. QED
    BY <1>3, <2>1, <2>2, <2>3, <2>4, <2>5, <2>6, <2>7, <2>8, <2>9, <2>10, <2>11 DEF Stages
<1>4. CASE Signaller
  BY <1>0, <1>4, SignallerKeeps DEF SndType, lookupVars, sigVars, peerVars, psVars, cliElse, sndElse
<1>5. CASE Advert
  BY <1>0, <1>5, AdvertKeeps DEF SndType, lookupVars, sigVars, peerVars, psVars, cliElse, sndElse
<1>6. CASE Transferring
  <2>1. CASE SndOptions /\ UNCHANGED cli
    <3>1. CASE Over(2)
      BY <1>0, <3>1, OverIs
    <3>2. CASE snd' = [Outgoing EXCEPT !.pc = "identity"]
      <4>1. file.size \in Nat
        BY <1>0 DEF Typed
      <4>2. QED
        BY <1>0, <3>2, <4>1 DEF SndType, SndPcs, Outgoing
    <3>3. QED
      BY <2>1, <3>1, <3>2 DEF SndOptions
  <2>2. CASE SndOpen /\ UNCHANGED cli
    BY <1>0, <2>2, OverIs DEF SndOpen, SndType, SndPcs, lookupVars, sigVars, peerVars, psVars, cliElse,
        sndElse
  <2>3. CASE SndDiscover /\ UNCHANGED cli
    BY <1>0, <2>3, OverIs DEF SndDiscover, SndType, SndPcs, lookupVars, sigVars, peerVars, psVars,
        cliElse, sndElse
  <2>4. CASE SndConnect /\ UNCHANGED cli
    BY <1>0, <2>4, OverIs DEF SndConnect, SndType, SndPcs, lookupVars, sigVars, peerVars, psVars,
        cliElse, sndElse
  <2>5. CASE SndAsk /\ UNCHANGED cli
    BY <1>0, <2>5 DEF SndAsk, Peer, SndType, SndPcs, lookupVars, sigVars, peerVars, psVars, cliElse,
        sndElse
  <2>6. CASE SndAnswered /\ UNCHANGED cli
    BY <1>0, <2>6, OverIs DEF SndAnswered, Peer, SndType, SndPcs, lookupVars, sigVars, peerVars, psVars,
        cliElse, sndElse
  <2>7. CASE SndUpload /\ UNCHANGED cli
    <3>1. CASE Over(4)
      BY <1>0, <3>1, OverIs
    <3>2. CASE snd' = [snd EXCEPT !.pc = "stream", !.size = file.size]
      <4>1. file.size \in Nat
        BY <1>0 DEF Typed
      <4>2. QED
        BY <1>0, <3>2, <4>1 DEF SndType, SndPcs, Outgoing
    <3>3. QED
      BY <2>7, <3>1, <3>2 DEF SndUpload
  <2>8. CASE SndStream /\ UNCHANGED cli
    BY <1>0, <2>8, OverIs DEF SndStream, Peer, SndType, SndPcs, lookupVars, sigVars, peerVars, psVars,
        cliElse, sndElse
  <2>9. QED
    BY <1>6, <2>1, <2>2, <2>3, <2>4, <2>5, <2>6, <2>7, <2>8 DEF Transferring
<1>7. CASE Alone
  BY <1>0, <1>7, AloneKeeps DEF SndType, lookupVars, sigVars, peerVars, psVars, cliElse, sndElse
<1>8. CASE ReadPeers /\ UNCHANGED cli
  BY <1>0, <1>8, ReadPeersIs DEF SameRun, Gone, SndType, SndPcs, lookupVars, sigVars, peerVars, psVars,
      cliElse, sndElse
<1>9. CASE AfterWake /\ UNCHANGED cli
  BY <1>0, <1>9, AfterWakeIs DEF SameRun, Gone, SndType, SndPcs, lookupVars, sigVars, peerVars, psVars,
      cliElse, sndElse
<1>10. CASE SigExit /\ UNCHANGED cli
  BY <1>0, <1>10, ExitIs DEF SigExit, SndType, SndPcs, lookupVars, sigVars, peerVars, psVars, cliElse,
      sndElse
<1>11. CASE SndTerm /\ UNCHANGED cli
  BY <1>0, <1>11, OverIs DEF SndTerm, SndAlive, SndType, SndPcs, lookupVars, sigVars, peerVars, psVars,
      cliElse, sndElse
<1>12. CASE EditFile /\ UNCHANGED cli
  BY <1>0, <1>12 DEF EditFile, SndAlive, SndType, SndPcs, lookupVars, sigVars, peerVars, psVars,
      cliElse, sndElse
<1>13. CASE Peers
  BY <1>0, <1>13, PeersIs DEF Fresh, Died, SndType, SndPcs, lookupVars, sigVars, peerVars, psVars,
      cliElse, sndElse
<1>14. CASE List
  BY <1>0, <1>14, ListIs DEF Fresh, SameCli, SameTraps, SndType, SndPcs, lookupVars, sigVars, peerVars,
      psVars, cliElse, sndElse
<1>15. CASE Listed
  BY <1>0, <1>15, ListedIs DEF Died, SameCli, SameTraps, SndType, SndPcs, lookupVars, sigVars, peerVars,
      psVars, cliElse, sndElse
<1>16. CASE Pass
  BY <1>0, <1>16, PassIs DEF Fresh, Died, SameCli, SameTraps, SndType, SndPcs, lookupVars, sigVars,
      peerVars, psVars, cliElse, sndElse
<1>17. CASE ReadRow
  BY <1>0, <1>17, ReadRowIs DEF SameCli, SameTraps, SndType, SndPcs, lookupVars, sigVars, peerVars,
      psVars, cliElse, sndElse
<1>18. CASE Transfer
  BY <1>0, <1>18, TransferIs DEF Fresh, Died, SameCli, SndType, SndPcs, lookupVars, sigVars, peerVars,
      psVars, cliElse, sndElse
<1>19. CASE PrintRow
  BY <1>0, <1>19, StopIs DEF PrintRow, SndType, SndPcs, lookupVars, sigVars, peerVars, psVars, cliElse,
      sndElse
<1>20. CASE StopTerm
  BY <1>0, <1>20 DEF StopTerm, TermGroup, Terminate, StpAlive, SndAlive, AdvAlive, SndType, SndPcs,
      lookupVars, sigVars, peerVars, psVars, cliElse, sndElse
<1>21. CASE StopKill
  BY <1>0, <1>21, QuitIs DEF StopKill, StpAlive, SndAlive, SndType, SndPcs, lookupVars, sigVars,
      peerVars, psVars, cliElse, sndElse
<1>22. CASE ByHand
  BY <1>0, <1>22, ByHandIs DEF Fresh, SndType, SndPcs, lookupVars, sigVars, peerVars, psVars, cliElse,
      sndElse
<1>23. CASE SignalByHand
  BY <1>0, <1>23 DEF SignalByHand, StpAlive, SndType, SndPcs, lookupVars, sigVars, peerVars, psVars,
      cliElse, sndElse
<1>24. QED
  BY <1>1, <1>2, <1>3, <1>4, <1>5, <1>6, <1>7, <1>8, <1>9, <1>10, <1>11, <1>12, <1>13, <1>14, <1>15,
      <1>16, <1>17, <1>18, <1>19, <1>20, <1>21, <1>22, <1>23, Kinds

\* The command's record keeps its type.
LEMMA CliTyped ==
  ASSUME SendInv, [Next]_vars
  PROVE  cli' \in CliType
<1>0. Typed /\ Records /\ stp \in StpType /\ snd \in SndType /\ cli \in CliType
  BY Parts
<1>1. CASE UNCHANGED vars
  BY <1>0, <1>1 DEF vars, lookupVars, sigVars, peerVars, psVars, cliElse, sndElse, CliType
<1>2. CASE Prober
  BY <1>0, <1>2, ProberKeeps DEF CliType, lookupVars, sigVars, peerVars, psVars, cliElse, sndElse
<1>3. CASE Stages
  BY <1>0, <1>3, StagesKeeps DEF CliType, lookupVars, sigVars, peerVars, psVars, cliElse, sndElse
<1>4. CASE Signaller
  BY <1>0, <1>4, SignallerKeeps DEF CliType, lookupVars, sigVars, peerVars, psVars, cliElse, sndElse
<1>5. CASE Advert
  BY <1>0, <1>5, AdvertKeeps DEF CliType, lookupVars, sigVars, peerVars, psVars, cliElse, sndElse
<1>6. CASE Transferring
  BY <1>0, <1>6, TransferringKeeps DEF CliType, lookupVars, sigVars, peerVars, psVars, cliElse, sndElse
<1>7. CASE Alone
  <2>1. CASE Send
    BY <1>0, <2>1, SendIs DEF Died, CliType, CliPcs, lookupVars, sigVars, peerVars, psVars, cliElse,
        sndElse
  <2>2. CASE PickAnswer
    <3>1. CASE Picked
      BY <1>0, <2>2, <3>1, PickedIs DEF PickAnswer, CliType, lookupVars, sigVars, peerVars, psVars,
          cliElse, sndElse
    <3>2. CASE Die
      BY <1>0, <2>2, <3>2, QuitIs DEF PickAnswer, Die, CliType, lookupVars, sigVars, peerVars, psVars,
          cliElse, sndElse
    <3> QED
      BY <2>2, <3>1, <3>2 DEF PickAnswer, Picked
  <2>3. CASE PickClosed
    BY <1>0, <2>3, QuitIs DEF PickClosed, Die, CliType, CliPcs, lookupVars, sigVars, peerVars, psVars,
        cliElse, sndElse
  <2>4. CASE Radio
    BY <1>0, <2>4, QuitIs DEF Radio, Die, CliType, CliPcs, lookupVars, sigVars, peerVars, psVars,
        cliElse, sndElse
  <2>5. CASE Look
    BY <1>0, <2>5, LookIs DEF SameCli, CliType, CliPcs, lookupVars, sigVars, peerVars, psVars, cliElse,
        sndElse
  <2>6. CASE LookOver \/ LookUntrapped
    <3>1. CASE Quit(130)
      BY <1>0, <3>1, QuitIs
    <3>2. CASE Moved("unlook")
      BY <1>0, <3>2, MovedIs, Moves
    <3>3. CASE cli' = Settled
      BY <1>0, <3>3, SettledIs
    <3>4. QED
      BY <2>6, <3>1, <3>2, <3>3 DEF LookOver, LookUntrapped, Moved
  <2>7. CASE PassDone
    <3>1. CASE Quit(1) \/ Quit(130)
      BY <1>0, <3>1, QuitIs
    <3>2. CASE Moved("look") \/ Moved("unlook")
      BY <1>0, <3>2, MovedIs, Moves
    <3>3. QED
      BY <2>7, <3>1, <3>2 DEF PassDone, Die, Moved
  <2>8. CASE PassTimedOut
    BY <1>0, <2>8, StopIs DEF PassTimedOut, CliType, CliPcs, lookupVars, sigVars, peerVars, psVars,
        cliElse, sndElse
  <2>9. CASE SendDone
    BY <1>0, <2>9 DEF SendDone, Writers, StpAlive, SndAlive, CliType, CliPcs, StpType, lookupVars,
        sigVars, peerVars, psVars, cliElse, sndElse
  <2>10. CASE Cancelled
    BY <1>0, <2>10, QuitIs, StopIs DEF Cancelled, CliType, CliPcs, lookupVars, sigVars, peerVars,
        psVars, cliElse, sndElse
  <2>11. CASE StopGone
    BY <1>0, <2>11, QuitIs DEF StopGone, Group, StpAlive, SndAlive, AdvAlive, CliType, CliPcs,
        lookupVars, sigVars, peerVars, psVars, cliElse, sndElse
  <2>12. CASE ErrorsEnd \/ SendUntrapped
    <3>1. CASE Moved("unsend")
      BY <1>0, <3>1, MovedIs, Moves
    <3>2. CASE Quit(cli.rc)
      BY <1>0, <3>2, QuitIs DEF CliType
    <3>3. QED
      BY <2>12, <3>1, <3>2 DEF ErrorsEnd, SendUntrapped, Moved
  <2>13. CASE Signal
    BY <1>0, <2>13, SignalIs DEF CliType, CliPcs, lookupVars, sigVars, peerVars, psVars, cliElse,
        sndElse
  <2>14. CASE Deadline
    BY <1>0, <2>14 DEF Deadline, CliType, CliPcs, lookupVars, sigVars, peerVars, psVars, cliElse,
        sndElse
  <2>15. QED
    BY <1>7, <2>1, <2>2, <2>3, <2>4, <2>5, <2>6, <2>7, <2>8, <2>9, <2>10, <2>11, <2>12, <2>13, <2>14 DEF
        Alone
<1>8. CASE ReadPeers /\ UNCHANGED cli
  BY <1>0, <1>8
<1>9. CASE AfterWake /\ UNCHANGED cli
  BY <1>0, <1>9
<1>10. CASE SigExit /\ UNCHANGED cli
  BY <1>0, <1>10, ExitIs DEF SigExit, CliType, CliPcs, lookupVars, sigVars, peerVars, psVars, cliElse,
      sndElse
<1>11. CASE SndTerm /\ UNCHANGED cli
  BY <1>0, <1>11, OverIs DEF SndTerm, SndAlive, CliType, CliPcs, lookupVars, sigVars, peerVars, psVars,
      cliElse, sndElse
<1>12. CASE EditFile /\ UNCHANGED cli
  BY <1>0, <1>12 DEF EditFile, SndAlive, CliType, CliPcs, lookupVars, sigVars, peerVars, psVars,
      cliElse, sndElse
<1>13. CASE Peers
  BY <1>0, <1>13, PeersIs DEF Fresh, Died, CliType, CliPcs, lookupVars, sigVars, peerVars, psVars,
      cliElse, sndElse
<1>14. CASE List
  BY <1>0, <1>14, ListIs DEF Fresh, SameCli, SameTraps, CliType, CliPcs, lookupVars, sigVars, peerVars,
      psVars, cliElse, sndElse
<1>15. CASE Listed
  BY <1>0, <1>15, ListedIs DEF Died, SameCli, SameTraps, CliType, CliPcs, lookupVars, sigVars, peerVars,
      psVars, cliElse, sndElse
<1>16. CASE Pass
  BY <1>0, <1>16, PassIs DEF Fresh, Died, SameCli, SameTraps, CliType, CliPcs, lookupVars, sigVars,
      peerVars, psVars, cliElse, sndElse
<1>17. CASE ReadRow
  BY <1>0, <1>17, ReadRowIs DEF SameCli, SameTraps, CliType, CliPcs, lookupVars, sigVars, peerVars,
      psVars, cliElse, sndElse
<1>18. CASE Transfer
  BY <1>0, <1>18, TransferIs DEF Fresh, Died, SameCli, CliType, CliPcs, lookupVars, sigVars, peerVars,
      psVars, cliElse, sndElse
<1>19. CASE PrintRow
  BY <1>0, <1>19, StopIs DEF PrintRow, CliType, CliPcs, lookupVars, sigVars, peerVars, psVars, cliElse,
      sndElse
<1>20. CASE StopTerm
  BY <1>0, <1>20 DEF StopTerm, TermGroup, Terminate, StpAlive, SndAlive, AdvAlive, CliType, CliPcs,
      lookupVars, sigVars, peerVars, psVars, cliElse, sndElse
<1>21. CASE StopKill
  BY <1>0, <1>21, QuitIs DEF StopKill, StpAlive, SndAlive, CliType, CliPcs, lookupVars, sigVars,
      peerVars, psVars, cliElse, sndElse
<1>22. CASE ByHand
  BY <1>0, <1>22, ByHandIs DEF Fresh, CliType, CliPcs, lookupVars, sigVars, peerVars, psVars, cliElse,
      sndElse
<1>23. CASE SignalByHand
  BY <1>0, <1>23 DEF SignalByHand, StpAlive, CliType, CliPcs, lookupVars, sigVars, peerVars, psVars,
      cliElse, sndElse
<1>24. QED
  BY <1>1, <1>2, <1>3, <1>4, <1>5, <1>6, <1>7, <1>8, <1>9, <1>10, <1>11, <1>12, <1>13, <1>14, <1>15,
      <1>16, <1>17, <1>18, <1>19, <1>20, <1>21, <1>22, <1>23, Kinds

\* The parts of Typed that are no records.
Plain ==
    /\ nameOf \in [Addrs -> Names] /\ answer \in [Addrs -> Answers]
    /\ probe \in [Addrs -> {"no", "queued", "asking", "told"}]
    /\ out \subseteq Addrs \X Answers
    /\ sig \in {"idle", "wake", "reapwake", "sender", "exit"}
    /\ termed \subseteq {"stp", "snd"} /\ slot \in BOOLEAN /\ spid \in BOOLEAN
    /\ adv \in {"none", "starting", "up", "stopping"}
    /\ file \in [size : 1..2, edits : Nat]
    /\ asks \in [Addrs -> Nat] /\ delivered \subseteq Addrs \union {NoAddr}

\* The other variables are in theirs.
LEMMA PlainIs == ASSUME SendInv PROVE Plain /\ stp.to \in Addrs \union {NoAddr}
BY Parts DEF Typed, Plain, StpType

\* So do the other variables.
LEMMA PlainTyped ==
  ASSUME SendInv, [Next]_vars
  PROVE  Plain'
<1>0. Typed /\ Records /\ stp \in StpType /\ snd \in SndType /\ cli \in CliType /\ Plain /\ stp.to \in Addrs \union {NoAddr}
  BY Parts, PlainIs
<1>f. ASSUME NEW mode, Fresh(mode) PROVE Plain'
  BY <1>0, <1>f DEF Fresh, Plain, Answers, Names
<1>d. ASSUME UNCHANGED psVars PROVE Plain'
  BY <1>0, <1>d DEF Plain, psVars, lookupVars, sigVars, peerVars
<1>1. CASE UNCHANGED vars
  BY <1>0, <1>1 DEF vars, lookupVars, sigVars, peerVars, psVars, cliElse, sndElse, Plain, Names, Answers
<1>2. CASE Prober
  <2>1. CASE StartProbes /\ UNCHANGED cli
    BY <1>0, <2>1 DEF StartProbes, Plain, Names, Answers, lookupVars, sigVars, peerVars, psVars,
        cliElse, sndElse
  <2>2. CASE Rescan /\ UNCHANGED cli
    BY <1>0, <2>2, HeardIs DEF Rescan, Plain, Names, Answers, lookupVars, sigVars, peerVars, psVars,
        cliElse, sndElse
  <2>3. ASSUME NEW a \in Addrs, ProbeStart(a), UNCHANGED cli PROVE Plain'
    BY <1>0, <2>3 DEF ProbeStart, StpAlive, Plain, Names, Answers, lookupVars, sigVars, peerVars,
        psVars, cliElse, sndElse
  <2>4. ASSUME NEW a \in Addrs, ProbeEnd(a), UNCHANGED cli PROVE Plain'
    BY <1>0, <2>4 DEF ProbeEnd, StpAlive, PeerName, Plain, Names, Answers, lookupVars, sigVars,
        peerVars, psVars, cliElse, sndElse
  <2>5. QED
    BY <1>2, <2>1, <2>2, <2>3, <2>4 DEF Prober
<1>3. CASE Stages
  <2>1. CASE WakeSpawn /\ UNCHANGED cli
    BY <1>0, <2>1 DEF WakeSpawn, AdvAlive, Plain, Names, Answers, lookupVars, sigVars, peerVars, psVars,
        cliElse, sndElse
  <2>2. CASE WakeStore /\ UNCHANGED cli
    BY <1>0, <2>2 DEF WakeStore, Plain, Names, Answers, lookupVars, sigVars, peerVars, psVars, cliElse,
        sndElse
  <2>3. CASE WakeReady /\ UNCHANGED cli
    BY <1>0, <2>3 DEF WakeReady, AdvAlive, Plain, Names, Answers, lookupVars, sigVars, peerVars, psVars,
        cliElse, sndElse
  <2>4. CASE NamesDone /\ UNCHANGED cli
    BY <1>0, <2>4 DEF NamesDone, Plain, Names, Answers, lookupVars, sigVars, peerVars, psVars, cliElse,
        sndElse
  <2>5. CASE Listen /\ UNCHANGED cli
    BY <1>0, <2>5 DEF Listen, Plain, Names, Answers, lookupVars, sigVars, peerVars, psVars, cliElse,
        sndElse
  <2>6. CASE Wait /\ UNCHANGED cli
    BY <1>0, <2>6 DEF Wait, Plain, Names, Answers, lookupVars, sigVars, peerVars, psVars, cliElse,
        sndElse
  <2>7. CASE DropWake /\ UNCHANGED cli
    BY <1>0, <2>7 DEF DropWake, Terminate, AdvAlive, Plain, Names, Answers, lookupVars, sigVars,
        peerVars, psVars, cliElse, sndElse
  <2>8. CASE ReapWake /\ UNCHANGED cli
    BY <1>0, <2>8 DEF ReapWake, Plain, Names, Answers, lookupVars, sigVars, peerVars, psVars, cliElse,
        sndElse
  <2>9. CASE SpawnSender /\ UNCHANGED cli
    BY <1>0, <2>9, ExitIs, NoSndIs DEF SpawnSender, Plain, Names, Answers, lookupVars, sigVars,
        peerVars, psVars, cliElse, sndElse
  <2>10. CASE StorePid /\ UNCHANGED cli
    BY <1>0, <2>10 DEF StorePid, Plain, Names, Answers, lookupVars, sigVars, peerVars, psVars, cliElse,
        sndElse
  <2>11. CASE Reap /\ UNCHANGED cli
    BY <1>0, <2>11, ReapIs DEF Plain, Reap, lookupVars, peerVars
  <2>12. QED
    BY <1>3, <2>1, <2>2, <2>3, <2>4, <2>5, <2>6, <2>7, <2>8, <2>9, <2>10, <2>11 DEF Stages
<1>4. CASE Signaller
  <2>1. CASE SigTake /\ UNCHANGED cli
    BY <1>0, <2>1 DEF SigTake, StpAlive, Plain, Names, Answers, lookupVars, sigVars, peerVars, psVars,
        cliElse, sndElse
  <2>2. CASE SigWake /\ UNCHANGED cli
    BY <1>0, <2>2 DEF SigWake, StpAlive, Terminate, AdvAlive, Plain, Names, Answers, lookupVars,
        sigVars, peerVars, psVars, cliElse, sndElse
  <2>3. CASE SigReapWake /\ UNCHANGED cli
    BY <1>0, <2>3 DEF SigReapWake, StpAlive, Plain, Names, Answers, lookupVars, sigVars, peerVars,
        psVars, cliElse, sndElse
  <2>4. CASE SigSender /\ UNCHANGED cli
    BY <1>0, <2>4 DEF SigSender, StpAlive, SndAlive, Plain, Names, Answers, lookupVars, sigVars,
        peerVars, psVars, cliElse, sndElse
  <2>5. QED
    BY <1>4, <2>1, <2>2, <2>3, <2>4 DEF Signaller
<1>5. CASE Advert
  <2>1. CASE AdvRegister /\ UNCHANGED cli
    BY <1>0, <2>1 DEF AdvRegister, Plain, Names, Answers, lookupVars, sigVars, peerVars, psVars,
        cliElse, sndElse
  <2>2. CASE AdvExit /\ UNCHANGED cli
    BY <1>0, <2>2 DEF AdvExit, AdvAlive, Plain, Names, Answers, lookupVars, sigVars, peerVars, psVars,
        cliElse, sndElse
  <2>3. QED
    BY <1>5, <2>1, <2>2 DEF Advert
<1>6. CASE Transferring
  <2>1. CASE SndOptions /\ UNCHANGED cli
    BY <1>0, <2>1, OverIs DEF SndOptions, Outgoing, Plain, Names, Answers, lookupVars, sigVars,
        peerVars, psVars, cliElse, sndElse
  <2>2. CASE SndOpen /\ UNCHANGED cli
    BY <1>0, <2>2, OverIs DEF SndOpen, Plain, Names, Answers, lookupVars, sigVars, peerVars, psVars,
        cliElse, sndElse
  <2>3. CASE SndDiscover /\ UNCHANGED cli
    BY <1>0, <2>3, OverIs DEF SndDiscover, Plain, Names, Answers, lookupVars, sigVars, peerVars, psVars,
        cliElse, sndElse
  <2>4. CASE SndConnect /\ UNCHANGED cli
    BY <1>0, <2>4, OverIs DEF SndConnect, Plain, Names, Answers, lookupVars, sigVars, peerVars, psVars,
        cliElse, sndElse
  <2>5. CASE SndAsk /\ UNCHANGED cli
    <3>1. asks' \in [Addrs -> Nat]
      <4>1. asks \in [Addrs -> Nat] /\ asks' = [asks EXCEPT ![Peer] = asks[Peer] + 1]
        BY <1>0, <2>5 DEF SndAsk, Plain
      <4>2. ASSUME NEW a \in Addrs PROVE asks'[a] \in Nat
        BY <4>1
      <4>3. QED
        BY <4>1, <4>2
    <3>2. QED
      BY <1>0, <2>5, <3>1, TransferringKeeps DEF Transferring, SndAsk, Plain, lookupVars, sigVars, sndElse
  <2>6. CASE SndAnswered /\ UNCHANGED cli
    BY <1>0, <2>6, OverIs DEF SndAnswered, Peer, Plain, Names, Answers, lookupVars, sigVars, peerVars,
        psVars, cliElse, sndElse
  <2>7. CASE SndUpload /\ UNCHANGED cli
    BY <1>0, <2>7, OverIs DEF SndUpload, Plain, Names, Answers, lookupVars, sigVars, peerVars, psVars,
        cliElse, sndElse
  <2>8. CASE SndStream /\ UNCHANGED cli
    BY <1>0, <2>8, OverIs DEF SndStream, Peer, Plain, Names, Answers, lookupVars, sigVars, peerVars,
        psVars, cliElse, sndElse
  <2>9. QED
    BY <1>6, <2>1, <2>2, <2>3, <2>4, <2>5, <2>6, <2>7, <2>8 DEF Transferring
<1>7. CASE Alone
  BY <1>0, <1>7, AloneKeeps DEF Plain, Names, Answers, lookupVars, sigVars, peerVars, psVars, cliElse,
      sndElse
<1>8. CASE ReadPeers /\ UNCHANGED cli
  BY <1>0, <1>8, ReadPeersIs DEF SameRun, Gone, Plain, Names, Answers, lookupVars, sigVars, peerVars,
      psVars, cliElse, sndElse
<1>9. CASE AfterWake /\ UNCHANGED cli
  <2>1. out' \subseteq Addrs \X Answers
    <3>1. {<<a, IF answer[a] = "unasked" THEN "none" ELSE answer[a]>> : a \in {b \in Addrs : probe[b] # "no"}}
              \subseteq Addrs \X Answers
      BY <1>0 DEF Plain, Answers
    <3>2. QED
      BY <1>0, <1>9, <3>1, AfterWakeIs DEF Plain
  <2>2. QED
    BY <1>0, <1>9, <2>1, AfterWakeIs DEF Plain, sigVars, peerVars
<1>10. CASE SigExit /\ UNCHANGED cli
  BY <1>0, <1>10, ExitIs DEF SigExit, Plain, Names, Answers, lookupVars, sigVars, peerVars, psVars,
      cliElse, sndElse
<1>11. CASE SndTerm /\ UNCHANGED cli
  BY <1>0, <1>11, OverIs DEF SndTerm, SndAlive, Plain, Names, Answers, lookupVars, sigVars, peerVars,
      psVars, cliElse, sndElse
<1>12. CASE EditFile /\ UNCHANGED cli
  BY <1>0, <1>12 DEF EditFile, SndAlive, Plain, Names, Answers, lookupVars, sigVars, peerVars, psVars,
      cliElse, sndElse
<1>13. CASE Peers
  BY <1>0, <1>13, PeersIs, <1>f, <1>d DEF Died
<1>14. CASE List
  BY <1>0, <1>14, ListIs, <1>f, <1>d DEF Died
<1>15. CASE Listed
  BY <1>0, <1>15, ListedIs DEF Died, SameCli, SameTraps, Plain, Names, Answers, lookupVars, sigVars,
      peerVars, psVars, cliElse, sndElse
<1>16. CASE Pass
  BY <1>0, <1>16, PassIs, <1>f, <1>d DEF Died
<1>17. CASE ReadRow
  BY <1>0, <1>17, ReadRowIs DEF SameCli, SameTraps, Plain, Names, Answers, lookupVars, sigVars,
      peerVars, psVars, cliElse, sndElse
<1>18. CASE Transfer
  BY <1>0, <1>18, TransferIs, <1>f, <1>d DEF Died
<1>19. CASE PrintRow
  BY <1>0, <1>19, StopIs DEF PrintRow, Plain, Names, Answers, lookupVars, sigVars, peerVars, psVars,
      cliElse, sndElse
<1>20. CASE StopTerm
  BY <1>0, <1>20 DEF StopTerm, TermGroup, Terminate, StpAlive, SndAlive, AdvAlive, Plain, Names,
      Answers, lookupVars, sigVars, peerVars, psVars, cliElse, sndElse
<1>21. CASE StopKill
  BY <1>0, <1>21, QuitIs DEF StopKill, StpAlive, SndAlive, Plain, Names, Answers, lookupVars, sigVars,
      peerVars, psVars, cliElse, sndElse
<1>22. CASE ByHand
  BY <1>0, <1>22, ByHandIs, <1>f, <1>d DEF Died
<1>23. CASE SignalByHand
  BY <1>0, <1>23 DEF SignalByHand, StpAlive, Plain, Names, Answers, lookupVars, sigVars, peerVars,
      psVars, cliElse, sndElse
<1>24. QED
  BY <1>1, <1>2, <1>3, <1>4, <1>5, <1>6, <1>7, <1>8, <1>9, <1>10, <1>11, <1>12, <1>13, <1>14, <1>15,
      <1>16, <1>17, <1>18, <1>19, <1>20, <1>21, <1>22, <1>23, Kinds

\* Every variable stays in its type.
LEMMA TypedStep == ASSUME SendInv, [Next]_vars PROVE Typed'
BY StpTyped, SndTyped, CliTyped, PlainTyped DEF Typed, Records, Plain

-----------------------------------------------------------------------------
(* The course of a run, and of the command. *)

\* A run keeps to the stages of its mode.
LEMMA CourseStep ==
  ASSUME SendInv, [Next]_vars
  PROVE  Course'
<1>0. Typed /\ Records /\ stp \in StpType /\ snd \in SndType /\ cli \in CliType /\ Course /\ WakeOwned /\ Waits
  BY Parts
<1>1. CASE UNCHANGED vars
  BY <1>0, <1>1 DEF vars, lookupVars, sigVars, peerVars, psVars, cliElse, sndElse, Course, StpAlive,
      SndAlive
<1>2. CASE Prober
  <2>1. CASE StartProbes /\ UNCHANGED cli
    BY <1>0, <2>1 DEF StartProbes, Course, StpAlive, SndAlive, AdvAlive, StpType, SndType, lookupVars,
        sigVars, peerVars, psVars, cliElse, sndElse
  <2>2. CASE Rescan /\ UNCHANGED cli
    BY <1>0, <2>2, HeardIs DEF Rescan, Course, StpAlive, SndAlive, AdvAlive, StpType, SndType,
        lookupVars, sigVars, peerVars, psVars, cliElse, sndElse
  <2>3. ASSUME NEW a \in Addrs, ProbeStart(a), UNCHANGED cli PROVE Course'
    BY <1>0, <2>3 DEF ProbeStart, StpAlive, Course, SndAlive, AdvAlive, StpType, SndType, lookupVars,
        sigVars, peerVars, psVars, cliElse, sndElse
  <2>4. ASSUME NEW a \in Addrs, ProbeEnd(a), UNCHANGED cli PROVE Course'
    BY <1>0, <2>4 DEF ProbeEnd, StpAlive, PeerName, Course, SndAlive, AdvAlive, StpType, SndType,
        lookupVars, sigVars, peerVars, psVars, cliElse, sndElse
  <2>5. QED
    BY <1>2, <2>1, <2>2, <2>3, <2>4 DEF Prober
<1>3. CASE Stages
  <2>1. CASE WakeSpawn /\ UNCHANGED cli
    BY <1>0, <2>1 DEF WakeSpawn, AdvAlive, Course, StpAlive, SndAlive, StpType, SndType, lookupVars,
        sigVars, peerVars, psVars, cliElse, sndElse
  <2>2. CASE WakeStore /\ UNCHANGED cli
    BY <1>0, <2>2 DEF WakeStore, Course, StpAlive, SndAlive, AdvAlive, StpType, SndType, lookupVars,
        sigVars, peerVars, psVars, cliElse, sndElse
  <2>3. CASE WakeReady /\ UNCHANGED cli
    BY <1>0, <2>3 DEF WakeReady, AdvAlive, Course, StpAlive, SndAlive, StpType, SndType, lookupVars,
        sigVars, peerVars, psVars, cliElse, sndElse
  <2>4. CASE NamesDone /\ UNCHANGED cli
    BY <1>0, <2>4 DEF NamesDone, Course, StpAlive, SndAlive, AdvAlive, StpType, SndType, lookupVars,
        sigVars, peerVars, psVars, cliElse, sndElse
  <2>5. CASE Listen /\ UNCHANGED cli
    BY <1>0, <2>5 DEF Listen, Course, StpAlive, SndAlive, AdvAlive, StpType, SndType, lookupVars,
        sigVars, peerVars, psVars, cliElse, sndElse
  <2>6. CASE Wait /\ UNCHANGED cli
    BY <1>0, <2>6 DEF Wait, Course, StpAlive, SndAlive, AdvAlive, StpType, SndType, lookupVars, sigVars,
        peerVars, psVars, cliElse, sndElse
  <2>7. CASE DropWake /\ UNCHANGED cli
    BY <1>0, <2>7 DEF DropWake, Terminate, AdvAlive, Course, StpAlive, SndAlive, StpType, SndType,
        lookupVars, sigVars, peerVars, psVars, cliElse, sndElse
  <2>8. CASE ReapWake /\ UNCHANGED cli
    BY <1>0, <2>8 DEF ReapWake, Course, StpAlive, SndAlive, AdvAlive, StpType, SndType, lookupVars,
        sigVars, peerVars, psVars, cliElse, sndElse
  <2>9. CASE SpawnSender /\ UNCHANGED cli
    BY <1>0, <2>9, ExitIs, NoSndIs DEF SpawnSender, Course, StpAlive, SndAlive, AdvAlive, StpType,
        SndType, lookupVars, sigVars, peerVars, psVars, cliElse, sndElse
  <2>10. CASE StorePid /\ UNCHANGED cli
    BY <1>0, <2>10 DEF StorePid, Course, StpAlive, SndAlive, AdvAlive, StpType, SndType, lookupVars,
        sigVars, peerVars, psVars, cliElse, sndElse
  <2>11. CASE Reap /\ UNCHANGED cli
    BY <1>0, <2>11, ReapIs DEF SameRun, Gone, Course, StpAlive, SndAlive, AdvAlive, StpType, SndType,
        lookupVars, sigVars, peerVars, psVars, cliElse, sndElse
  <2>12. QED
    BY <1>3, <2>1, <2>2, <2>3, <2>4, <2>5, <2>6, <2>7, <2>8, <2>9, <2>10, <2>11 DEF Stages
<1>4. CASE Signaller
  <2>1. CASE SigTake /\ UNCHANGED cli
    BY <1>0, <2>1 DEF SigTake, StpAlive, Course, SndAlive, AdvAlive, StpType, SndType, lookupVars,
        sigVars, peerVars, psVars, cliElse, sndElse
  <2>2. CASE SigWake /\ UNCHANGED cli
    BY <1>0, <2>2 DEF SigWake, StpAlive, Terminate, AdvAlive, Course, SndAlive, StpType, SndType,
        lookupVars, sigVars, peerVars, psVars, cliElse, sndElse
  <2>3. CASE SigReapWake /\ UNCHANGED cli
    BY <1>0, <2>3 DEF SigReapWake, StpAlive, Course, SndAlive, AdvAlive, StpType, SndType, lookupVars,
        sigVars, peerVars, psVars, cliElse, sndElse
  <2>4. CASE SigSender /\ UNCHANGED cli
    BY <1>0, <2>4 DEF SigSender, StpAlive, SndAlive, Course, AdvAlive, StpType, SndType, lookupVars,
        sigVars, peerVars, psVars, cliElse, sndElse
  <2>5. QED
    BY <1>4, <2>1, <2>2, <2>3, <2>4 DEF Signaller
<1>5. CASE Advert
  BY <1>0, <1>5, AdvertKeeps DEF Course, StpAlive, SndAlive, lookupVars, sigVars, peerVars, psVars,
      cliElse, sndElse
<1>6. CASE Transferring
  <2>1. CASE SndOptions /\ UNCHANGED cli
    BY <1>0, <2>1, OverIs DEF SndOptions, Outgoing, Course, StpAlive, SndAlive, AdvAlive, StpType,
        SndType, lookupVars, sigVars, peerVars, psVars, cliElse, sndElse
  <2>2. CASE SndOpen /\ UNCHANGED cli
    BY <1>0, <2>2, OverIs DEF SndOpen, Course, StpAlive, SndAlive, AdvAlive, StpType, SndType,
        lookupVars, sigVars, peerVars, psVars, cliElse, sndElse
  <2>3. CASE SndDiscover /\ UNCHANGED cli
    BY <1>0, <2>3, OverIs DEF SndDiscover, Course, StpAlive, SndAlive, AdvAlive, StpType, SndType,
        lookupVars, sigVars, peerVars, psVars, cliElse, sndElse
  <2>4. CASE SndConnect /\ UNCHANGED cli
    BY <1>0, <2>4, OverIs DEF SndConnect, Course, StpAlive, SndAlive, AdvAlive, StpType, SndType,
        lookupVars, sigVars, peerVars, psVars, cliElse, sndElse
  <2>5. CASE SndAsk /\ UNCHANGED cli
    BY <1>0, <2>5 DEF SndAsk, Peer, Course, StpAlive, SndAlive, AdvAlive, StpType, SndType, lookupVars,
        sigVars, peerVars, psVars, cliElse, sndElse
  <2>6. CASE SndAnswered /\ UNCHANGED cli
    BY <1>0, <2>6, OverIs DEF SndAnswered, Peer, Course, StpAlive, SndAlive, AdvAlive, StpType, SndType,
        lookupVars, sigVars, peerVars, psVars, cliElse, sndElse
  <2>7. CASE SndUpload /\ UNCHANGED cli
    BY <1>0, <2>7, OverIs DEF SndUpload, Course, StpAlive, SndAlive, AdvAlive, StpType, SndType,
        lookupVars, sigVars, peerVars, psVars, cliElse, sndElse
  <2>8. CASE SndStream /\ UNCHANGED cli
    BY <1>0, <2>8, OverIs DEF SndStream, Peer, Course, StpAlive, SndAlive, AdvAlive, StpType, SndType,
        lookupVars, sigVars, peerVars, psVars, cliElse, sndElse
  <2>9. QED
    BY <1>6, <2>1, <2>2, <2>3, <2>4, <2>5, <2>6, <2>7, <2>8 DEF Transferring
<1>7. CASE Alone
  BY <1>0, <1>7, AloneKeeps DEF Course, StpAlive, SndAlive, lookupVars, sigVars, peerVars, psVars,
      cliElse, sndElse
<1>8. CASE ReadPeers /\ UNCHANGED cli
  BY <1>0, <1>8, ReadPeersIs DEF SameRun, Gone, Course, StpAlive, SndAlive, AdvAlive, StpType, SndType,
      lookupVars, sigVars, peerVars, psVars, cliElse, sndElse
<1>9. CASE AfterWake /\ UNCHANGED cli
  BY <1>0, <1>9, AfterWakeIs DEF SameRun, Gone, Course, StpAlive, SndAlive, AdvAlive, StpType, SndType,
      lookupVars, sigVars, peerVars, psVars, cliElse, sndElse
<1>10. CASE SigExit /\ UNCHANGED cli
  BY <1>0, <1>10, ExitIs DEF SigExit, Course, StpAlive, SndAlive, AdvAlive, StpType, SndType,
      lookupVars, sigVars, peerVars, psVars, cliElse, sndElse
<1>11. CASE SndTerm /\ UNCHANGED cli
  BY <1>0, <1>11, OverIs DEF SndTerm, SndAlive, Course, StpAlive, AdvAlive, StpType, SndType,
      lookupVars, sigVars, peerVars, psVars, cliElse, sndElse
<1>12. CASE EditFile /\ UNCHANGED cli
  BY <1>0, <1>12 DEF EditFile, SndAlive, Course, StpAlive, AdvAlive, StpType, SndType, lookupVars,
      sigVars, peerVars, psVars, cliElse, sndElse
<1>13. CASE Peers
  BY <1>0, <1>13, PeersIs DEF Fresh, Died, Course, StpAlive, SndAlive, AdvAlive, StpType, SndType,
      lookupVars, sigVars, peerVars, psVars, cliElse, sndElse
<1>14. CASE List
  BY <1>0, <1>14, ListIs DEF Fresh, SameCli, SameTraps, Course, StpAlive, SndAlive, AdvAlive, StpType,
      SndType, lookupVars, sigVars, peerVars, psVars, cliElse, sndElse
<1>15. CASE Listed
  BY <1>0, <1>15, ListedIs DEF Died, SameCli, SameTraps, Course, StpAlive, SndAlive, AdvAlive, StpType,
      SndType, lookupVars, sigVars, peerVars, psVars, cliElse, sndElse
<1>16. CASE Pass
  BY <1>0, <1>16, PassIs DEF Fresh, Died, SameCli, SameTraps, Course, StpAlive, SndAlive, AdvAlive,
      StpType, SndType, lookupVars, sigVars, peerVars, psVars, cliElse, sndElse
<1>17. CASE ReadRow
  BY <1>0, <1>17, ReadRowIs DEF SameCli, SameTraps, Course, StpAlive, SndAlive, AdvAlive, StpType,
      SndType, lookupVars, sigVars, peerVars, psVars, cliElse, sndElse
<1>18. CASE Transfer
  BY <1>0, <1>18, TransferIs DEF Fresh, Died, SameCli, Course, StpAlive, SndAlive, AdvAlive, StpType,
      SndType, lookupVars, sigVars, peerVars, psVars, cliElse, sndElse
<1>19. CASE PrintRow
  BY <1>0, <1>19, StopIs DEF PrintRow, Course, StpAlive, SndAlive, AdvAlive, StpType, SndType,
      lookupVars, sigVars, peerVars, psVars, cliElse, sndElse
<1>20. CASE StopTerm
  BY <1>0, <1>20 DEF StopTerm, TermGroup, Terminate, StpAlive, SndAlive, AdvAlive, Course, StpType,
      SndType, lookupVars, sigVars, peerVars, psVars, cliElse, sndElse
<1>21. CASE StopKill
  BY <1>0, <1>21, QuitIs DEF StopKill, StpAlive, SndAlive, Course, AdvAlive, StpType, SndType,
      lookupVars, sigVars, peerVars, psVars, cliElse, sndElse
<1>22. CASE ByHand
  BY <1>0, <1>22, ByHandIs DEF Fresh, Course, StpAlive, SndAlive, AdvAlive, StpType, SndType,
      lookupVars, sigVars, peerVars, psVars, cliElse, sndElse
<1>23. CASE SignalByHand
  BY <1>0, <1>23 DEF SignalByHand, StpAlive, Course, SndAlive, AdvAlive, StpType, SndType, lookupVars,
      sigVars, peerVars, psVars, cliElse, sndElse
<1>24. QED
  BY <1>1, <1>2, <1>3, <1>4, <1>5, <1>6, <1>7, <1>8, <1>9, <1>10, <1>11, <1>12, <1>13, <1>14, <1>15,
      <1>16, <1>17, <1>18, <1>19, <1>20, <1>21, <1>22, <1>23, Kinds

\* The command waits for the run it started, and for no other.
LEMMA WaitsStep ==
  ASSUME SendInv, [Next]_vars
  PROVE  Waits'
<1>0. Typed /\ Records /\ stp \in StpType /\ snd \in SndType /\ cli \in CliType /\ Course /\ WakeOwned /\ Waits /\ NothingOutlives
  BY Parts
<1>1. CASE UNCHANGED vars
  BY <1>0, <1>1 DEF vars, lookupVars, sigVars, peerVars, psVars, cliElse, sndElse, Waits, StpAlive,
      SndAlive
<1>2. CASE Prober
  <2>1. CASE StartProbes /\ UNCHANGED cli
    BY <1>0, <2>1 DEF StartProbes, Waits, StpAlive, SndAlive, AdvAlive, CliType, lookupVars, sigVars,
        peerVars, psVars, cliElse, sndElse
  <2>2. CASE Rescan /\ UNCHANGED cli
    BY <1>0, <2>2, HeardIs DEF Rescan, Waits, StpAlive, SndAlive, AdvAlive, CliType, lookupVars,
        sigVars, peerVars, psVars, cliElse, sndElse
  <2>3. ASSUME NEW a \in Addrs, ProbeStart(a), UNCHANGED cli PROVE Waits'
    BY <1>0, <2>3 DEF ProbeStart, StpAlive, Waits, SndAlive, AdvAlive, CliType, lookupVars, sigVars,
        peerVars, psVars, cliElse, sndElse
  <2>4. ASSUME NEW a \in Addrs, ProbeEnd(a), UNCHANGED cli PROVE Waits'
    BY <1>0, <2>4 DEF ProbeEnd, StpAlive, PeerName, Waits, SndAlive, AdvAlive, CliType, lookupVars,
        sigVars, peerVars, psVars, cliElse, sndElse
  <2>5. QED
    BY <1>2, <2>1, <2>2, <2>3, <2>4 DEF Prober
<1>3. CASE Stages
  BY <1>0, <1>3, StagesKeeps, StagesIs DEF SameRun, Waits, StpAlive, SndAlive, lookupVars, sigVars,
      peerVars, psVars, cliElse, sndElse
<1>4. CASE Signaller
  BY <1>0, <1>4, SignallerKeeps DEF Waits, StpAlive, SndAlive, lookupVars, sigVars, peerVars, psVars,
      cliElse, sndElse
<1>5. CASE Advert
  BY <1>0, <1>5, AdvertKeeps DEF Waits, StpAlive, SndAlive, lookupVars, sigVars, peerVars, psVars,
      cliElse, sndElse
<1>6. CASE Transferring
  BY <1>0, <1>6, TransferringKeeps DEF Waits, StpAlive, SndAlive, lookupVars, sigVars, peerVars, psVars,
      cliElse, sndElse
<1>7. CASE Alone
  <2>1. CASE Send
    BY <1>0, <2>1, SendIs DEF Died, Waits, StpAlive, SndAlive, AdvAlive, CliType, lookupVars, sigVars,
        peerVars, psVars, cliElse, sndElse
  <2>2. CASE PickAnswer
    <3>1. CASE Picked
      BY <1>0, <2>2, <3>1, PickedIs DEF PickAnswer, Waits, StpAlive, SndAlive, AdvAlive, CliType, lookupVars,
          sigVars, peerVars, psVars, cliElse, sndElse
    <3>2. CASE Die
      BY <1>0, <2>2, <3>2, QuitIs DEF PickAnswer, Die, Waits, StpAlive, SndAlive, AdvAlive, CliType, lookupVars,
          sigVars, peerVars, psVars, cliElse, sndElse
    <3> QED
      BY <2>2, <3>1, <3>2 DEF PickAnswer, Picked
  <2>3. CASE PickClosed
    BY <1>0, <2>3, QuitIs DEF PickClosed, Die, Waits, StpAlive, SndAlive, AdvAlive, CliType, lookupVars,
        sigVars, peerVars, psVars, cliElse, sndElse
  <2>4. CASE Radio
    BY <1>0, <2>4, QuitIs DEF Radio, Die, Waits, StpAlive, SndAlive, AdvAlive, CliType, lookupVars,
        sigVars, peerVars, psVars, cliElse, sndElse
  <2>5. CASE Look
    BY <1>0, <2>5, LookIs DEF Waits, Course, SameCli, psVars
  <2>6. CASE LookOver \/ LookUntrapped
    <3>1. UNCHANGED psVars /\ cli.pc \in {"look", "unlook"}
      BY <2>6 DEF LookOver, LookUntrapped, cliElse
    <3>2. CASE Quit(130)
      BY <1>0, <3>1, <3>2, QuitIs DEF Waits, psVars
    <3>3. CASE Moved("unlook")
      BY <1>0, <3>1, <3>3, MovedIs, Moves DEF Waits, psVars
    <3>4. CASE cli' = Settled
      BY <1>0, <3>1, <3>4, SettledIs DEF Waits, psVars
    <3>5. QED
      BY <2>6, <3>2, <3>3, <3>4 DEF LookOver, LookUntrapped, Moved
  <2>7. CASE PassDone
    <3>1. UNCHANGED psVars /\ cli.pc = "pass" /\ ~StpAlive
      BY <2>7 DEF PassDone, Writers, cliElse
    <3>2. CASE Quit(1) \/ Quit(130)
      BY <1>0, <3>1, <3>2, QuitIs DEF Waits, psVars
    <3>3. CASE Moved("look") \/ Moved("unlook")
      BY <1>0, <3>1, <3>3, MovedIs, Moves DEF Waits, StpAlive, psVars
    <3>4. QED
      BY <2>7, <3>2, <3>3 DEF PassDone, Die, Moved
  <2>8. CASE PassTimedOut
    BY <1>0, <2>8, StopIs DEF PassTimedOut, Waits, StpAlive, SndAlive, AdvAlive, CliType, lookupVars,
        sigVars, peerVars, psVars, cliElse, sndElse
  <2>9. CASE SendDone
    BY <1>0, <2>9 DEF SendDone, Writers, StpAlive, SndAlive, Waits, AdvAlive, CliType, lookupVars,
        sigVars, peerVars, psVars, cliElse, sndElse
  <2>10. CASE Cancelled
    BY <1>0, <2>10, QuitIs, StopIs DEF Cancelled, Waits, StpAlive, SndAlive, AdvAlive, CliType,
        lookupVars, sigVars, peerVars, psVars, cliElse, sndElse
  <2>11. CASE StopGone
    BY <1>0, <2>11, QuitIs DEF StopGone, Group, StpAlive, SndAlive, AdvAlive, Waits, CliType,
        lookupVars, sigVars, peerVars, psVars, cliElse, sndElse
  <2>12. CASE ErrorsEnd \/ SendUntrapped
    <3>1. UNCHANGED psVars /\ cli.pc \in {"errors", "unsend"}
      BY <2>12 DEF ErrorsEnd, SendUntrapped, cliElse
    <3>2. CASE Moved("unsend")
      BY <1>0, <3>1, <3>2, MovedIs, Moves DEF Waits, psVars
    <3>3. CASE Quit(cli.rc)
      BY <1>0, <3>1, <3>3, QuitIs DEF Waits, CliType, psVars
    <3>4. QED
      BY <2>12, <3>2, <3>3 DEF ErrorsEnd, SendUntrapped, Moved
  <2>13. CASE Signal
    BY <1>0, <2>13, SignalIs DEF Waits, psVars
  <2>14. CASE Deadline
    BY <1>0, <2>14 DEF Deadline, Waits, StpAlive, SndAlive, AdvAlive, CliType, lookupVars, sigVars,
        peerVars, psVars, cliElse, sndElse
  <2>15. QED
    BY <1>7, <2>1, <2>2, <2>3, <2>4, <2>5, <2>6, <2>7, <2>8, <2>9, <2>10, <2>11, <2>12, <2>13, <2>14 DEF
        Alone
<1>8. CASE ReadPeers /\ UNCHANGED cli
  BY <1>0, <1>8, ReadPeersIs DEF SameRun, Gone, Waits, StpAlive, SndAlive, AdvAlive, CliType,
      lookupVars, sigVars, peerVars, psVars, cliElse, sndElse
<1>9. CASE AfterWake /\ UNCHANGED cli
  BY <1>0, <1>9, AfterWakeIs DEF SameRun, Gone, Waits, StpAlive, SndAlive, AdvAlive, CliType,
      lookupVars, sigVars, peerVars, psVars, cliElse, sndElse
<1>10. CASE SigExit /\ UNCHANGED cli
  BY <1>0, <1>10, ExitIs DEF SigExit, Waits, StpAlive, SndAlive, AdvAlive, CliType, lookupVars, sigVars,
      peerVars, psVars, cliElse, sndElse
<1>11. CASE SndTerm /\ UNCHANGED cli
  BY <1>0, <1>11, OverIs DEF SndTerm, SndAlive, Waits, StpAlive, AdvAlive, CliType, lookupVars, sigVars,
      peerVars, psVars, cliElse, sndElse
<1>12. CASE EditFile /\ UNCHANGED cli
  BY <1>0, <1>12 DEF EditFile, SndAlive, Waits, StpAlive, AdvAlive, CliType, lookupVars, sigVars,
      peerVars, psVars, cliElse, sndElse
<1>13. CASE Peers
  BY <1>0, <1>13, PeersIs DEF Fresh, Died, Waits, StpAlive, SndAlive, AdvAlive, CliType, lookupVars,
      sigVars, peerVars, psVars, cliElse, sndElse
<1>14. CASE List
  BY <1>0, <1>14, ListIs DEF Fresh, SameCli, SameTraps, Waits, StpAlive, SndAlive, AdvAlive, CliType,
      lookupVars, sigVars, peerVars, psVars, cliElse, sndElse
<1>15. CASE Listed
  BY <1>0, <1>15, ListedIs DEF Died, SameCli, SameTraps, Waits, StpAlive, SndAlive, AdvAlive, CliType,
      lookupVars, sigVars, peerVars, psVars, cliElse, sndElse
<1>16. CASE Pass
  BY <1>0, <1>16, PassIs DEF Fresh, Died, SameCli, SameTraps, Waits, StpAlive, SndAlive, AdvAlive,
      CliType, lookupVars, sigVars, peerVars, psVars, cliElse, sndElse
<1>17. CASE ReadRow
  BY <1>0, <1>17, ReadRowIs DEF SameCli, SameTraps, Waits, StpAlive, SndAlive, AdvAlive, CliType,
      lookupVars, sigVars, peerVars, psVars, cliElse, sndElse
<1>18. CASE Transfer
  BY <1>0, <1>18, TransferIs DEF Waits, SameCli, Fresh, Died, psVars
<1>19. CASE PrintRow
  BY <1>0, <1>19, StopIs DEF PrintRow, Waits, StpAlive, SndAlive, AdvAlive, CliType, lookupVars,
      sigVars, peerVars, psVars, cliElse, sndElse
<1>20. CASE StopTerm
  BY <1>0, <1>20 DEF StopTerm, TermGroup, Terminate, StpAlive, SndAlive, AdvAlive, Waits, CliType,
      lookupVars, sigVars, peerVars, psVars, cliElse, sndElse
<1>21. CASE StopKill
  BY <1>0, <1>21, QuitIs DEF StopKill, StpAlive, SndAlive, Waits, AdvAlive, CliType, lookupVars,
      sigVars, peerVars, psVars, cliElse, sndElse
<1>22. CASE ByHand
  BY <1>0, <1>22, ByHandIs DEF Fresh, Waits, StpAlive, SndAlive, AdvAlive, CliType, lookupVars, sigVars,
      peerVars, psVars, cliElse, sndElse
<1>23. CASE SignalByHand
  BY <1>0, <1>23 DEF SignalByHand, StpAlive, Waits, SndAlive, AdvAlive, CliType, lookupVars, sigVars,
      peerVars, psVars, cliElse, sndElse
<1>24. QED
  BY <1>1, <1>2, <1>3, <1>4, <1>5, <1>6, <1>7, <1>8, <1>9, <1>10, <1>11, <1>12, <1>13, <1>14, <1>15,
      <1>16, <1>17, <1>18, <1>19, <1>20, <1>21, <1>22, <1>23, Kinds

\* The advertiser always has one owner.
LEMMA WakeStep ==
  ASSUME SendInv, [Next]_vars
  PROVE  WakeOwned'
<1>0. Typed /\ Records /\ stp \in StpType /\ snd \in SndType /\ cli \in CliType /\ Course /\ WakeOwned /\ Waits /\ Signals /\ NothingOutlives
  BY Parts
<1>c. ASSUME UNCHANGED psVars, cli.pc \notin {"grace", "exited", "hand"} \/ cli'.pc \in {"grace", "exited", "hand"}
      PROVE  WakeOwned'
  BY <1>0, <1>c DEF WakeOwned, AdvAlive, psVars, sigVars
<1>n. adv = "none" \/ cli.pc \notin {"shell", "choose", "look", "match"}
  BY <1>0 DEF WakeOwned, Waits, AdvAlive
<1>f. ASSUME NEW mode, Fresh(mode), adv = "none" PROVE WakeOwned'
  BY <1>0, <1>f DEF WakeOwned, AdvAlive, Fresh
<1>1. CASE UNCHANGED vars
  BY <1>0, <1>1 DEF vars, lookupVars, sigVars, peerVars, psVars, cliElse, sndElse, WakeOwned, AdvAlive
<1>2. CASE Prober
  <2>1. CASE StartProbes /\ UNCHANGED cli
    BY <1>0, <2>1 DEF StartProbes, WakeOwned, StpAlive, SndAlive, AdvAlive, StpType, lookupVars,
        sigVars, peerVars, psVars, cliElse, sndElse
  <2>2. CASE Rescan /\ UNCHANGED cli
    BY <1>0, <2>2, HeardIs DEF Rescan, WakeOwned, StpAlive, SndAlive, AdvAlive, StpType, lookupVars,
        sigVars, peerVars, psVars, cliElse, sndElse
  <2>3. ASSUME NEW a \in Addrs, ProbeStart(a), UNCHANGED cli PROVE WakeOwned'
    BY <1>0, <2>3 DEF ProbeStart, StpAlive, WakeOwned, SndAlive, AdvAlive, StpType, lookupVars, sigVars,
        peerVars, psVars, cliElse, sndElse
  <2>4. ASSUME NEW a \in Addrs, ProbeEnd(a), UNCHANGED cli PROVE WakeOwned'
    BY <1>0, <2>4 DEF ProbeEnd, StpAlive, PeerName, WakeOwned, SndAlive, AdvAlive, StpType, lookupVars,
        sigVars, peerVars, psVars, cliElse, sndElse
  <2>5. QED
    BY <1>2, <2>1, <2>2, <2>3, <2>4 DEF Prober
<1>3. CASE Stages
  <2>1. CASE WakeSpawn /\ UNCHANGED cli
    BY <1>0, <2>1 DEF WakeSpawn, AdvAlive, WakeOwned, StpAlive, SndAlive, StpType, lookupVars, sigVars,
        peerVars, psVars, cliElse, sndElse
  <2>2. CASE WakeStore /\ UNCHANGED cli
    BY <1>0, <2>2 DEF WakeStore, WakeOwned, StpAlive, SndAlive, AdvAlive, StpType, lookupVars, sigVars,
        peerVars, psVars, cliElse, sndElse
  <2>3. CASE WakeReady /\ UNCHANGED cli
    BY <1>0, <2>3 DEF WakeReady, AdvAlive, WakeOwned, StpAlive, SndAlive, StpType, lookupVars, sigVars,
        peerVars, psVars, cliElse, sndElse
  <2>4. CASE NamesDone /\ UNCHANGED cli
    BY <1>0, <2>4 DEF NamesDone, WakeOwned, StpAlive, SndAlive, AdvAlive, StpType, lookupVars, sigVars,
        peerVars, psVars, cliElse, sndElse
  <2>5. CASE Listen /\ UNCHANGED cli
    BY <1>0, <2>5 DEF Listen, WakeOwned, StpAlive, SndAlive, AdvAlive, StpType, lookupVars, sigVars,
        peerVars, psVars, cliElse, sndElse
  <2>6. CASE Wait /\ UNCHANGED cli
    BY <1>0, <2>6 DEF Wait, WakeOwned, StpAlive, SndAlive, AdvAlive, StpType, lookupVars, sigVars,
        peerVars, psVars, cliElse, sndElse
  <2>7. CASE DropWake /\ UNCHANGED cli
    BY <1>0, <2>7 DEF DropWake, Terminate, AdvAlive, WakeOwned, StpAlive, SndAlive, StpType, lookupVars,
        sigVars, peerVars, psVars, cliElse, sndElse
  <2>8. CASE ReapWake /\ UNCHANGED cli
    BY <1>0, <2>8 DEF ReapWake, WakeOwned, StpAlive, SndAlive, AdvAlive, StpType, lookupVars, sigVars,
        peerVars, psVars, cliElse, sndElse
  <2>9. CASE SpawnSender /\ UNCHANGED cli
    BY <1>0, <2>9, ExitIs, NoSndIs DEF SpawnSender, WakeOwned, StpAlive, SndAlive, AdvAlive, StpType,
        lookupVars, sigVars, peerVars, psVars, cliElse, sndElse
  <2>10. CASE StorePid /\ UNCHANGED cli
    BY <1>0, <2>10 DEF StorePid, WakeOwned, StpAlive, SndAlive, AdvAlive, StpType, lookupVars, sigVars,
        peerVars, psVars, cliElse, sndElse
  <2>11. CASE Reap /\ UNCHANGED cli
    BY <1>0, <2>11, ReapIs DEF SameRun, Gone, WakeOwned, StpAlive, SndAlive, AdvAlive, StpType,
        lookupVars, sigVars, peerVars, psVars, cliElse, sndElse
  <2>12. QED
    BY <1>3, <2>1, <2>2, <2>3, <2>4, <2>5, <2>6, <2>7, <2>8, <2>9, <2>10, <2>11 DEF Stages
<1>4. CASE Signaller
  <2>1. CASE SigTake /\ UNCHANGED cli
    BY <1>0, <2>1 DEF SigTake, StpAlive, WakeOwned, SndAlive, AdvAlive, StpType, lookupVars, sigVars,
        peerVars, psVars, cliElse, sndElse
  <2>2. CASE SigWake /\ UNCHANGED cli
    BY <1>0, <2>2 DEF SigWake, StpAlive, Terminate, AdvAlive, WakeOwned, SndAlive, StpType, lookupVars,
        sigVars, peerVars, psVars, cliElse, sndElse
  <2>3. CASE SigReapWake /\ UNCHANGED cli
    BY <1>0, <2>3 DEF SigReapWake, StpAlive, WakeOwned, SndAlive, AdvAlive, StpType, lookupVars,
        sigVars, peerVars, psVars, cliElse, sndElse
  <2>4. CASE SigSender /\ UNCHANGED cli
    BY <1>0, <2>4 DEF SigSender, StpAlive, SndAlive, WakeOwned, AdvAlive, StpType, lookupVars, sigVars,
        peerVars, psVars, cliElse, sndElse
  <2>5. QED
    BY <1>4, <2>1, <2>2, <2>3, <2>4 DEF Signaller
<1>5. CASE Advert
  <2>1. CASE AdvRegister /\ UNCHANGED cli
    BY <1>0, <2>1 DEF AdvRegister, WakeOwned, StpAlive, SndAlive, AdvAlive, StpType, lookupVars,
        sigVars, peerVars, psVars, cliElse, sndElse
  <2>2. CASE AdvExit /\ UNCHANGED cli
    BY <1>0, <2>2 DEF AdvExit, AdvAlive, WakeOwned, StpAlive, SndAlive, StpType, lookupVars, sigVars,
        peerVars, psVars, cliElse, sndElse
  <2>3. QED
    BY <1>5, <2>1, <2>2 DEF Advert
<1>6. CASE Transferring
  BY <1>0, <1>6, TransferringKeeps DEF WakeOwned, AdvAlive, lookupVars, sigVars, peerVars, psVars,
      cliElse, sndElse
<1>7. CASE Alone
  <2>1. UNCHANGED psVars
    BY <1>7, AloneKeeps
  <2>2. cli.pc \notin {"grace", "exited", "hand"} \/ cli'.pc \in {"grace", "exited", "hand"}
    <3>1. CASE Signal
      BY <1>0, <3>1, SignalIs
    <3>2. CASE StopGone
      BY <1>0, <3>2, QuitIs DEF StopGone, CliType
    <3>3. CASE ~Signal /\ ~StopGone
      BY <1>7, <3>3 DEF Alone, Send, PickAnswer, PickClosed, Radio, Look, LookOver, LookUntrapped,
         PassDone, PassTimedOut, SendDone, Cancelled, ErrorsEnd, SendUntrapped, Deadline
    <3>4. QED
      BY <3>1, <3>2, <3>3
  <2>3. QED
    BY <2>1, <2>2, <1>c
<1>8. CASE ReadPeers /\ UNCHANGED cli
  BY <1>0, <1>8, ReadPeersIs DEF SameRun, Gone, WakeOwned, StpAlive, SndAlive, AdvAlive, StpType,
      lookupVars, sigVars, peerVars, psVars, cliElse, sndElse
<1>9. CASE AfterWake /\ UNCHANGED cli
  BY <1>0, <1>9, AfterWakeIs DEF SameRun, Gone, WakeOwned, StpAlive, SndAlive, AdvAlive, StpType,
      lookupVars, sigVars, peerVars, psVars, cliElse, sndElse
<1>10. CASE SigExit /\ UNCHANGED cli
  BY <1>0, <1>10, ExitIs DEF SigExit, WakeOwned, StpAlive, SndAlive, AdvAlive, StpType, lookupVars,
      sigVars, peerVars, psVars, cliElse, sndElse
<1>11. CASE SndTerm /\ UNCHANGED cli
  BY <1>0, <1>11, OverIs DEF SndTerm, SndAlive, WakeOwned, StpAlive, AdvAlive, StpType, lookupVars,
      sigVars, peerVars, psVars, cliElse, sndElse
<1>12. CASE EditFile /\ UNCHANGED cli
  BY <1>0, <1>12 DEF EditFile, SndAlive, WakeOwned, StpAlive, AdvAlive, StpType, lookupVars, sigVars,
      peerVars, psVars, cliElse, sndElse
<1>13. CASE Peers
  BY <1>0, <1>13, PeersIs, <1>n, <1>f, <1>c DEF Died
<1>14. CASE List
  BY <1>0, <1>14, ListIs, <1>n, <1>f, <1>c DEF Died
<1>15. CASE Listed
  BY <1>0, <1>15, ListedIs DEF Died, SameCli, SameTraps, WakeOwned, StpAlive, SndAlive, AdvAlive,
      StpType, lookupVars, sigVars, peerVars, psVars, cliElse, sndElse
<1>16. CASE Pass
  BY <1>0, <1>16, PassIs, <1>n, <1>f, <1>c DEF Died
<1>17. CASE ReadRow
  BY <1>0, <1>17, ReadRowIs DEF SameCli, SameTraps, WakeOwned, StpAlive, SndAlive, AdvAlive, StpType,
      lookupVars, sigVars, peerVars, psVars, cliElse, sndElse
<1>18. CASE Transfer
  BY <1>0, <1>18, TransferIs, <1>n, <1>f, <1>c DEF Died
<1>19. CASE PrintRow
  BY <1>0, <1>19, StopIs DEF PrintRow, WakeOwned, StpAlive, SndAlive, AdvAlive, StpType, lookupVars,
      sigVars, peerVars, psVars, cliElse, sndElse
<1>20. CASE StopTerm
  BY <1>0, <1>20 DEF StopTerm, TermGroup, Terminate, StpAlive, SndAlive, AdvAlive, WakeOwned, StpType,
      lookupVars, sigVars, peerVars, psVars, cliElse, sndElse
<1>21. CASE StopKill
  <2>1. adv' = "none" /\ (stp'.pc = "gone" \/ stp' = stp) /\ UNCHANGED <<sig, termed, slot>>
    BY <1>0, <1>21 DEF StopKill, StpAlive, StpType, sigVars
  <2>2. cli'.pc = "exited"
    BY <1>0, <1>21, QuitIs DEF StopKill, CliType
  <2>3. QED
    BY <1>0, <2>1, <2>2 DEF WakeOwned, AdvAlive
<1>22. CASE ByHand
  BY <1>0, <1>22, ByHandIs, <1>n, <1>f, <1>c DEF Died
<1>23. CASE SignalByHand
  BY <1>0, <1>23 DEF SignalByHand, StpAlive, WakeOwned, SndAlive, AdvAlive, StpType, lookupVars,
      sigVars, peerVars, psVars, cliElse, sndElse
<1>24. QED
  BY <1>1, <1>2, <1>3, <1>4, <1>5, <1>6, <1>7, <1>8, <1>9, <1>10, <1>11, <1>12, <1>13, <1>14, <1>15,
      <1>16, <1>17, <1>18, <1>19, <1>20, <1>21, <1>22, <1>23, Kinds

\* A signal is trapped at every wait, and not forgotten.
LEMMA SignalsStep ==
  ASSUME SendInv, [Next]_vars
  PROVE  Signals'
<1>0. Typed /\ Records /\ stp \in StpType /\ snd \in SndType /\ cli \in CliType /\ Course /\ WakeOwned /\ Waits /\ Signals
  BY Parts
<1>q. ASSUME NEW rc \in Nat, Quit(rc) PROVE Signals'
  BY <1>0, <1>q, QuitIs DEF Signals
<1>d. ASSUME Died PROVE Signals'
  BY <1>0, <1>d DEF Signals, Died
<1>x. ASSUME NEW rc \in Nat \ {0}, Stop(rc) PROVE Signals'
  BY <1>0, <1>x, StopIs DEF Signals
<1>1. CASE UNCHANGED vars
  BY <1>0, <1>1 DEF vars, lookupVars, sigVars, peerVars, psVars, cliElse, sndElse, Signals
<1>2. CASE Prober
  BY <1>0, <1>2, ProberKeeps DEF Signals, lookupVars, sigVars, peerVars, psVars, cliElse, sndElse
<1>3. CASE Stages
  BY <1>0, <1>3, StagesKeeps DEF Signals, lookupVars, sigVars, peerVars, psVars, cliElse, sndElse
<1>4. CASE Signaller
  BY <1>0, <1>4, SignallerKeeps DEF Signals, lookupVars, sigVars, peerVars, psVars, cliElse, sndElse
<1>5. CASE Advert
  BY <1>0, <1>5, AdvertKeeps DEF Signals, lookupVars, sigVars, peerVars, psVars, cliElse, sndElse
<1>6. CASE Transferring
  BY <1>0, <1>6, TransferringKeeps DEF Signals, lookupVars, sigVars, peerVars, psVars, cliElse, sndElse
<1>7. CASE Alone
  <2>1. CASE Send
    BY <1>0, <2>1, SendIs DEF Died, Signals, CliType, lookupVars, sigVars, peerVars, psVars, cliElse,
        sndElse
  <2>2. CASE PickAnswer
    <3>1. CASE Picked
      BY <1>0, <2>2, <3>1, PickedIs DEF PickAnswer, Signals, CliType
    <3>2. CASE Die
      BY <1>0, <2>2, <3>2, <1>q DEF PickAnswer, Die, Signals, CliType
    <3> QED
      BY <2>2, <3>1, <3>2 DEF PickAnswer, Picked
  <2>3. CASE PickClosed
    BY <1>0, <2>3, QuitIs DEF PickClosed, Die, Signals, CliType, lookupVars, sigVars, peerVars, psVars,
        cliElse, sndElse
  <2>4. CASE Radio
    BY <1>0, <2>4, QuitIs DEF Radio, Die, Signals, CliType, lookupVars, sigVars, peerVars, psVars,
        cliElse, sndElse
  <2>5. CASE Look
    BY <1>0, <2>5, LookIs DEF SameCli, Signals, CliType, lookupVars, sigVars, peerVars, psVars, cliElse,
        sndElse
  <2>6. CASE LookOver \/ LookUntrapped
    <3>1. CASE LookOver /\ ~Quit(130)
      <4>1. Moved("unlook") /\ cli.pc = "look" /\ ~cli.caught
        BY <3>1 DEF LookOver, Moved
      <4>2. QED
        BY <1>0, <4>1, MovedIs, Moves DEF Signals
    <3>2. CASE LookUntrapped
      BY <1>0, <3>2, SettledIs DEF LookUntrapped, Signals
    <3>3. QED
      BY <2>6, <1>q, <3>1, <3>2
  <2>7. CASE PassDone
    <3>1. CASE Quit(1) \/ Quit(130)
      BY <1>q, <3>1
    <3>2. CASE ~(Quit(1) \/ Quit(130))
      <4>1. (Moved("look") \/ Moved("unlook")) /\ cli.pc = "pass" /\ ~cli.caught
        BY <2>7, <3>2 DEF PassDone, Die, Moved
      <4>2. QED
        BY <1>0, <4>1, MovedIs, Moves DEF Signals
    <3>3. QED
      BY <3>1, <3>2
  <2>8. CASE PassTimedOut
    BY <1>0, <2>8, <1>x DEF PassTimedOut
  <2>9. CASE SendDone
    BY <1>0, <2>9 DEF SendDone, Writers, StpAlive, SndAlive, Signals, CliType, lookupVars, sigVars,
        peerVars, psVars, cliElse, sndElse
  <2>10. CASE Cancelled
    BY <1>0, <2>10, <1>x, <1>q DEF Cancelled
  <2>11. CASE StopGone
    BY <1>0, <2>11, QuitIs DEF StopGone, Group, StpAlive, SndAlive, AdvAlive, Signals, CliType,
        lookupVars, sigVars, peerVars, psVars, cliElse, sndElse
  <2>12. CASE ErrorsEnd \/ SendUntrapped
    <3>1. CASE ErrorsEnd
      <4>1. Moved("unsend") /\ cli.pc = "errors" /\ ~cli.caught
        BY <3>1 DEF ErrorsEnd, Moved
      <4>2. QED
        BY <1>0, <4>1, MovedIs, Moves DEF Signals
    <3>2. CASE SendUntrapped
      BY <1>0, <1>q, <3>2 DEF SendUntrapped, CliType
    <3>3. QED
      BY <2>12, <3>1, <3>2
  <2>13. CASE Signal
    <3>1. CASE cli.trapped
      BY <1>0, <2>13, <3>1, SignalIs DEF Signals
    <3>2. CASE ~cli.trapped
      BY <1>0, <2>13, <3>2, SignalIs DEF Signals
    <3>3. QED
      BY <3>1, <3>2
  <2>14. CASE Deadline
    BY <1>0, <2>14 DEF Deadline, Signals, CliType, lookupVars, sigVars, peerVars, psVars, cliElse,
        sndElse
  <2>15. QED
    BY <1>7, <2>1, <2>2, <2>3, <2>4, <2>5, <2>6, <2>7, <2>8, <2>9, <2>10, <2>11, <2>12, <2>13, <2>14 DEF
        Alone
<1>8. CASE ReadPeers /\ UNCHANGED cli
  BY <1>0, <1>8, ReadPeersIs DEF SameRun, Gone, Signals, CliType, lookupVars, sigVars, peerVars, psVars,
      cliElse, sndElse
<1>9. CASE AfterWake /\ UNCHANGED cli
  BY <1>0, <1>9, AfterWakeIs DEF SameRun, Gone, Signals, CliType, lookupVars, sigVars, peerVars, psVars,
      cliElse, sndElse
<1>10. CASE SigExit /\ UNCHANGED cli
  BY <1>0, <1>10, ExitIs DEF SigExit, Signals, CliType, lookupVars, sigVars, peerVars, psVars, cliElse,
      sndElse
<1>11. CASE SndTerm /\ UNCHANGED cli
  BY <1>0, <1>11, OverIs DEF SndTerm, SndAlive, Signals, CliType, lookupVars, sigVars, peerVars, psVars,
      cliElse, sndElse
<1>12. CASE EditFile /\ UNCHANGED cli
  BY <1>0, <1>12 DEF EditFile, SndAlive, Signals, CliType, lookupVars, sigVars, peerVars, psVars,
      cliElse, sndElse
<1>13. CASE Peers
  BY <1>0, <1>13, PeersIs DEF Fresh, Died, Signals, CliType, lookupVars, sigVars, peerVars, psVars,
      cliElse, sndElse
<1>14. CASE List
  BY <1>0, <1>14, ListIs DEF Fresh, SameCli, SameTraps, Signals, CliType, lookupVars, sigVars, peerVars,
      psVars, cliElse, sndElse
<1>15. CASE Listed
  BY <1>0, <1>15, ListedIs DEF Died, SameCli, SameTraps, Signals, CliType, lookupVars, sigVars,
      peerVars, psVars, cliElse, sndElse
<1>16. CASE Pass
  BY <1>0, <1>16, <1>d, PassIs DEF Signals, SameCli, SameTraps
<1>17. CASE ReadRow
  BY <1>0, <1>17, ReadRowIs DEF SameCli, SameTraps, Signals, CliType, lookupVars, sigVars, peerVars,
      psVars, cliElse, sndElse
<1>18. CASE Transfer
  BY <1>0, <1>18, TransferIs DEF Fresh, Died, SameCli, Signals, CliType, lookupVars, sigVars, peerVars,
      psVars, cliElse, sndElse
<1>19. CASE PrintRow
  BY <1>0, <1>19, <1>x DEF PrintRow, Signals
<1>20. CASE StopTerm
  BY <1>0, <1>20 DEF StopTerm, TermGroup, Terminate, StpAlive, SndAlive, AdvAlive, Signals, CliType,
      lookupVars, sigVars, peerVars, psVars, cliElse, sndElse
<1>21. CASE StopKill
  BY <1>0, <1>21, QuitIs DEF StopKill, StpAlive, SndAlive, Signals, CliType, lookupVars, sigVars,
      peerVars, psVars, cliElse, sndElse
<1>22. CASE ByHand
  BY <1>0, <1>22, ByHandIs DEF Fresh, Signals, CliType, lookupVars, sigVars, peerVars, psVars, cliElse,
      sndElse
<1>23. CASE SignalByHand
  BY <1>0, <1>23 DEF SignalByHand, StpAlive, Signals, CliType, lookupVars, sigVars, peerVars, psVars,
      cliElse, sndElse
<1>24. QED
  BY <1>1, <1>2, <1>3, <1>4, <1>5, <1>6, <1>7, <1>8, <1>9, <1>10, <1>11, <1>12, <1>13, <1>14, <1>15,
      <1>16, <1>17, <1>18, <1>19, <1>20, <1>21, <1>22, <1>23, Kinds

\* One question, to the device the run is for.
LEMMA AskedStep ==
  ASSUME SendInv, [Next]_vars
  PROVE  AskedOnce'
<1>0. Typed /\ Records /\ stp \in StpType /\ snd \in SndType /\ cli \in CliType /\ Plain /\ Course /\ AskedOnce /\ Waits
  BY Parts, PlainIs
<1>n. cli.pc \in {"shell", "choose", "look", "unlook", "match"} => snd.pc = "none"
  BY <1>0 DEF Course, Waits
<1>f. ASSUME NEW mode, Fresh(mode), snd.pc = "none" PROVE AskedOnce'
  BY <1>0, <1>f DEF AskedOnce, Over0, Fresh
<1>d. ASSUME UNCHANGED psVars PROVE AskedOnce'
  BY <1>0, <1>d DEF AskedOnce, Over0, psVars, peerVars
<1>1. CASE UNCHANGED vars
  BY <1>0, <1>1 DEF vars, lookupVars, sigVars, peerVars, psVars, cliElse, sndElse, AskedOnce, Over0
<1>2. CASE Prober
  <2>1. stp' = stp \/ (stp'.pc = "naming" /\ stp'.to = stp.to)
    BY <1>0, <1>2 DEF Prober, StartProbes, Rescan, ProbeStart, ProbeEnd, StpType
  <2>2. QED
    BY <1>0, <1>2, <2>1, ProberKeeps DEF AskedOnce, Over0, peerVars
<1>3. CASE Stages
  <2>1. SameRun /\ stp'.to = stp.to /\ (stp'.pc = "gone" => Reap \/ stp'.rc = 1) /\ UNCHANGED <<asks, delivered>>
    BY <1>0, <1>3, StagesIs, StagesKeeps DEF peerVars
  <2>2. CASE Reap
    BY <1>0, <2>1, <2>2, ReapIs DEF AskedOnce, Over0
  <2>3. CASE ~Reap /\ snd' = snd
    BY <1>0, <2>1, <2>3 DEF AskedOnce, Over0
  <2>4. CASE SpawnSender /\ snd' # snd
    <3>1. stp.pc = "send" /\ snd' = [NoSnd EXCEPT !.pc = "open"]
      BY <2>4 DEF SpawnSender
    <3>2. snd.pc = "none" /\ snd'.pc = "open"
      BY <1>0, <3>1, NoSndIs DEF Course, SndType
    <3>3. ~Reap
      BY <3>1 DEF Reap
    <3>4. QED
      BY <1>0, <2>1, <3>2, <3>3 DEF AskedOnce, Over0
  <2>5. QED
    BY <1>3, <2>2, <2>3, <2>4 DEF Stages, WakeSpawn, WakeStore, WakeReady, NamesDone, Listen, Wait, DropWake, ReapWake,
       StorePid
<1>4. CASE Signaller
  BY <1>0, <1>4, SignallerKeeps DEF AskedOnce, Over0, lookupVars, sigVars, peerVars, psVars, cliElse,
      sndElse
<1>5. CASE Advert
  BY <1>0, <1>5, AdvertKeeps DEF AskedOnce, Over0, lookupVars, sigVars, peerVars, psVars, cliElse,
      sndElse
<1>6. CASE Transferring
  <2>1. CASE SndOptions /\ UNCHANGED cli
    <3>1. snd'.pc = "identity" \/ (snd'.pc = "over" /\ snd'.rc = 2)
      BY <1>0, <2>1, OverIs DEF SndOptions, Outgoing, SndType
    <3>2. QED
      BY <1>0, <2>1, <3>1 DEF SndOptions, AskedOnce, Over0, sndElse
  <2>2. CASE SndOpen /\ UNCHANGED cli
    BY <1>0, <2>2, OverIs DEF SndOpen, AskedOnce, Over0, SndType, lookupVars, sigVars, peerVars, psVars,
        cliElse, sndElse
  <2>3. CASE SndDiscover /\ UNCHANGED cli
    BY <1>0, <2>3, OverIs DEF SndDiscover, AskedOnce, Over0, SndType, lookupVars, sigVars, peerVars,
        psVars, cliElse, sndElse
  <2>4. CASE SndConnect /\ UNCHANGED cli
    BY <1>0, <2>4, OverIs DEF SndConnect, AskedOnce, Over0, SndType, lookupVars, sigVars, peerVars,
        psVars, cliElse, sndElse
  <2>5. CASE SndAsk /\ UNCHANGED cli
    BY <1>0, <2>5 DEF SndAsk, Peer, AskedOnce, Over0, SndType, lookupVars, sigVars, peerVars, psVars,
        cliElse, sndElse
  <2>6. CASE SndAnswered /\ UNCHANGED cli
    BY <1>0, <2>6, OverIs DEF SndAnswered, Peer, AskedOnce, Over0, SndType, lookupVars, sigVars,
        peerVars, psVars, cliElse, sndElse
  <2>7. CASE SndUpload /\ UNCHANGED cli
    <3>1. snd'.pc = "stream" \/ (snd'.pc = "over" /\ snd'.rc = 4)
      BY <1>0, <2>7, OverIs DEF SndUpload, Outgoing, SndType
    <3>2. QED
      BY <1>0, <2>7, <3>1 DEF SndUpload, AskedOnce, Over0, sndElse
  <2>8. CASE SndStream /\ UNCHANGED cli
    BY <1>0, <2>8, OverIs DEF SndStream, Peer, AskedOnce, Over0, SndType, lookupVars, sigVars, peerVars,
        psVars, cliElse, sndElse
  <2>9. QED
    BY <1>6, <2>1, <2>2, <2>3, <2>4, <2>5, <2>6, <2>7, <2>8 DEF Transferring
<1>7. CASE Alone
  BY <1>0, <1>7, AloneKeeps DEF AskedOnce, Over0, lookupVars, sigVars, peerVars, psVars, cliElse,
      sndElse
<1>8. CASE ReadPeers /\ UNCHANGED cli
  BY <1>0, <1>8, ReadPeersIs DEF AskedOnce, Over0, Course, Gone, SameRun, peerVars
<1>9. CASE AfterWake /\ UNCHANGED cli
  BY <1>0, <1>9, AfterWakeIs DEF AskedOnce, Over0, Course, Gone, SameRun, peerVars
<1>10. CASE SigExit /\ UNCHANGED cli
  BY <1>0, <1>10, ExitIs DEF SigExit, AskedOnce, Over0, SndType, lookupVars, sigVars, peerVars, psVars,
      cliElse, sndElse
<1>11. CASE SndTerm /\ UNCHANGED cli
  BY <1>0, <1>11, OverIs DEF SndTerm, SndAlive, AskedOnce, Over0, SndType, lookupVars, sigVars,
      peerVars, psVars, cliElse, sndElse
<1>12. CASE EditFile /\ UNCHANGED cli
  BY <1>0, <1>12 DEF EditFile, SndAlive, AskedOnce, Over0, SndType, lookupVars, sigVars, peerVars,
      psVars, cliElse, sndElse
<1>13. CASE Peers
  BY <1>0, <1>13, PeersIs, <1>n, <1>f, <1>d DEF Died
<1>14. CASE List
  BY <1>0, <1>14, ListIs, <1>n, <1>f, <1>d DEF Died
<1>15. CASE Listed
  BY <1>0, <1>15, ListedIs DEF Died, SameCli, SameTraps, AskedOnce, Over0, SndType, lookupVars, sigVars,
      peerVars, psVars, cliElse, sndElse
<1>16. CASE Pass
  BY <1>0, <1>16, PassIs, <1>n, <1>f, <1>d DEF Died
<1>17. CASE ReadRow
  BY <1>0, <1>17, ReadRowIs DEF SameCli, SameTraps, AskedOnce, Over0, SndType, lookupVars, sigVars,
      peerVars, psVars, cliElse, sndElse
<1>18. CASE Transfer
  BY <1>0, <1>18, TransferIs, <1>n, <1>f, <1>d DEF Died
<1>19. CASE PrintRow
  BY <1>0, <1>19, StopIs DEF PrintRow, AskedOnce, Over0, SndType, lookupVars, sigVars, peerVars, psVars,
      cliElse, sndElse
<1>20. CASE StopTerm
  BY <1>0, <1>20 DEF StopTerm, TermGroup, Terminate, StpAlive, SndAlive, AdvAlive, AskedOnce, Over0,
      SndType, lookupVars, sigVars, peerVars, psVars, cliElse, sndElse
<1>21. CASE StopKill
  BY <1>0, <1>21, QuitIs DEF StopKill, StpAlive, SndAlive, AskedOnce, Over0, SndType, lookupVars,
      sigVars, peerVars, psVars, cliElse, sndElse
<1>22. CASE ByHand
  BY <1>0, <1>22, ByHandIs, <1>n, <1>f, <1>d DEF Died
<1>23. CASE SignalByHand
  BY <1>0, <1>23 DEF SignalByHand, StpAlive, AskedOnce, Over0, SndType, lookupVars, sigVars, peerVars,
      psVars, cliElse, sndElse
<1>24. QED
  BY <1>1, <1>2, <1>3, <1>4, <1>5, <1>6, <1>7, <1>8, <1>9, <1>10, <1>11, <1>12, <1>13, <1>14, <1>15,
      <1>16, <1>17, <1>18, <1>19, <1>20, <1>21, <1>22, <1>23, Kinds

-----------------------------------------------------------------------------
(* What the lookups told. *)

\* A row says what its device said.
LEMMA RowsTrueStep ==
  ASSUME SendInv, [Next]_vars
  PROVE  RowsTrue'
<1>0. Typed /\ Records /\ stp \in StpType /\ snd \in SndType /\ cli \in CliType /\ Plain /\ RowsTrue /\ Waits
  BY Parts, PlainIs
<1>s. ASSUME UNCHANGED <<nameOf, answer, out>>, cli'.rows = cli.rows \/ cli'.rows = NoRow PROVE RowsTrue'
  BY <1>0, <1>s, NoRowIs DEF RowsTrue
<1>f. ASSUME NEW mode, Fresh(mode), cli'.rows = cli.rows \/ cli'.rows = NoRow PROVE RowsTrue'
  BY <1>0, <1>f, NoRowIs DEF RowsTrue, Fresh
<1>d. ASSUME Died PROVE RowsTrue'
  BY <1>s, <1>d DEF Died, psVars, lookupVars
<1>1. CASE UNCHANGED vars
  BY <1>0, <1>1 DEF vars, lookupVars, sigVars, peerVars, psVars, cliElse, sndElse, RowsTrue
<1>2. CASE Prober
  <2>1. CASE StartProbes \/ Rescan \/ \E a \in Addrs : ProbeStart(a)
    BY <1>0, <1>2, <2>1, <1>s DEF Prober, StartProbes, Rescan, ProbeStart
  <2>2. ASSUME NEW a \in Addrs, ProbeEnd(a) PROVE RowsTrue'
    <3>1. PICK r \in PeerName(a) :
              /\ answer' = [answer EXCEPT ![a] = r]
              /\ out' = IF stp.mode = "names" /\ stp.stream THEN out \union {<<a, r>>} ELSE out
      BY <2>2 DEF ProbeEnd
    <3>2. nameOf' = nameOf /\ cli' = cli /\ r \in {nameOf[a], "none"}
      BY <1>2, <3>1, ProberKeeps DEF PeerName
    <3>3. \A b \in Addrs : answer'[b] \in {nameOf[b], "none", "unasked"}
      BY <1>0, <3>1, <3>2 DEF Plain, RowsTrue
    <3>4. \A row \in out' : row[2] \in {nameOf[row[1]], "none", "unasked"}
      BY <1>0, <3>1, <3>2 DEF RowsTrue
    <3>5. QED
      BY <1>0, <3>2, <3>3, <3>4 DEF RowsTrue
  <2>3. QED
    BY <1>2, <2>1, <2>2 DEF Prober
<1>3. CASE Stages
  BY <1>0, <1>3, StagesKeeps DEF RowsTrue, lookupVars, sigVars, peerVars, psVars, cliElse, sndElse
<1>4. CASE Signaller
  BY <1>0, <1>4, SignallerKeeps DEF RowsTrue, lookupVars, sigVars, peerVars, psVars, cliElse, sndElse
<1>5. CASE Advert
  BY <1>0, <1>5, AdvertKeeps DEF RowsTrue, lookupVars, sigVars, peerVars, psVars, cliElse, sndElse
<1>6. CASE Transferring
  BY <1>0, <1>6, TransferringKeeps DEF RowsTrue, lookupVars, sigVars, peerVars, psVars, cliElse, sndElse
<1>7. CASE Alone
  <2>1. cli'.rows = cli.rows \/ cli'.rows = NoRow
    <3>1. ASSUME NEW rc \in Nat, Quit(rc) \/ Stop(rc) PROVE cli'.rows = NoRow
      BY <1>0, <3>1, QuitIs, StopIs
    <3>2. CASE Send \/ Signal \/ Look
      BY <1>0, <3>2, SendIs, SignalIs, LookIs DEF Died
    <3>3. CASE PassDone \/ LookOver \/ LookUntrapped
      <4>1. CASE cli' = Settled
        BY <1>0, <4>1, SettledIs
      <4>2. CASE cli' # Settled
        BY <1>0, <3>1, <3>3, <4>2 DEF PassDone, LookOver, LookUntrapped, Die, CliType
      <4>3. QED
        BY <4>1, <4>2
    <3>4. CASE PickAnswer \/ PickClosed \/ Radio \/ PassTimedOut \/ Cancelled
      BY <1>0, <3>1, <3>4 DEF PickAnswer, PickClosed, Radio, PassTimedOut, Cancelled, Die, CliType
    <3>5. CASE SendDone \/ StopGone \/ ErrorsEnd \/ SendUntrapped \/ Deadline
      BY <1>0, <3>1, <3>5 DEF SendDone, StopGone, ErrorsEnd, SendUntrapped, Deadline, CliType
    <3>6. QED
      BY <1>7, <3>2, <3>3, <3>4, <3>5 DEF Alone
  <2>2. QED
    BY <1>7, <2>1, <1>s, AloneKeeps DEF psVars, lookupVars
<1>8. CASE ReadPeers /\ UNCHANGED cli
  <2>1. \A row \in out' : row[2] \in {nameOf[row[1]], "none", "unasked"}
    BY <1>0, <1>8, ReadPeersIs DEF RowsTrue
  <2>2. QED
    BY <1>0, <1>8, <2>1, ReadPeersIs DEF RowsTrue
<1>9. CASE AfterWake /\ UNCHANGED cli
  <2>1. \A row \in {<<a, IF answer[a] = "unasked" THEN "none" ELSE answer[a]>> :
                          a \in {b \in Addrs : probe[b] # "no"}} : row[2] \in {nameOf[row[1]], "none", "unasked"}
    BY <1>0 DEF RowsTrue
  <2>2. \A row \in out' : row[2] \in {nameOf[row[1]], "none", "unasked"}
    BY <1>0, <1>9, <2>1, AfterWakeIs DEF RowsTrue
  <2>3. QED
    BY <1>0, <1>9, <2>2, AfterWakeIs DEF RowsTrue
<1>10. CASE SigExit /\ UNCHANGED cli
  BY <1>0, <1>10, ExitIs DEF SigExit, RowsTrue, lookupVars, sigVars, peerVars, psVars, cliElse, sndElse
<1>11. CASE SndTerm /\ UNCHANGED cli
  BY <1>0, <1>11, OverIs DEF SndTerm, SndAlive, RowsTrue, lookupVars, sigVars, peerVars, psVars,
      cliElse, sndElse
<1>12. CASE EditFile /\ UNCHANGED cli
  BY <1>0, <1>12 DEF EditFile, SndAlive, RowsTrue, lookupVars, sigVars, peerVars, psVars, cliElse,
      sndElse
<1>13. CASE Peers
  BY <1>0, <1>13, PeersIs, <1>f, <1>d
<1>14. CASE List
  BY <1>0, <1>14, ListIs, <1>f, <1>d DEF SameCli
<1>15. CASE Listed
  BY <1>0, <1>15, <1>d, ListedIs DEF RowsTrue
<1>16. CASE Pass
  BY <1>0, <1>16, PassIs, <1>f, <1>d DEF SameCli
<1>17. CASE ReadRow
  <2>1. PICK row \in out : /\ row[1] \in Addrs /\ row[2] \in Answers /\ out' = out \ {row}
                         /\ cli'.rows = Hear(row[1], row[2])
    BY <1>0, <1>17, ReadRowIs
  <2>2. cli.rows \in [Addrs -> Answers \union {"unheard"}]
    BY <1>0 DEF CliType
  <2>3. \A a \in Addrs : cli'.rows[a] = cli.rows[a] \/ (a = row[1] /\ cli'.rows[a] = row[2])
    BY <2>1, <2>2 DEF Hear
  <2>4. row[2] \in {nameOf[row[1]], "none", "unasked"} /\ UNCHANGED <<nameOf, answer>>
    BY <1>0, <1>17, <2>1, ReadRowIs DEF RowsTrue
  <2>5. QED
    BY <1>0, <2>1, <2>3, <2>4 DEF RowsTrue
<1>18. CASE Transfer
  BY <1>0, <1>18, TransferIs, <1>f, <1>d DEF SameCli
<1>19. CASE PrintRow
  <2>1. CASE cli' = cli /\ \E row \in out : out' = out \ {row}
    BY <1>0, <1>19, <2>1 DEF PrintRow, RowsTrue
  <2>2. CASE Stop(141) /\ UNCHANGED out
    BY <1>0, <1>19, <2>2, StopIs, <1>s DEF PrintRow
  <2>3. QED
    BY <1>19, <2>1, <2>2 DEF PrintRow
<1>20. CASE StopTerm
  BY <1>0, <1>20, <1>s DEF StopTerm, CliType, lookupVars
<1>21. CASE StopKill
  BY <1>0, <1>21, <1>s, QuitIs DEF StopKill, lookupVars, CliType
<1>22. CASE ByHand
  BY <1>0, <1>22, ByHandIs, <1>f, <1>d
<1>23. CASE SignalByHand
  BY <1>0, <1>23 DEF SignalByHand, StpAlive, RowsTrue, lookupVars, sigVars, peerVars, psVars, cliElse,
      sndElse
<1>24. QED
  BY <1>1, <1>2, <1>3, <1>4, <1>5, <1>6, <1>7, <1>8, <1>9, <1>10, <1>11, <1>12, <1>13, <1>14, <1>15,
      <1>16, <1>17, <1>18, <1>19, <1>20, <1>21, <1>22, <1>23, Kinds

\* No answer is lost between the lookup thread and the command.
LEMMA RowsKeptStep ==
  ASSUME SendInv, [Next]_vars
  PROVE  RowsKept'
<1>0. Typed /\ Records /\ stp \in StpType /\ snd \in SndType /\ cli \in CliType /\ Plain /\ RowsKept /\ Course /\ Waits /\ WakeOwned
  BY Parts, PlainIs
<1>f. ASSUME NEW mode, Fresh(mode), cli'.pc \notin {"look", "unlook", "match"} PROVE RowsKept'
  <2>1. stp'.pc = "peers" /\ out' = {} /\ \A a \in Addrs : answer'[a] = "unasked" /\ probe'[a] = "no"
    BY <1>f DEF Fresh
  <2>2. "unasked" \notin Named
    BY DEF Named
  <2>3. QED
    BY <1>f, <2>1, <2>2 DEF RowsKept
<1>u. ASSUME UNCHANGED psVars, cli'.pc \in {"look", "unlook", "match", "pass"} => cli'.pc = cli.pc /\ cli'.rows = cli.rows /\ cli'.to = cli.to
      PROVE  RowsKept'
  BY <1>0, <1>u DEF RowsKept, StpAlive, psVars, lookupVars
<1>d. ASSUME Died PROVE RowsKept'
  BY <1>u, <1>d DEF Died
\* The main thread and the rows as they were, or another command.
<1>s. ASSUME UNCHANGED <<probe, answer, out>>, stp'.mode = stp.mode, stp'.stream = stp.stream,
             stp'.pc # "off", stp'.pc \in Early => stp.pc \in Early, StpAlive' => StpAlive, StpAlive => StpAlive' \/ cli'.pc # "pass",
             cli' = cli \/ cli'.pc \notin {"look", "unlook", "match", "pass"}
      PROVE  RowsKept'
  BY <1>0, <1>s DEF RowsKept
<1>1. CASE UNCHANGED vars
  BY <1>0, <1>1 DEF vars, lookupVars, sigVars, peerVars, psVars, cliElse, sndElse, RowsKept, StpAlive
<1>2. CASE Prober
  <2>0. UNCHANGED <<nameOf, cli>>
    BY <1>2, ProberKeeps
  <2>1. CASE StartProbes
    <3>1. /\ stp.pc = "names" /\ UNCHANGED <<answer, out>> /\ stp' = [stp EXCEPT !.pc = "naming", !.known = {}]
          /\ probe' = [a \in Addrs |-> IF a \in stp.known THEN "queued" ELSE "no"]
      BY <2>1 DEF StartProbes
    <3>2. stp'.pc = "naming" /\ stp'.mode = stp.mode /\ stp'.stream = stp.stream /\ StpAlive /\ StpAlive'
      BY <1>0, <3>1 DEF StpType, StpAlive
    <3>3. stp.mode = "names" => out = {} /\ \A a \in Addrs : answer[a] = "unasked"
      <4>1. stp.mode = "names" => \A a \in Addrs : probe[a] = "no"
        BY <1>0, <3>1 DEF RowsKept, Early
      <4>2. \A row \in out : row[1] \in Addrs
        BY <1>0 DEF Plain
      <4>3. QED
        BY <1>0, <3>2, <4>1, <4>2 DEF RowsKept
    <3>4. QED
      BY <1>0, <2>0, <3>1, <3>2, <3>3 DEF RowsKept, Early, Waits, Named
  <2>2. CASE Rescan
    <3>1. /\ stp.pc = "naming" /\ UNCHANGED <<stp, answer, out>>
          /\ \A a \in Addrs : probe[a] = "told" => probe'[a] = "told"
      BY <2>2 DEF Rescan
    <3>2. \A row \in out : row[1] \in Addrs
      BY <1>0 DEF Plain
    <3>3. QED
      BY <1>0, <2>0, <3>1, <3>2 DEF RowsKept, Early, StpAlive
  <2>3. ASSUME NEW a \in Addrs, ProbeStart(a) PROVE RowsKept'
    <3>1. /\ probe[a] = "queued" /\ probe' = [probe EXCEPT ![a] = "asking"] /\ UNCHANGED <<stp, answer, out>>
      BY <2>3 DEF ProbeStart
    <3>2. \A b \in Addrs : probe[b] = "told" => probe'[b] = "told"
      BY <1>0, <3>1 DEF Plain
    <3>3. \A row \in out : row[1] \in Addrs
      BY <1>0 DEF Plain
    <3>4. stp.mode = "names" => stp.pc \notin Early
      BY <1>0, <3>1 DEF RowsKept
    <3>5. QED
      BY <1>0, <2>0, <3>1, <3>2, <3>3, <3>4 DEF RowsKept, StpAlive
  <2>4. ASSUME NEW a \in Addrs, ProbeEnd(a) PROVE RowsKept'
    <3>1. /\ StpAlive /\ probe[a] = "asking" /\ probe' = [probe EXCEPT ![a] = "told"] /\ stp' = stp
      BY <2>4 DEF ProbeEnd
    <3>2. PICK r \in PeerName(a) :
              /\ answer' = [answer EXCEPT ![a] = r]
              /\ out' = IF stp.mode = "names" /\ stp.stream THEN out \union {<<a, r>>} ELSE out
      BY <2>4 DEF ProbeEnd
    <3>3. /\ probe'[a] = "told" /\ answer'[a] = r
          /\ \A b \in Addrs : b # a => probe'[b] = probe[b] /\ answer'[b] = answer[b]
      BY <1>0, <3>1, <3>2 DEF Plain
    <3>4. CASE stp.mode = "names"
      <4>1. stp.pc \notin Early
        BY <1>0, <3>1, <3>4 DEF RowsKept
      <4>2. \A row \in out : row[1] \in Addrs /\ row[1] # a
        BY <1>0, <3>1, <3>4 DEF RowsKept, Plain
      <4>3. \A row \in out' : (row \in out \/ (row[1] = a /\ row[2] = r))
        BY <3>2
      <4>4. \A b \in Addrs : answer'[b] # "unasked" => probe'[b] = "told"
        BY <1>0, <3>3, <3>4 DEF RowsKept
      <4>5. \A row \in out' : probe'[row[1]] = "told"
        BY <1>0, <3>1, <3>3, <3>4, <4>2, <4>3 DEF RowsKept
      <4>6. \A row \in out' : row[2] = answer'[row[1]] \/ (row[2] = "none" /\ answer'[row[1]] \notin Named)
        BY <1>0, <3>3, <3>4, <4>2, <4>3 DEF RowsKept
      <4>7. cli.pc = "pass" => \A b \in Addrs : answer'[b] \in Named =>
                cli.rows[b] = answer'[b] \/ <<b, answer'[b]>> \in out' \/ (~stp.stream /\ StpAlive)
        BY <1>0, <3>1, <3>2, <3>3, <3>4 DEF RowsKept
      <4>8. cli.pc \notin {"look", "unlook", "match"} /\ stp.pc # "off" /\ StpAlive'
        BY <1>0, <3>1 DEF Waits, StpAlive
      <4>9. QED
        BY <2>0, <3>1, <4>1, <4>4, <4>5, <4>6, <4>7, <4>8 DEF RowsKept
    <3>5. CASE stp.mode # "names"
      BY <1>0, <2>0, <3>1, <3>5 DEF RowsKept, Waits, StpAlive
    <3>6. QED
      BY <3>4, <3>5
  <2>5. QED
    BY <1>2, <2>1, <2>2, <2>3, <2>4 DEF Prober
<1>3. CASE Stages
  <2>1. StpAlive /\ SameRun /\ stp'.pc # "off" /\ UNCHANGED <<probe, answer, out, cli>>
    BY <1>0, <1>3, StagesIs, StagesKeeps DEF lookupVars
  <2>2. CASE stp.mode = "names"
    BY <1>0, <1>3, <1>s, <2>1, <2>2, NamesStages DEF SameRun
  <2>3. CASE stp.mode # "names"
    BY <1>0, <2>1, <2>3 DEF RowsKept, Waits, SameRun, StpAlive
  <2>4. QED
    BY <2>2, <2>3
<1>4. CASE Signaller
  BY <1>0, <1>4, SignallerKeeps DEF RowsKept, StpAlive, lookupVars, sigVars, peerVars, psVars, cliElse,
      sndElse
<1>5. CASE Advert
  BY <1>0, <1>5, AdvertKeeps DEF RowsKept, StpAlive, lookupVars, sigVars, peerVars, psVars, cliElse,
      sndElse
<1>6. CASE Transferring
  BY <1>0, <1>6, TransferringKeeps DEF RowsKept, StpAlive, lookupVars, sigVars, peerVars, psVars,
      cliElse, sndElse
<1>7. CASE Alone
  <2>0. UNCHANGED psVars
    BY <1>7, AloneKeeps
  <2>q. ASSUME NEW rc \in Nat, Quit(rc) \/ Stop(rc) PROVE RowsKept'
    BY <1>0, <1>u, <2>0, <2>q, QuitIs, StopIs
  <2>1. CASE Send \/ Signal
    BY <1>0, <1>u, <1>d, <2>0, <2>1, SendIs, SignalIs DEF Died
  <2>2. CASE Look
    <3>1. stp.pc = "off" /\ cli'.pc = "look"
      BY <1>0, <2>2, LookIs DEF Waits
    <3>2. \A a \in Addrs : answer[a] \notin Named
      BY <1>0, <3>1 DEF RowsKept, Named
    <3>3. QED
      BY <1>0, <2>0, <3>1, <3>2 DEF RowsKept, StpAlive, psVars, lookupVars
  <2>3. CASE PassDone
    <3>1. cli.pc = "pass" /\ ~StpAlive /\ out = {}
      BY <2>3 DEF PassDone, Writers
    <3>2. CASE Quit(1) \/ Quit(130)
      BY <2>q, <3>2
    <3>3. CASE Moved("look") \/ Moved("unlook")
      <4>1. cli'.pc \in {"look", "unlook"} /\ cli'.rows = cli.rows /\ cli'.to = cli.to
        BY <1>0, <3>3, MovedIs, Moves
      <4>2. QED
        BY <1>0, <2>0, <3>1, <4>1 DEF RowsKept, StpAlive, psVars, lookupVars
    <3>4. QED
      BY <2>3, <3>2, <3>3 DEF PassDone, Die, Moved
  <2>4. CASE LookOver \/ LookUntrapped
    <3>1. CASE Quit(130)
      BY <2>q, <3>1
    <3>2. CASE LookOver /\ Moved("unlook")
      BY <1>0, <2>0, <3>2, MovedIs, Moves DEF LookOver, RowsKept, StpAlive, psVars, lookupVars
    <3>3. CASE LookUntrapped
      BY <1>0, <2>0, <3>3, SettledIs DEF LookUntrapped, RowsKept, StpAlive, psVars, lookupVars
    <3>4. QED
      BY <2>4, <3>1, <3>2, <3>3 DEF LookOver, Moved
  <2>5. CASE PickAnswer \/ PickClosed \/ Radio \/ PassTimedOut \/ Cancelled
    BY <1>0, <1>u, <2>0, <2>q, <2>5 DEF PickAnswer, PickClosed, Radio, PassTimedOut, Cancelled, Die, CliType
  <2>6. CASE SendDone \/ StopGone \/ ErrorsEnd \/ SendUntrapped \/ Deadline
    BY <1>0, <1>u, <2>0, <2>q, <2>6 DEF SendDone, StopGone, ErrorsEnd, SendUntrapped, Deadline, CliType
  <2>7. QED
    BY <1>7, <2>1, <2>2, <2>3, <2>4, <2>5, <2>6 DEF Alone
<1>8. CASE ReadPeers /\ UNCHANGED cli
  <2>1. stp.pc = "peers" /\ SameRun /\ stp'.pc # "off" /\ UNCHANGED <<probe, answer, cli>>
    BY <1>0, <1>8, ReadPeersIs DEF Gone
  <2>2. stp.mode # "list" => out' = out /\ stp'.pc \in {"gone", "wake", "listen"}
    BY <1>0, <1>8, ReadPeersIs DEF Gone
  <2>3. stp.mode = "names" => /\ stp'.pc \in {"gone", "wake"}
                             /\ \A a \in Addrs : probe[a] = "no" /\ answer[a] = "unasked"
    BY <1>0, <1>8, <2>1, ReadPeersIs DEF Gone, RowsKept, Early
  <2>4. CASE stp.mode = "names"
    BY <1>0, <2>1, <2>2, <2>3, <2>4 DEF RowsKept, SameRun, StpAlive, Waits, Early, Named
  <2>5. CASE stp.mode # "names"
    BY <1>0, <2>1, <2>5 DEF RowsKept, SameRun, StpAlive, Waits
  <2>6. QED
    BY <2>4, <2>5
<1>9. CASE AfterWake /\ UNCHANGED cli
  <2>1. stp.pc = "dropped" /\ SameRun /\ stp'.pc # "off" /\ UNCHANGED <<probe, answer, cli>>
    BY <1>0, <1>9, AfterWakeIs DEF Gone, StpType
  <2>2. CASE stp.mode = "names"
    <3>1. stp.then = "names"
      BY <1>0, <2>2 DEF Course
    <3>2. /\ stp'.pc = "gone"
          /\ out' = IF stp.stream THEN out
                    ELSE {<<a, IF answer[a] = "unasked" THEN "none" ELSE answer[a]>> :
                              a \in {b \in Addrs : probe[b] # "no"}}
      BY <1>0, <1>9, <2>2, <3>1, AfterWakeIs DEF Gone
    <3>3. \A row \in out' : row[2] = answer[row[1]] \/ (row[2] = "none" /\ answer[row[1]] \notin Named)
      <4>1. CASE stp.stream
        BY <1>0, <2>2, <3>2, <4>1 DEF RowsKept
      <4>2. CASE ~stp.stream
        BY <3>2, <4>2 DEF Named
      <4>3. QED
        BY <4>1, <4>2
    <3>4. cli.pc = "pass" => \A a \in Addrs : answer[a] \in Named => cli.rows[a] = answer[a] \/ <<a, answer[a]>> \in out'
      <4>1. CASE stp.stream
        BY <1>0, <3>2, <4>1 DEF RowsKept
      <4>2. CASE ~stp.stream
        <5>1. \A a \in Addrs : answer[a] \in Named => probe[a] # "no" /\ answer[a] # "unasked"
          BY <1>0, <2>2 DEF RowsKept, Named
        <5>2. QED
          BY <3>2, <4>2, <5>1
      <4>3. QED
        BY <4>1, <4>2
    <3>5. QED
      BY <1>0, <2>1, <2>2, <3>2, <3>3, <3>4 DEF RowsKept, SameRun, StpAlive, Waits, Early
  <2>3. CASE stp.mode # "names"
    BY <1>0, <2>1, <2>3 DEF RowsKept, SameRun, StpAlive, Waits
  <2>4. QED
    BY <2>2, <2>3
<1>10. CASE SigExit /\ UNCHANGED cli
  <2>1. stp'.pc = "gone" /\ stp'.mode = stp.mode /\ stp'.stream = stp.stream /\ sig # "idle"
    BY <1>0, <1>10, ExitIs DEF SigExit
  <2>2. cli.pc # "pass"
    BY <1>0, <2>1 DEF WakeOwned
  <2>3. QED
    BY <1>0, <1>10, <1>s, <2>1, <2>2 DEF SigExit, StpAlive, Early, lookupVars
<1>11. CASE SndTerm /\ UNCHANGED cli
  BY <1>0, <1>11, OverIs DEF SndTerm, SndAlive, RowsKept, StpAlive, lookupVars, sigVars, peerVars,
      psVars, cliElse, sndElse
<1>12. CASE EditFile /\ UNCHANGED cli
  BY <1>0, <1>12 DEF EditFile, SndAlive, RowsKept, StpAlive, lookupVars, sigVars, peerVars, psVars,
      cliElse, sndElse
<1>13. CASE Peers
  BY <1>0, <1>13, PeersIs, <1>f, <1>d
<1>14. CASE List
  BY <1>0, <1>14, ListIs, <1>f, <1>d DEF SameCli
<1>15. CASE Listed
  <2>1. stp.mode = "list" /\ cli.to # "name"
    BY <1>0, <1>15, ListedIs DEF Waits
  <2>2. QED
    BY <1>0, <1>15, <1>d, <2>1, ListedIs DEF RowsKept, SameCli, StpAlive
<1>16. CASE Pass
  BY <1>0, <1>16, PassIs, <1>f, <1>d DEF SameCli
<1>17. CASE ReadRow
  <2>1. PICK row \in out : /\ row[1] \in Addrs /\ row[2] \in Answers /\ row = <<row[1], row[2]>>
                         /\ out' = out \ {row} /\ cli'.pc = "pass" /\ cli'.rows = Hear(row[1], row[2])
    BY <1>0, <1>17, ReadRowIs
  <2>2. cli.pc = "pass" /\ UNCHANGED <<stp, probe, answer>> /\ cli.rows \in [Addrs -> Answers \union {"unheard"}]
    BY <1>0, <1>17, ReadRowIs DEF CliType
  <2>3. \A a \in Addrs : a # row[1] => cli'.rows[a] = cli.rows[a]
    BY <2>1, <2>2 DEF Hear
  <2>4. row[2] # "none" => cli'.rows[row[1]] = row[2]
    BY <2>1, <2>2 DEF Hear
  <2>5. stp.mode = "names" /\ (row[2] = answer[row[1]] \/ (row[2] = "none" /\ answer[row[1]] \notin Named))
    BY <1>0, <2>1, <2>2 DEF RowsKept, Waits
  <2>6. \A a \in Addrs : answer[a] \in Named =>
            cli'.rows[a] = answer[a] \/ <<a, answer[a]>> \in out' \/ (~stp.stream /\ StpAlive)
    <3>1. TAKE a \in Addrs
    <3>2. CASE a = row[1]
      BY <2>1, <2>4, <2>5, <3>2 DEF Named
    <3>3. CASE a # row[1]
      BY <1>0, <2>1, <2>2, <2>3, <3>3 DEF RowsKept
    <3>4. QED
      BY <3>2, <3>3
  <2>7. QED
    BY <1>0, <2>1, <2>2, <2>6 DEF RowsKept, StpAlive
<1>18. CASE Transfer
  BY <1>0, <1>18, TransferIs, <1>f, <1>d DEF SameCli
<1>19. CASE PrintRow
  <2>0. cli.pc = "send" /\ UNCHANGED <<stp, probe, answer>>
    BY <1>19 DEF PrintRow
  <2>1. CASE cli' = cli /\ \E row \in out : out' = out \ {row}
    BY <1>0, <2>0, <2>1 DEF RowsKept, StpAlive
  <2>2. CASE Stop(141) /\ UNCHANGED out
    BY <1>0, <2>0, <2>2, StopIs DEF RowsKept, StpAlive
  <2>3. QED
    BY <1>19, <2>1, <2>2 DEF PrintRow
<1>20. CASE StopTerm
  BY <1>0, <1>20 DEF StopTerm, CliType, lookupVars, RowsKept, StpAlive
<1>21. CASE StopKill
  <2>1. cli'.pc = "exited" /\ (stp' = stp \/ (stp'.pc = "gone" /\ stp'.mode = stp.mode /\ stp'.stream = stp.stream))
        /\ UNCHANGED <<probe, answer, out>>
    BY <1>0, <1>21, QuitIs DEF StopKill, CliType, StpType, lookupVars
  <2>2. QED
    BY <1>0, <2>1 DEF RowsKept, StpAlive, Early
<1>22. CASE ByHand
  BY <1>0, <1>22, ByHandIs, <1>f, <1>d
<1>23. CASE SignalByHand
  BY <1>0, <1>23 DEF SignalByHand, StpAlive, RowsKept, lookupVars, sigVars, peerVars, psVars, cliElse,
      sndElse
<1>24. QED
  BY <1>1, <1>2, <1>3, <1>4, <1>5, <1>6, <1>7, <1>8, <1>9, <1>10, <1>11, <1>12, <1>13, <1>14, <1>15,
      <1>16, <1>17, <1>18, <1>19, <1>20, <1>21, <1>22, <1>23, Kinds

\* The choice of a named send stands for as long as it runs.
LEMMA ChosenStep ==
  ASSUME SendInv, [Next]_vars
  PROVE  ChosenAlone'
<1>0. Typed /\ Records /\ stp \in StpType /\ snd \in SndType /\ cli \in CliType /\ Plain /\ ChosenAlone /\ Course /\ Waits /\ RowsTrue
  BY Parts, PlainIs
<1>k. ASSUME UNCHANGED nameOf, stp'.to = stp.to \/ cli.pc # "send" \/ cli.cmd # "send",
             cli'.pc = "send" /\ cli'.cmd = "send" =>
                cli.pc = "send" /\ cli'.rows = cli.rows /\ cli'.to = cli.to /\ cli'.cmd = cli.cmd
      PROVE  ChosenAlone'
  BY <1>0, <1>k DEF ChosenAlone, Best
<1>d. ASSUME Died PROVE ChosenAlone'
  BY <1>d, <1>k DEF Died, psVars
<1>1. CASE UNCHANGED vars
  BY <1>0, <1>1 DEF vars, lookupVars, sigVars, peerVars, psVars, cliElse, sndElse, ChosenAlone, Best
<1>2. CASE Prober
  <2>1. stp'.to = stp.to
    BY <1>0, <1>2 DEF Prober, StartProbes, Rescan, ProbeStart, ProbeEnd, StpType
  <2>2. QED
    BY <1>k, <1>2, <2>1, ProberKeeps
<1>3. CASE Stages
  BY <1>0, <1>k, <1>3, StagesIs, StagesKeeps
<1>4. CASE Signaller
  BY <1>0, <1>4, SignallerKeeps DEF ChosenAlone, Best, lookupVars, sigVars, peerVars, psVars, cliElse,
      sndElse
<1>5. CASE Advert
  BY <1>0, <1>5, AdvertKeeps DEF ChosenAlone, Best, lookupVars, sigVars, peerVars, psVars, cliElse,
      sndElse
<1>6. CASE Transferring
  BY <1>0, <1>6, TransferringKeeps DEF ChosenAlone, Best, lookupVars, sigVars, peerVars, psVars,
      cliElse, sndElse
<1>7. CASE Alone
  <2>0. UNCHANGED psVars
    BY <1>7, AloneKeeps
  <2>q. ASSUME NEW rc \in Nat, Quit(rc) \/ Stop(rc) PROVE ChosenAlone'
    BY <1>0, <1>k, <2>0, <2>q, QuitIs, StopIs DEF psVars
  <2>1. CASE Send \/ Signal \/ Look
    BY <1>0, <1>k, <1>d, <2>0, <2>1, SendIs, SignalIs, LookIs DEF Died, psVars
  <2>2. CASE PassDone \/ LookOver \/ LookUntrapped
    <3>1. CASE \E rc \in Nat : Quit(rc)
      BY <2>q, <3>1
    <3>2. CASE cli' = Settled
      BY <1>0, <1>k, <2>0, <3>2, SettledIs DEF psVars
    <3>3. CASE Moved("look") \/ Moved("unlook")
      BY <1>0, <1>k, <2>0, <3>3, MovedIs, Moves DEF psVars
    <3>4. QED
      BY <2>2, <3>1, <3>2, <3>3 DEF PassDone, LookOver, LookUntrapped, Die, Moved
  <2>3. CASE PickAnswer \/ PickClosed \/ Radio \/ PassTimedOut \/ Cancelled
    BY <1>0, <1>k, <2>0, <2>q, <2>3 DEF PickAnswer, PickClosed, Radio, PassTimedOut, Cancelled, Die, CliType, psVars
  <2>4. CASE SendDone \/ StopGone \/ ErrorsEnd \/ SendUntrapped \/ Deadline
    BY <1>0, <1>k, <2>0, <2>q, <2>4 DEF SendDone, StopGone, ErrorsEnd, SendUntrapped, Deadline, CliType, psVars
  <2>5. QED
    BY <1>7, <2>1, <2>2, <2>3, <2>4 DEF Alone
<1>8. CASE ReadPeers /\ UNCHANGED cli
  <2>1. cli.pc = "send" /\ cli.cmd = "send" => stp.to \in Addrs
    BY <1>0 DEF Waits
  <2>2. QED
    BY <1>0, <1>k, <1>8, <2>1, ReadPeersIs DEF Gone
<1>9. CASE AfterWake /\ UNCHANGED cli
  <2>1. cli.pc = "send" /\ cli.cmd = "send" => stp.then = "wait"
    BY <1>0, <1>9, AfterWakeIs DEF Waits, Course
  <2>2. QED
    BY <1>0, <1>k, <1>9, <2>1, AfterWakeIs DEF Gone
<1>10. CASE SigExit /\ UNCHANGED cli
  BY <1>0, <1>k, <1>10, ExitIs DEF SigExit
<1>11. CASE SndTerm /\ UNCHANGED cli
  BY <1>0, <1>k, <1>11 DEF SndTerm
<1>12. CASE EditFile /\ UNCHANGED cli
  BY <1>0, <1>k, <1>12 DEF EditFile
<1>13. CASE Peers
  BY <1>0, <1>k, <1>d, <1>13, PeersIs DEF Fresh
<1>14. CASE List
  BY <1>0, <1>k, <1>d, <1>14, ListIs DEF SameCli, Fresh
<1>15. CASE Listed
  BY <1>0, <1>k, <1>d, <1>15, ListedIs DEF SameCli
<1>16. CASE Pass
  BY <1>0, <1>k, <1>d, <1>16, PassIs DEF SameCli, Fresh
<1>17. CASE ReadRow
  BY <1>0, <1>k, <1>17, ReadRowIs DEF SameCli
<1>18. CASE Transfer
  <2>1. CASE Died
    BY <1>d, <2>1
  <2>2. CASE ~Died
    <3> DEFINE S == {a \in Addrs : cli.rows[a] \in {"want", "part"}}
    <3>1. /\ Fresh("send") /\ Chosen = {stp'.to} /\ cli'.to = cli.to /\ cli'.rows = cli.rows /\ nameOf' = nameOf
      BY <1>0, <1>18, <2>2, TransferIs DEF SameCli, Fresh
    <3>2. cli.to = "name" => Chosen = IF Matching({"want"}) # {} THEN Matching({"want"}) ELSE Matching({"want", "part"})
      BY DEF Chosen
    <3>3. \A a \in S : nameOf[a] = cli.rows[a]
      BY <1>0 DEF RowsTrue
    <3>4. Matching({"want", "part"}) = S /\ Matching({"want"}) = {a \in S : nameOf[a] = "want"}
      BY <3>3 DEF Matching
    <3> HIDE DEF S
    <3>5. cli.to = "name" => Best(S) = Chosen
      BY <3>2, <3>4 DEF Best
    <3>6. Best(S)' = Best(S)
      BY <3>1 DEF Best, S
    <3>7. QED
      BY <3>1, <3>5, <3>6 DEF ChosenAlone, S
  <2>3. QED
    BY <2>1, <2>2
<1>19. CASE PrintRow
  <2>1. UNCHANGED <<nameOf, stp>> /\ (cli' = cli \/ Stop(141))
    BY <1>19 DEF PrintRow
  <2>2. QED
    BY <1>0, <1>k, <2>1, StopIs
<1>20. CASE StopTerm
  BY <1>0, <1>k, <1>20 DEF StopTerm, CliType
<1>21. CASE StopKill
  BY <1>0, <1>k, <1>21, QuitIs DEF StopKill, CliType, StpType
<1>22. CASE ByHand
  BY <1>0, <1>k, <1>d, <1>22, ByHandIs DEF SameCli, Fresh
<1>23. CASE SignalByHand
  BY <1>0, <1>k, <1>23 DEF SignalByHand
<1>24. QED
  BY <1>1, <1>2, <1>3, <1>4, <1>5, <1>6, <1>7, <1>8, <1>9, <1>10, <1>11, <1>12, <1>13, <1>14, <1>15,
      <1>16, <1>17, <1>18, <1>19, <1>20, <1>21, <1>22, <1>23, Kinds

-----------------------------------------------------------------------------
(* What is left when the command has ended, and what it says. *)

Still == ~SndAlive /\ ~AdvAlive /\ (StpAlive => stp.mode = "list")

\* Nothing runs at the waits at which a command may end at once.
LEMMA StillIs ==
  ASSUME SendInv, cli.pc \in {"shell", "pick", "radio", "choose", "listing", "look", "unlook", "match", "errors", "unsend",
                             "exited"}
                  \/ (cli.pc = "pass" /\ ~Writers)
  PROVE  Still
<1>0. Course /\ Waits /\ WakeOwned /\ NothingOutlives /\ snd \in SndType /\ stp \in StpType /\ adv \in {"none", "starting", "up", "stopping"}
  BY Parts DEF Typed
<1>1. CASE cli.pc = "exited"
  BY <1>0, <1>1 DEF NothingOutlives, Still
<1>2. CASE cli.pc # "exited"
  <2>1. sig = "idle"
    BY <1>2 , <1>0 DEF WakeOwned
  <2>2. stp.pc \in {"off", "gone"} \/ (stp.mode = "list" /\ stp.pc \in {"off", "peers", "gone"})
    BY <1>0, <1>2 DEF Waits, Course, Writers, StpAlive
  <2>3. ~AdvAlive
    BY <1>0, <2>1, <2>2 DEF WakeOwned, AdvAlive
  <2>4. ~SndAlive
    BY <1>0, <2>1, <2>2 DEF Course, SndAlive
  <2>5. QED
    BY <2>2, <2>3, <2>4 DEF Still, StpAlive
<1>3. QED
  BY <1>1, <1>2

\* When the command ends nothing runs, and nothing starts again.
LEMMA StillStep ==
  ASSUME SendInv, [Next]_vars
  PROVE  cli'.pc = "exited" => Still'
<1>0. Typed /\ Records /\ stp \in StpType /\ snd \in SndType /\ cli \in CliType /\ Plain /\ Course /\ Waits /\ WakeOwned /\ Signals
  BY Parts, PlainIs
<1>h. cli.pc = "exited" => Still
  BY StillIs
<1>u. ASSUME UNCHANGED psVars, Still PROVE Still'
  BY <1>u DEF Still, StpAlive, SndAlive, AdvAlive, psVars
<1>d. ASSUME Died, Still PROVE Still'
  BY <1>d, <1>u DEF Died
<1>1. CASE UNCHANGED vars
  BY <1>0, <1>1, <1>h DEF vars, lookupVars, sigVars, peerVars, psVars, cliElse, sndElse, Still,
      StpAlive, SndAlive, AdvAlive
<1>2. CASE Prober
  <2>1. ~(cli.pc = "exited" /\ StartProbes)
    BY <1>0, <1>h DEF Still, StartProbes, StpAlive, Course
  <2>2. stp' = stp \/ StartProbes
    BY <1>2 DEF Prober, Rescan, ProbeStart, ProbeEnd
  <2>3. QED
    BY <1>h, <1>2, <2>1, <2>2, ProberKeeps DEF Still, StpAlive, SndAlive, AdvAlive
<1>3. CASE Stages
  <2>1. ~(cli.pc = "exited")
    <3>1. stp.pc \notin {"off", "peers", "gone"}
      BY <1>3 DEF Stages, WakeSpawn, WakeStore, WakeReady, NamesDone, Listen, Wait, DropWake, ReapWake, SpawnSender,
         StorePid, Reap
    <3>2. QED
      BY <1>0, <1>h, <3>1 DEF Still, StpAlive, Course
  <2>2. QED
    BY <1>3, <2>1, StagesKeeps
<1>4. CASE Signaller
  <2>1. AdvAlive' => AdvAlive
    BY <1>4 DEF Signaller, SigTake, SigWake, SigReapWake, SigSender, Terminate, AdvAlive
  <2>2. QED
    BY <1>h, <1>4, <2>1, SignallerKeeps DEF Still, StpAlive, SndAlive
<1>5. CASE Advert
  <2>1. AdvAlive
    BY <1>5 DEF Advert, AdvRegister, AdvExit, AdvAlive
  <2>2. QED
    BY <1>h, <1>5, <2>1, AdvertKeeps DEF Still
<1>6. CASE Transferring
  <2>1. SndAlive
    BY <1>6 DEF Transferring, SndOptions, SndOpen, SndDiscover, SndConnect, SndAsk, SndAnswered, SndUpload, SndStream,
       SndAlive
  <2>2. QED
    BY <1>h, <1>6, <2>1, TransferringKeeps DEF Still
<1>7. CASE Alone
  <2>1. cli'.pc # "exited" \/ Still
    <3>1. CASE Send \/ PickAnswer \/ PickClosed \/ Radio \/ Look \/ LookOver \/ LookUntrapped
               \/ PassDone \/ ErrorsEnd \/ SendUntrapped
      BY <3>1, StillIs DEF Send, PickAnswer, PickClosed, Radio, Look, LookOver, LookUntrapped, PassDone,
         ErrorsEnd, SendUntrapped
    <3>2. CASE PassTimedOut
      BY <1>0, <3>2, StopIs DEF PassTimedOut
    <3>3. CASE Cancelled
      BY <1>0, <3>3, StillIs, StopIs DEF Cancelled
    <3>4. CASE StopGone
      BY <3>4 DEF StopGone, Group, Still
    <3>5. CASE SendDone \/ Deadline
      BY <1>0, <3>5 DEF SendDone, Deadline, CliType
    <3>6. CASE Signal
      BY <1>0, <3>6, StillIs, SignalIs DEF Signals
    <3>7. QED
      BY <1>7, <3>1, <3>2, <3>3, <3>4, <3>5, <3>6 DEF Alone
  <2>2. QED
    BY <1>7, <1>u, <2>1, AloneKeeps
<1>8. CASE ReadPeers /\ UNCHANGED cli
  BY <1>0, <1>h, <1>8, ReadPeersIs DEF Still, Gone, SameRun, StpAlive, SndAlive, AdvAlive
<1>9. CASE AfterWake /\ UNCHANGED cli
  <2>1. cli.pc # "exited"
    BY <1>0, <1>h, <1>9, AfterWakeIs DEF Still, StpAlive, Course
  <2>2. QED
    BY <1>9, <2>1
<1>10. CASE SigExit /\ UNCHANGED cli
  BY <1>0, <1>h, <1>10, ExitIs DEF SigExit, Still, StpAlive, SndAlive, AdvAlive
<1>11. CASE SndTerm /\ UNCHANGED cli
  BY <1>0, <1>h, <1>11 DEF SndTerm, Still
<1>12. CASE EditFile /\ UNCHANGED cli
  BY <1>0, <1>h, <1>12 DEF EditFile, Still
<1>13. CASE Peers
  BY <1>0, <1>d, <1>13, PeersIs, StillIs
<1>14. CASE List
  BY <1>0, <1>14, ListIs
<1>15. CASE Listed
  BY <1>0, <1>d, <1>15, ListedIs, StillIs DEF SameCli
<1>16. CASE Pass
  BY <1>0, <1>d, <1>16, PassIs, StillIs DEF SameCli
<1>17. CASE ReadRow
  BY <1>0, <1>17, ReadRowIs
<1>18. CASE Transfer
  BY <1>0, <1>d, <1>18, TransferIs, StillIs DEF SameCli
<1>19. CASE PrintRow
  <2>1. cli.pc = "send" /\ (cli' = cli \/ Stop(141))
    BY <1>19 DEF PrintRow
  <2>2. QED
    BY <1>0, <2>1, StopIs
<1>20. CASE StopTerm
  BY <1>0, <1>20 DEF StopTerm, CliType
<1>21. CASE StopKill
  <2>1. ~StpAlive'
    BY <1>0, <1>21 DEF StopKill, StpAlive, StpType
  <2>2. ~SndAlive' /\ ~AdvAlive'
    BY <1>0, <1>21 DEF StopKill, SndAlive, AdvAlive, SndType
  <2>3. QED
    BY <2>1, <2>2 DEF Still
<1>22. CASE ByHand
  BY <1>0, <1>22, ByHandIs
<1>23. CASE SignalByHand
  BY <1>23 DEF SignalByHand
<1>24. QED
  BY <1>1, <1>2, <1>3, <1>4, <1>5, <1>6, <1>7, <1>8, <1>9, <1>10, <1>11, <1>12, <1>13, <1>14, <1>15,
      <1>16, <1>17, <1>18, <1>19, <1>20, <1>21, <1>22, <1>23, Kinds

\* Nothing outlives the command, and no advert is up beside a transfer.
LEMMA OutlivesStep == ASSUME SendInv, [Next]_vars PROVE NothingOutlives'
<1>1. (cli'.pc = "exited" => Still') /\ Course' /\ WakeOwned'
  BY StillStep, CourseStep, WakeStep
<1>2. (SndAlive /\ AdvAlive => sig # "idle")'
  BY <1>1 DEF Course, WakeOwned, SndAlive, AdvAlive
<1>3. QED
  BY <1>1, <1>2 DEF NothingOutlives, Still

\* What an ended command says stays true: nothing of its run is left to change it.
LEMMA StatusStep ==
  ASSUME SendInv, [Next]_vars
  PROVE  StatusIsTrue'
<1>0. Typed /\ Records /\ stp \in StpType /\ snd \in SndType /\ cli \in CliType /\ Course /\ Waits /\ Signals /\ AskedOnce /\ StatusIsTrue
  BY Parts
<1>h. cli.pc = "exited" => Still
  BY StillIs
<1>g. cli.pc # "exited" \/ stp.pc \in {"off", "peers", "gone"}
  BY <1>0, <1>h DEF Still, StpAlive, Course
<1>s. ASSUME UNCHANGED <<cli, delivered>>, cli.pc # "exited" \/ stp'.to = stp.to PROVE StatusIsTrue'
  BY <1>0, <1>s DEF StatusIsTrue
<1>q. ASSUME cli'.pc # "exited" \/ (cli'.rc \in Nat /\ cli'.rc # 0) PROVE StatusIsTrue'
  BY <1>q DEF StatusIsTrue
<1>d. ASSUME Died PROVE StatusIsTrue'
  BY <1>d, <1>q DEF Died
<1>1. CASE UNCHANGED vars
  BY <1>0, <1>1 DEF vars, lookupVars, sigVars, peerVars, psVars, cliElse, sndElse, StatusIsTrue
<1>2. CASE Prober
  <2>1. stp'.to = stp.to
    BY <1>0, <1>2 DEF Prober, StartProbes, Rescan, ProbeStart, ProbeEnd, StpType
  <2>2. QED
    BY <1>s, <1>2, <2>1, ProberKeeps DEF peerVars
<1>3. CASE Stages
  BY <1>0, <1>s, <1>3, StagesIs, StagesKeeps DEF peerVars
<1>4. CASE Signaller
  BY <1>s, <1>4, SignallerKeeps DEF peerVars
<1>5. CASE Advert
  BY <1>s, <1>5, AdvertKeeps DEF peerVars
<1>6. CASE Transferring
  <2>1. SndAlive
    BY <1>6 DEF Transferring, SndOptions, SndOpen, SndDiscover, SndConnect, SndAsk, SndAnswered, SndUpload, SndStream,
       SndAlive
  <2>2. cli' = cli /\ cli.pc # "exited"
    BY <1>h, <1>6, <2>1, TransferringKeeps DEF Still
  <2>3. QED
    BY <1>q, <2>2
<1>7. CASE Alone
  <2>q. ASSUME NEW rc \in Nat, rc # 0, Quit(rc) \/ Stop(rc) PROVE StatusIsTrue'
    BY <1>0, <1>q, <2>q, QuitIs, StopIs
  <2>1. CASE Send \/ Signal \/ Look
    <3>1. CASE Send
      <4>1. Died \/ cli'.pc = IF cli'.trapped THEN "pick" ELSE "radio"
        BY <1>0, <3>1, SendIs
      <4>2. Died \/ cli'.pc # "exited"
        BY <4>1
      <4>3. QED
        BY <1>d, <1>q, <4>2
    <3>2. CASE Signal
      <4>1. cli'.pc # "exited" \/ cli'.rc = 143
        BY <1>0, <3>2, SignalIs
      <4>2. QED
        BY <1>q, <4>1
    <3>3. CASE Look
      BY <1>0, <1>q, <3>3, LookIs
    <3>4. QED
      BY <2>1, <3>1, <3>2, <3>3
  <2>2. CASE PassDone \/ LookOver \/ LookUntrapped
    <3>1. CASE Quit(1) \/ Quit(130)
      BY <2>q, <3>1
    <3>2. CASE cli' = Settled
      BY <1>0, <1>q, <3>2, SettledIs
    <3>3. CASE Moved("look") \/ Moved("unlook")
      BY <1>0, <1>q, <3>3, MovedIs, Moves
    <3>4. QED
      BY <2>2, <3>1, <3>2, <3>3 DEF PassDone, LookOver, LookUntrapped, Die, Moved
  <2>3. CASE PickAnswer \/ PickClosed \/ Radio
    <3>1. CASE Quit(1)
      BY <2>q, <3>1
    <3>2. CASE ~Quit(1)
      <4>1. cli'.pc \in {"radio", "choose"}
        BY <1>0, <2>3, <3>2 DEF PickAnswer, PickClosed, Radio, Die, CliType
      <4>2. QED
        BY <1>q, <4>1
    <3>3. QED
      BY <3>1, <3>2
  <2>4. CASE PassTimedOut \/ Cancelled
    BY <2>q, <2>4 DEF PassTimedOut, Cancelled
  <2>5. CASE SendDone \/ Deadline
    BY <1>0, <1>q, <2>5 DEF SendDone, Deadline, CliType
  <2>6. CASE StopGone
    <3>1. cli.next \in Nat /\ cli.next # 0 /\ Quit(cli.next)
      BY <1>0, <2>6 DEF StopGone, Signals, CliType
    <3>2. QED
      BY <2>q, <3>1
  <2>7. CASE SendUntrapped
    <3>1. cli.pc = "unsend" /\ Quit(cli.rc) /\ UNCHANGED psVars
      BY <2>7 DEF SendUntrapped, cliElse
    <3>2. /\ cli'.pc = "exited" /\ cli'.cmd = cli.cmd /\ cli'.rc = cli.rc
          /\ cli'.signalled = cli.signalled /\ cli'.lost = cli.lost
      <4>1. cli.rc \in Nat
        BY <1>0 DEF CliType
      <4>2. QED
        BY <1>0, <3>1, <4>1, QuitIs
    <3>3. cli.signalled => cli.lost
      BY <1>0, <3>1 DEF Signals
    <3>4. cli.cmd = "send" => stp.mode = "send" /\ stp.pc = "gone" /\ cli.rc = stp.rc
      BY <1>0, <3>1 DEF Waits
    <3>5. cli.cmd = "send" /\ cli.rc = 0 => delivered = {stp.to}
      BY <1>0, <3>4 DEF AskedOnce, Over0
    <3>6. stp' = stp /\ delivered' = delivered
      BY <3>1 DEF psVars, peerVars
    <3>7. QED
      BY <3>2, <3>3, <3>5, <3>6 DEF StatusIsTrue
  <2>8. CASE ErrorsEnd
    <3>1. Moved("unsend")
      BY <2>8 DEF ErrorsEnd, Moved
    <3>2. QED
      BY <1>0, <1>q, <3>1, MovedIs, Moves
  <2>9. QED
    BY <1>7, <2>1, <2>2, <2>3, <2>4, <2>5, <2>6, <2>7, <2>8 DEF Alone
<1>8. CASE ReadPeers /\ UNCHANGED cli
  BY <1>0, <1>h, <1>s, <1>8, ReadPeersIs DEF Still, StpAlive, Gone, peerVars
<1>9. CASE AfterWake /\ UNCHANGED cli
  <2>1. cli.pc # "exited"
    BY <1>0, <1>g, <1>9, AfterWakeIs
  <2>2. QED
    BY <1>q, <1>9, <2>1
<1>10. CASE SigExit /\ UNCHANGED cli
  BY <1>0, <1>s, <1>10, ExitIs DEF SigExit, peerVars
<1>11. CASE SndTerm /\ UNCHANGED cli
  BY <1>s, <1>11 DEF SndTerm, peerVars
<1>12. CASE EditFile /\ UNCHANGED cli
  BY <1>s, <1>12 DEF EditFile
<1>13. CASE Peers
  BY <1>0, <1>q, <1>d, <1>13, PeersIs DEF SameCli
<1>14. CASE List
  BY <1>0, <1>q, <1>d, <1>14, ListIs DEF SameCli
<1>15. CASE Listed
  BY <1>0, <1>q, <1>d, <1>15, ListedIs DEF SameCli
<1>16. CASE Pass
  BY <1>0, <1>q, <1>d, <1>16, PassIs DEF SameCli
<1>17. CASE ReadRow
  BY <1>0, <1>q, <1>d, <1>17, ReadRowIs DEF SameCli
<1>18. CASE Transfer
  BY <1>0, <1>q, <1>d, <1>18, TransferIs DEF SameCli
<1>19. CASE PrintRow
  <2>1. cli.pc = "send" /\ (cli' = cli \/ Stop(141))
    BY <1>19 DEF PrintRow
  <2>2. QED
    BY <1>0, <1>q, <2>1, StopIs
<1>20. CASE StopTerm
  BY <1>0, <1>q, <1>20 DEF StopTerm, CliType
<1>21. CASE StopKill
  <2>1. cli.next \in Nat /\ cli.next # 0 /\ Quit(cli.next)
    BY <1>0, <1>21 DEF StopKill, Signals, CliType
  <2>2. QED
    BY <1>0, <1>q, <2>1, QuitIs
<1>22. CASE ByHand
  BY <1>0, <1>q, <1>d, <1>22, ByHandIs DEF SameCli
<1>23. CASE SignalByHand
  BY <1>q, <1>23 DEF SignalByHand
<1>24. QED
  BY <1>1, <1>2, <1>3, <1>4, <1>5, <1>6, <1>7, <1>8, <1>9, <1>10, <1>11, <1>12, <1>13, <1>14, <1>15,
      <1>16, <1>17, <1>18, <1>19, <1>20, <1>21, <1>22, <1>23, Kinds

-----------------------------------------------------------------------------
(* The invariant, and the theorems. *)

\* It holds at the start,
LEMMA SendInvInit == Init => SendInv
<1> SUFFICES ASSUME Init PROVE SendInv
  OBVIOUS
<1>1. /\ stp \in StpType /\ stp.pc = "off" /\ stp.mode = "list" /\ stp.then = "names" /\ stp.rc = 0
      /\ stp.to = NoAddr
  BY NoStpIs DEF Init, PSInit
<1>2. snd \in SndType /\ snd.pc = "none" /\ snd.rc = 0
  BY NoSndIs DEF Init, PSInit
<1>3. /\ cli \in CliType /\ cli.pc = "shell" /\ cli.cmd = "none" /\ cli.to = "none" /\ cli.rows = NoRow
      /\ cli.trapped = FALSE /\ cli.caught = FALSE /\ cli.signalled = FALSE
  BY NoCliIs DEF Init
<1>4. nameOf \in [Addrs -> Names]
  BY PeerSendConstants DEF Init, PSInit, Names
<1>5. Typed
  <2>1. file \in [size : 1..2, edits : Nat]
    BY DEF Init, PSInit
  <2>2. asks \in [Addrs -> Nat] /\ delivered = {} /\ probe \in [Addrs -> {"no", "queued", "asking", "told"}]
    BY DEF Init, PSInit
  <2>3. answer \in [Addrs -> Answers] /\ out = {}
    BY DEF Init, PSInit, Answers
  <2>4. QED
    BY <1>1, <1>2, <1>3, <1>4, <2>1, <2>2, <2>3 DEF Typed, Records, Init, PSInit
<1>6. Course /\ Waits /\ WakeOwned /\ Signals
  BY <1>1, <1>2, <1>3 DEF Init, PSInit, Course, Waits, WakeOwned, Signals, SndAlive, AdvAlive
<1>7. AskedOnce
  BY <1>1, <1>2 DEF Init, PSInit, AskedOnce, Over0
<1>8. RowsTrue /\ RowsKept
  <2>1. (\A a \in Addrs : answer[a] = "unasked" /\ cli.rows[a] = "unheard") /\ out = {}
    BY <1>3, NoRowIs DEF Init, PSInit
  <2>2. QED
    BY <1>1, <1>3, <2>1 DEF RowsTrue, RowsKept
<1>9. ChosenAlone /\ NothingOutlives /\ StatusIsTrue
  BY <1>2, <1>3 DEF ChosenAlone, NothingOutlives, StatusIsTrue, SndAlive
<1>10. QED
  BY <1>5, <1>6, <1>7, <1>8, <1>9 DEF SendInv

\* every step keeps it,
LEMMA SendInvStep == SendInv /\ [Next]_vars => SendInv'
BY TypedStep, CourseStep, WaitsStep, WakeStep, SignalsStep, AskedStep, RowsTrueStep, RowsKeptStep, ChosenStep,
   OutlivesStep, StatusStep DEF SendInv

\* so it always holds.
LEMMA SendInvariant == Spec => []SendInv
BY SendInvInit, SendInvStep, PTL DEF Spec

\* The type invariant of the composition: omdrop's command, the run of send-to-peer it
\* waits for, and that run's two children, are in one of their states throughout.
THEOREM CliSendTyping == Spec => []TypeOK
<1>1. SendInv => TypeOK
  BY Parts DEF Typed, TypeOK, StpType, StpPcs, SndType, SndPcs, CliType, CliPcs
<1>2. QED
  BY <1>1, SendInvariant, PTL

\* Whatever signals, deadlines, deaths and kills come in whatever order (proc.rs
\* run_cancellable, send_to_peer.rs), an ended command leaves no sender and no advert
\* behind, and no advert is up while a transfer runs unless the run is being stopped.
THEOREM NothingOutlivesAlways == Spec => []NothingOutlives
<1>1. SendInv => NothingOutlives
  BY DEF SendInv
<1>2. QED
  BY <1>1, SendInvariant, PTL

\* omdrop send exits with 0 (send.rs send_narrated) only when the device it chose has
\* the whole transfer; and never when it was signalled, but for a signal that came
\* inside untrap_signals (proc.rs), between its look at the flag and the default action.
THEOREM StatusIsTrueAlways == Spec => []StatusIsTrue
<1>1. SendInv => StatusIsTrue
  BY DEF SendInv
<1>2. QED
  BY <1>1, SendInvariant, PTL

\* find_by_name (send.rs) chooses from everybody the finished lookups named, a named
\* send asks the one device that answers to the name best, and one command puts at
\* most one question before one person, for any number of devices and of lookups.
THEOREM AsksRightAlways == Spec => []AsksRight
<1>1. SendInv => AsksRight
  <2> SUFFICES ASSUME SendInv PROVE AsksRight
    OBVIOUS
  <2>1. asks \in [Addrs -> Nat] /\ RowsKept /\ ChosenAlone /\ AskedOnce
    BY Parts DEF Typed
  <2>2. \A a \in Addrs : asks[a] <= 1 /\ (asks[a] > 0 => a = stp.to)
    BY <2>1 DEF AskedOnce
  <2>3. QED
    BY <2>1, <2>2 DEF AsksRight, RowsKept, ChosenAlone, Named
<1>2. QED
  BY <1>1, SendInvariant, PTL
=============================================================================
