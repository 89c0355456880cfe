----------------------------- MODULE Advertiser -----------------------------
(***************************************************************************)
(* omdrop-adv (core/crates/omdrop-adv): what a host with an open window, or   *)
(* a send that wakes its peer, puts on the air.  Three programs, each a       *)
(* process of its own: `ble`, the advert BlueZ transmits (ble.rs); `mdns`,     *)
(* the responder to queries on awdl0 (cli.rs, mdns.rs); `announce`, the same   *)
(* records unasked (cli.rs).                                                  *)
(*                                                                         *)
(* The responder reads every frame of its interface, those this host sends    *)
(* among them: its own replies, the announcer's, and queries of other          *)
(* programs here.                                                             *)
(***************************************************************************)
EXTENDS Naturals, Sequences, FiniteSets

CONSTANTS Emails, Phones,  \* bounds: identifiers in a validation record
          Burst,           \* --burst
          Count,           \* --count of announcements
          SeqSpace,        \* 16-bit sequence numbers: 2^16
          MaxFrames        \* bound: frames waiting in the responder's socket

ASSUME AdvertiserAssumption ==
  /\ {Emails, Phones, Burst, Count, MaxFrames} \subseteq Nat
  /\ SeqSpace \in Nat \ {0}

VARIABLES
  ble,       \* `ble`: pc, the hashes chosen, the events waiting, START and STOP printed
  register,  \* the thread that calls RegisterAdvertisement: "none", "call", "answer",
             \* "done", and "gone" with the process
  bluez,     \* does bluetoothd hold the advert?
  aired,     \* history: it has held one of this process
  termed,    \* history: `ble` was sent TERM
  resp,      \* `mdns`: pc, frames sent of the burst, whether --min-gap has passed
             \* since the burst began, seq
  gap,       \* less than --min-gap has passed since `last`
  socket,    \* frames in the responder's socket
  owed,      \* history: a peer's query was read, outside `recent`, and has had
             \* neither a whole burst nor one that failed
  recent,    \* history: less than --min-gap ago began a burst that went out whole
  ann        \* `announce`: frames sent, and whether it has ended

bleVars  == <<ble, register, bluez, aired, termed>>
respVars == <<resp, gap, socket, owed, recent>>
advVars == <<bleVars, respVars, ann>>

AdvInit ==
  /\ ble = [pc |-> "prepare", hashes |-> <<>>, cause |-> "none", events |-> <<>>,
            said |-> {}]
  /\ register = "none" /\ bluez = FALSE /\ aired = FALSE /\ termed = FALSE
  /\ resp = [pc |-> "open", sent |-> 0, spent |-> FALSE, seq |-> SeqSpace \div 4]
  /\ gap = FALSE /\ socket = <<>> /\ owed = FALSE /\ recent = FALSE
  /\ ann = [n |-> 0, over |-> FALSE]

-----------------------------------------------------------------------------
(* ble: the hashes *)

Zero == <<"zero", 0>>
Zeros == [k \in 1..4 |-> Zero]

\* hashes_from_plist, for a record with e emails and p phones: an email, a phone
\* and two emails; spare ones of either kind fill the slots that are empty.
Slots(e, p) ==
  LET slots == <<<<"email", 1>>, <<"phone", 1>>, <<"email", 2>>, <<"email", 3>>>>
      has(i) == i[2] <= IF i[1] = "email" THEN e ELSE p
      spare == [k \in 1..(IF e > 3 THEN e - 3 ELSE 0) |-> <<"email", k + 3>>]
                 \o [k \in 1..(IF p > 1 THEN p - 1 ELSE 0) |-> <<"phone", k + 1>>]
      empty(k) == Cardinality({j \in 1..k : ~has(slots[j])})
  IN  [k \in 1..4 |-> CASE has(slots[k]) -> slots[k]
                         [] ~has(slots[k]) /\ empty(k) <= Len(spare) -> spare[empty(k)]
                         [] OTHER -> Zero]

\* What a validation record gives: one that cannot be read, or that validates
\* nobody, is an error.
FromRecord(e, p) == IF e + p = 0 THEN <<>> ELSE Slots(e, p)

\* The value of --hashes: four hashes, which may be zeros; <<>> is one that payload
\* refuses.
Values == {<<>>, Zeros, [k \in 1..4 |-> <<"given", k>>]}

\* prepare: --hashes absent, empty or with a value; is there a path in
\* --hashes-from-record; and what that file, or else the identity, turns out to be.
\* An empty value asks for zeros and keeps the identity from being read.  <<>> is
\* an error, and a failed identity is one.
Hashes(opt, value, record, found, e, p) ==
  CASE opt = "value" -> IF record THEN <<>> ELSE value
    [] opt = "empty" /\ ~record -> Zeros
    [] opt = "absent" \/ (opt = "empty" /\ record) ->
         CASE found = "missing" -> Zeros
           [] found \in {"error", "bad"} -> <<>>
           [] found = "good" -> FromRecord(e, p)

\* Whose word they are: the user's, or that of the record looked for.
Source(opt, record, found) ==
  IF opt = "value" \/ (opt = "empty" /\ ~record) THEN "user" ELSE found

BleExit == ble' = [ble EXCEPT !.pc = "over", !.events = <<>>]

\* Errors of the identity, as those of the hashes or the tag, stop it here, before
\* BlueZ is contacted.
Prepare ==
  /\ ble.pc = "prepare"
  /\ \E opt \in {"absent", "empty", "value"}, value \in Values, record \in BOOLEAN,
        found \in {"error", "missing", "bad", "good"}, e \in 0..Emails, p \in 0..Phones :
       LET h == Hashes(opt, value, record, found, e, p)
           from == Source(opt, record, found)
       IN  \/ BleExit
           \/ /\ h # <<>>
              /\ ble' = [ble EXCEPT !.pc = "signals", !.hashes = h,
                           !.cause = <<from, IF from = "good" THEN e + p ELSE 0>>]
  /\ UNCHANGED <<register, bluez, aired, termed, respVars, ann>>

-----------------------------------------------------------------------------
(* ble: BlueZ *)

\* forward_stop_signals, the system bus, the adapter's power and address: each
\* may fail, and then nothing has been registered.
Adapter ==
  /\ ble.pc \in {"signals", "adapter"}
  /\ \/ BleExit
     \/ ble' = [ble EXCEPT !.pc = IF ble.pc = "signals" THEN "adapter" ELSE "serve"]
  /\ UNCHANGED <<register, bluez, aired, termed, respVars, ann>>

\* The object is served, and a thread asks BlueZ to register it.
Serve ==
  /\ ble.pc = "serve"
  /\ ble' = [ble EXCEPT !.pc = "first"]
  /\ register' = "call"
  /\ UNCHANGED <<bluez, aired, termed, respVars, ann>>

\* BlueZ registers the advert, then answers; or the call fails or times out, in
\* which case BlueZ may still come to it.
BluezRegisters ==
  /\ register = "call"
  /\ bluez' = TRUE /\ aired' = TRUE /\ register' = "answer"
  /\ UNCHANGED <<ble, termed, respVars, ann>>

RegisterReturns ==
  /\ register \in {"call", "answer"} /\ ble.pc # "over"
  /\ register' = "done"
  /\ \E ok \in BOOLEAN :
       /\ ok => register = "answer"
       /\ ble' = [ble EXCEPT !.events = Append(@, IF ok THEN "registered" ELSE "failed")]
  /\ UNCHANGED <<bluez, aired, termed, respVars, ann>>

Head1 == Head(ble.events)
Popped == [ble EXCEPT !.events = Tail(@)]

\* Mutant: any outcome but a signal is taken for the registration.
FirstAny ==
  /\ ble.pc = "first" /\ ble.events # <<>>
  /\ ble' = IF Head1 = "signal" THEN [Popped EXCEPT !.pc = "over", !.events = <<>>]
            ELSE [Popped EXCEPT !.pc = "wait", !.said = {"START"}]
  /\ UNCHANGED <<register, bluez, aired, termed, respVars, ann>>

\* The first event: the registration, its failure, or a stop before either.
First ==
  /\ ble.pc = "first" /\ ble.events # <<>>
  /\ ble' = IF Head1 = "registered" THEN [Popped EXCEPT !.pc = "wait", !.said = {"START"}]
            ELSE [Popped EXCEPT !.pc = "over", !.events = <<>>]
  /\ UNCHANGED <<register, bluez, aired, termed, respVars, ann>>

\* Mutant: only the deadline ends the wait.
WaitDeaf ==
  /\ ble.pc = "wait" /\ ble.events # <<>>
  /\ ble' = Popped
  /\ UNCHANGED <<register, bluez, aired, termed, respVars, ann>>

\* A signal ends the wait; so does the deadline.
Wait ==
  /\ ble.pc = "wait" /\ ble.events # <<>>
  /\ ble' = IF Head1 = "signal" THEN [Popped EXCEPT !.pc = "unregister"] ELSE Popped
  /\ UNCHANGED <<register, bluez, aired, termed, respVars, ann>>

Deadline ==
  /\ ble.pc = "wait"
  /\ ble' = [ble EXCEPT !.pc = "unregister"]
  /\ UNCHANGED <<register, bluez, aired, termed, respVars, ann>>

\* A failure to unregister is logged; BlueZ drops the advert with its client.
Unregister ==
  /\ ble.pc = "unregister"
  /\ bluez' \in {FALSE, bluez}
  /\ ble' = [ble EXCEPT !.pc = "over", !.events = <<>>, !.said = @ \cup {"STOP"}]
  /\ UNCHANGED <<register, aired, termed, respVars, ann>>

\* TERM: fatal until it is blocked, afterwards an event.
Term ==
  /\ ble.pc # "over" /\ ~termed
  /\ termed' = TRUE
  /\ IF ble.pc \in {"prepare", "signals"} THEN BleExit
     ELSE ble' = [ble EXCEPT !.events = Append(@, "signal")]
  /\ UNCHANGED <<register, bluez, aired, respVars, ann>>

\* bluetoothd sees the client gone from the bus, and forgets what it had asked;
\* nothing remembers the hashes.
ClientGone ==
  /\ ble.pc = "over" /\ register # "gone"
  /\ bluez' = FALSE /\ register' = "gone"
  /\ ble' = [ble EXCEPT !.hashes = <<>>, !.cause = "none"]
  /\ UNCHANGED <<aired, termed, respVars, ann>>

\* bluetoothd releases the advert by itself; `release` logs it, nothing more.
Release ==
  /\ bluez /\ bluez' = FALSE
  /\ UNCHANGED <<ble, register, aired, termed, respVars, ann>>

-----------------------------------------------------------------------------
(* mdns and announce *)

\* Frames: whose, and whether a query with one of our names.
Ours(f) == f[1] = "us"
Query(f) == f[2] = "query"

\* The frame comes into the responder's socket, if that is open and has room.
Heard(s, f) == IF resp.pc \notin {"open", "over"} /\ Len(s) < MaxFrames THEN Append(s, f) ELSE s

\* A peer asks, or a program of this host.  (Frames that are nothing to the
\* responder come from its own side in any case.)
Air ==
  /\ resp.pc \notin {"open", "over"} /\ Len(socket) < MaxFrames
  /\ \E who \in {"us", "peer"} : socket' = Append(socket, <<who, "query">>)
  /\ UNCHANGED <<bleVars, resp, gap, owed, recent, ann>>

\* The MAC is read, the frame built, and the socket opened.
RespOpen ==
  /\ resp.pc = "open"
  /\ resp' = [resp EXCEPT !.pc = "recv"] \/ resp' = [resp EXCEPT !.pc = "over"]
  /\ UNCHANGED <<bleVars, gap, socket, owed, recent, ann>>

\* wanted: a query for one of our names, from someone else.
Wanted(f) == Query(f) /\ ~Ours(f)

\* A query is answered with a burst, unless one was within the gap.
RespRecv ==
  /\ resp.pc = "recv" /\ socket # <<>>
  /\ socket' = Tail(socket)
  /\ owed' = (owed \/ (Head(socket) = <<"peer", "query">> /\ ~recent))
  /\ resp' = IF Wanted(Head(socket)) /\ ~gap THEN [resp EXCEPT !.pc = "burst"] ELSE resp
  /\ UNCHANGED <<bleVars, gap, recent, ann>>

\* The receive fails, the interface being gone; or the supervisor ends it.
RespEnds ==
  /\ resp.pc # "over"
  /\ resp' = [resp EXCEPT !.pc = "over", !.sent = 0, !.spent = FALSE] /\ socket' = <<>>
  /\ owed' = FALSE
  /\ UNCHANGED <<bleVars, gap, recent, ann>>

\* One frame of the burst, of which there may be none.
BurstFrame ==
  /\ resp.pc = "burst" /\ resp.sent < Burst
  /\ resp' = [resp EXCEPT !.sent = @ + 1]
  /\ socket' = Heard(socket, <<"us", "other">>)
  /\ UNCHANGED <<bleVars, gap, owed, recent, ann>>

Received == [resp EXCEPT !.pc = "recv", !.sent = 0, !.spent = FALSE]

\* Mutant: a burst that failed counts as a reply.
BurstFailsBlind ==
  /\ resp.pc = "burst" /\ resp.sent < Burst
  /\ resp' = [Received EXCEPT !.seq = (@ + Burst) % SeqSpace]
  /\ gap' = ~resp.spent /\ owed' = FALSE
  /\ UNCHANGED <<bleVars, socket, recent, ann>>

\* A frame that cannot be sent ends the burst: the sequence number and the time of
\* the last reply stay, and the next query is answered.
BurstFails ==
  /\ resp.pc = "burst" /\ resp.sent < Burst
  /\ resp' = Received /\ owed' = FALSE
  /\ UNCHANGED <<bleVars, socket, gap, recent, ann>>

\* The whole burst is out; `last` is the time it began.
BurstEnds ==
  /\ resp.pc = "burst" /\ resp.sent = Burst
  /\ resp' = [Received EXCEPT !.seq = (@ + Burst) % SeqSpace]
  /\ gap' = ~resp.spent /\ recent' = ~resp.spent /\ owed' = FALSE
  /\ UNCHANGED <<bleVars, socket, ann>>

\* --min-gap has passed since `last`, or since the burst began.
GapEnds ==
  /\ \/ gap /\ gap' = FALSE /\ recent' = FALSE /\ UNCHANGED resp
     \/ resp.pc = "burst" /\ ~resp.spent /\ resp' = [resp EXCEPT !.spent = TRUE]
        /\ UNCHANGED <<gap, recent>>
  /\ UNCHANGED <<bleVars, socket, owed, ann>>

\* announce: its frames, sent or not, one after the other; or nothing at all.
Announce ==
  /\ ~ann.over
  /\ \/ ann.n < Count /\ ann' = [ann EXCEPT !.n = @ + 1] /\ socket' = Heard(socket, <<"us", "other">>)
     \/ ann' = [ann EXCEPT !.over = TRUE] /\ (ann.n = 0 \/ ann.n = Count) /\ UNCHANGED socket
  /\ UNCHANGED <<bleVars, resp, gap, owed, recent>>

BleStep == Prepare \/ Adapter \/ Serve \/ First \/ Wait \/ Unregister
RespStep == RespOpen \/ RespRecv \/ BurstFrame \/ BurstFails \/ BurstEnds

AdvQuiet ==
  /\ ble.pc = "over" /\ register = "gone"
  /\ resp.pc = "over" /\ ann.over /\ UNCHANGED advVars

AdvNext ==
  \/ BleStep \/ BluezRegisters \/ RegisterReturns \/ Deadline \/ Term \/ ClientGone \/ Release
  \/ RespStep \/ RespEnds \/ Air \/ GapEnds \/ Announce \/ AdvQuiet

AdvSpec == AdvInit /\ [][AdvNext]_advVars

\* `ble` runs on; its thread's D-Bus call returns (after 25 s it has failed); and
\* bluetoothd notices a client that has left the bus.
AdvFairSpec ==
  AdvSpec /\ WF_advVars(BleStep) /\ WF_advVars(RegisterReturns) /\ WF_advVars(ClientGone)

-----------------------------------------------------------------------------
(* Properties *)

Least2(a, b) == IF a <= b THEN a ELSE b

\* "a failed identity must never advertise zero hashes in its place", "spare
\* identifiers of either kind fill an empty slot rather than a zero the receiver
\* cannot match", and send-to-peer takes START for the wake having begun: what
\* BlueZ transmits rests on the user's own --hashes, on a record or on there being
\* none, never on one that failed; the hashes of a record tell of as many of its
\* identifiers as there are, up to four, and without one they are zeros.  (The
\* user may ask for zeros: an empty --hashes, or a value of zeros, is sent as it
\* is, whatever record there is.)  START is printed only once BlueZ has had the
\* advert, STOP only after START.
AdvertHonest ==
  /\ bluez => LET told == {ble.hashes[k] : k \in 1..4} \ {Zero}
                  from == ble.cause[1]
                  n == ble.cause[2]
              IN  /\ from \in {"user", "missing", "good"}
                  /\ from = "missing" => Cardinality(told) = 0
                  /\ from = "good" => n > 0 /\ Cardinality(told) = Least2(4, n)
  /\ "START" \in ble.said => aired
  /\ "STOP" \in ble.said => "START" \in ble.said

\* "a stop unregisters the advert instead of killing the process mid-air": whatever
\* BlueZ is doing when TERM comes, the process ends and the advert with it.
StopsOnSignal == termed ~> (ble.pc = "over" /\ ~bluez)

\* "For every query naming our host, the service or our instance, this sends the
\* announcer's frame, at most one reply per `--min-gap`": a burst is always for a
\* peer's query, never for this host's own nor for the frames it hears itself
\* send, and begins only when --min-gap has passed since the last whole burst
\* began; and a peer's query read at such a time is never passed over.  A burst
\* that fails is no reply: its query is lost, but the next is answered.
RepliesOwed == resp.pc = "burst" <=> owed
=============================================================================
