------------------------------- MODULE Browse -------------------------------
(***************************************************************************)
(* How airdrop-send finds its receiver when it is not given one             *)
(* (core/crates/omdrop-send: airdrop_send.rs, mdns.rs, aflog.rs, http.rs):    *)
(* first from the frames another program logs (--af-log), then by browsing    *)
(* _airdrop._tcp over mDNS, with a /Discover to each candidate.               *)
(*                                                                         *)
(* One thread does everything.  While it waits for a peer's answer to         *)
(* /Discover it reads no mDNS: answers queue in the socket and other          *)
(* instances age.  Time is counted in seconds and passes only while the       *)
(* thread waits, as its own steps take none.                                  *)
(***************************************************************************)
EXTENDS Integers, Sequences, FiniteSets, SequencesExt

CONSTANTS Devices,       \* receivers; a device stands for its MAC, host and name
          Discoverable,  \* the devices whose TXT flags have SUPPORTS_DISCOVER
          Tos,           \* the values of --to
          None,
          AfLog,         \* --af-log names a file
          Attempts,      \* --af-attempts
          OpTimeout,     \* --op-timeout, seconds for one socket operation
          Timeout,       \* --timeout, seconds to browse
          Resolve,       \* RESOLVE_TIMEOUT
          Ops,           \* socket operations of one /Discover
          MaxSession,    \* bounds: the sessions of the device that rotates its id most,
          MaxLost,       \* answers lost in all,
          MaxFrames      \* and frames in the log

\* A service id belongs to one session of a device.
Ids == Devices \X (0..MaxSession)
Types == {"ptr", "srv", "txt", "aaaa"}

ASSUME BrowseAssumption ==
  /\ Discoverable \subseteq Devices
  /\ Tos \subseteq [kind : {"any", "id", "mac", "name"}, id : Ids]
  /\ AfLog \in BOOLEAN
  /\ {Attempts, OpTimeout, Timeout, Resolve, Ops} \subseteq Nat \ {0}
  /\ {MaxSession, MaxLost, MaxFrames} \subseteq Nat
  /\ None \notin Ids

VARIABLES
  to,                   \* --to
  now,                  \* the clock
  pc,                   \* the thread
  attempt,              \* --af-log attempts made
  ep, op, wait,         \* /Discover: of whom, its operation, when that or a recv times out
  deadline,             \* of the attempts or of the browse
  inst, hosts,          \* Instance by id; hosts whose addresses are known
  nextBrowse, interval, \* when the next PTR query is due, and how long after it another
  chosen, exit,         \* the result
  session,              \* devices: the current session of each
  log,                  \* the frames in the --af-log file, oldest first
  wire,                 \* messages waiting in the socket
  due,                  \* records asked for in the last second and not yet answered
  lost,                 \* history: answers of each id that were lost
  stalled,              \* history: ids that aged while the thread was in a /Discover
  told                  \* history: the ids that told their name to a browse's /Discover

afVars   == <<attempt>>
callVars == <<ep, op, wait>>
mdnsVars == <<inst, hosts, nextBrowse, interval>>
endVars  == <<chosen, exit>>
airVars  == <<session, log, wire, due>>
histVars == <<lost, stalled, told>>
vars == <<to, now, pc, deadline, afVars, callVars, mdnsVars, endVars, airVars, histVars>>

Unasked == -1
NewInst == [known |-> TRUE, srv |-> FALSE, txt |-> FALSE, first |-> Unasked,
            lastQuery |-> Unasked, done |-> FALSE]
Absent == [NewInst EXCEPT !.known = FALSE]

\* Handed over or dropped: what else it holds is not read again.
DoneInst == [NewInst EXCEPT !.done = TRUE]

Init ==
  /\ to \in Tos /\ now = 0
  /\ pc = IF AfLog THEN "af" ELSE "open"
  /\ attempt = 0 /\ ep = None /\ op = 0 /\ wait = 0
  /\ deadline = Attempts * (OpTimeout + 2)
  /\ inst = [i \in Ids |-> Absent] /\ hosts = {}
  /\ nextBrowse = 0 /\ interval = 1
  /\ chosen = None /\ exit = None
  /\ session = [d \in Devices |-> 0] /\ log = <<>> /\ wire = <<>> /\ due = {}
  /\ lost = [i \in Ids |-> 0] /\ stalled = {} /\ told = {}

Least(S) == CHOOSE x \in S : \A y \in S : x <= y

Open(i) == inst[i].known /\ ~inst[i].done

-----------------------------------------------------------------------------
(* What --to means *)

\* Does --to name this endpoint, as far as can be told before /Discover?
ToIsId(i) == to.kind = "id" => to.id = i
ToIsMac(i) == to.kind = "mac" => to.id[1] = i[1]

\* The check on the name that /Discover gave, of an endpoint from the log.
AfNameOK(i) == to.kind = "name" => to.id[1] = i[1]

\* The same check in on_add.  It does not spare a MAC: no name contains one.
OnAddNameOK(i) == to.kind # "mac" /\ (to.kind = "name" => to.id[1] = i[1])

-----------------------------------------------------------------------------
(* The answer to /Discover *)

Responses == [bodiless : BOOLEAN, chunked : BOOLEAN, length : BOOLEAN, fits : BOOLEAN,
              whole : BOOLEAN, says : {"name", "noname", "other"}]

\* read_head: how the end of the body is known.
Framing(r) == CASE r.bodiless -> "none"
                [] r.chunked -> "chunked"
                [] r.length /\ ~r.chunked -> "length"
                [] OTHER -> "close"

\* read_response: a body over the limit, or one that ends early where its framing
\* shows it, is an error; of one that runs to the close an early end is not seen.
Body(r) == CASE Framing(r) = "none" -> "empty"
             [] ~r.fits -> "error"
             [] ~r.whole -> IF Framing(r) = "close" THEN "cut" ELSE "error"
             [] OTHER -> r.says

\* discover: the name, none, or a failure; what does not parse is a failure.
Answers == {IF Body(r) \in {"name", "noname"} THEN Body(r) ELSE "error" : r \in Responses}

-----------------------------------------------------------------------------
(* --af-log *)

\* Mutant: a MAC is not compared.
FreshestAnyMac ==
  LET eps == {n \in DOMAIN log : log[n].srv}
      newest == {n \in eps : \A m \in eps : m > n => log[m].id[1] # log[n].id[1]}
      fit == {n \in newest : ToIsId(log[n].id)}
  IN  IF fit = {} THEN None ELSE log[CHOOSE n \in fit : \A m \in fit : m <= n].id

\* The newest endpoint that --to does not rule out, of the newest of each MAC.
\* A frame without a service record is skipped.
Freshest ==
  LET eps == {n \in DOMAIN log : log[n].srv}
      newest == {n \in eps : \A m \in eps : m > n => log[m].id[1] # log[n].id[1]}
      fit == {n \in newest : ToIsId(log[n].id) /\ ToIsMac(log[n].id)}
  IN  IF fit = {} THEN None ELSE log[CHOOSE n \in fit : \A m \in fit : m <= n].id

\* Each attempt reads the log anew; after the last, or when the time or the
\* endpoints have run out, airdrop-send browses.
AfAttempt ==
  /\ pc = "af"
  /\ IF attempt = Attempts \/ now >= deadline \/ Freshest = None
     THEN pc' = "open" /\ UNCHANGED <<attempt, callVars>>
     ELSE /\ attempt' = attempt + 1
          /\ ep' = Freshest /\ op' = 1 /\ wait' = now + OpTimeout
          /\ pc' = "afdiscover"
  /\ UNCHANGED <<to, now, deadline, mdnsVars, endVars, airVars, histVars>>

\* One operation of an attempt's /Discover ends; nothing but its own timeout
\* bounds the next.
AfOperation ==
  /\ pc = "afdiscover" /\ op < Ops /\ now < wait
  /\ op' = op + 1 /\ wait' = now + OpTimeout
  /\ UNCHANGED <<to, now, pc, deadline, ep, afVars, mdnsVars, endVars, airVars, histVars>>

\* The last one ends, with an answer; or one fails or times out.
AfDiscovered ==
  /\ pc = "afdiscover"
  /\ \E a \in Answers :
       /\ a # "error" => op = Ops /\ now < wait
       /\ IF a = "name" /\ AfNameOK(ep)
          THEN chosen' = ep /\ pc' = "found"
          ELSE pc' = "af" /\ UNCHANGED chosen
  /\ ep' = None /\ op' = 0 /\ wait' = 0
  /\ UNCHANGED <<to, now, deadline, afVars, mdnsVars, exit, airVars, histVars>>

-----------------------------------------------------------------------------
(* browse *)

\* Browser::new: the interface may have no IPv6 address.  The log has been read
\* for the last time, and the model's clock starts again.
Start ==
  /\ pc = "open"
  /\ now' = 0 /\ deadline' = Timeout
  /\ attempt' = 0 /\ log' = <<>>
  /\ \/ pc' = "top" /\ UNCHANGED exit
     \/ pc' = "end" /\ exit' = 1
  /\ UNCHANGED <<to, callVars, mdnsVars, chosen, session, wire, due, histVars>>

GiveUp == pc' = "end" /\ exit' = 2

\* Mutant: the address is left to whoever sends it unasked.
LackingNoAddress(i) ==
  (IF inst[i].srv THEN {} ELSE {<<i, "srv">>}) \cup (IF inst[i].txt THEN {} ELSE {<<i, "txt">>})

\* The records to ask for: the address once its host is known.
Lacking(i) ==
  (IF inst[i].srv THEN {} ELSE {<<i, "srv">>})
    \cup (IF inst[i].txt THEN {} ELSE {<<i, "txt">>})
    \cup (IF inst[i].srv /\ i[1] \notin hosts THEN {<<i, "aaaa">>} ELSE {})

First(i) == IF inst[i].first = Unasked THEN now ELSE inst[i].first
Late(i) == Open(i) /\ now - First(i) >= Resolve

\* Once a second, until it resolves or gives up.
Asks(i) ==
  Open(i) /\ ~Late(i) /\ (inst[i].lastQuery = Unasked \/ now - inst[i].lastQuery >= 1)

\* The questions of this turn: each instance's, and the PTR query's.
Queries == (UNION {Lacking(i) : i \in {j \in Ids : Asks(j)}})
             \cup {q \in Ids \X {"ptr"} : now >= nextBrowse}

\* The top of the loop: the deadline, the PTR query with its growing interval,
\* then for each instance what it still lacks; one that has not resolved in
\* time is dropped.
Top ==
  /\ pc = "top"
  /\ IF now >= deadline
     THEN /\ GiveUp
          /\ UNCHANGED <<nextBrowse, interval, inst, due, wait>>
     ELSE
       /\ nextBrowse' = IF now >= nextBrowse THEN now + interval ELSE nextBrowse
       /\ interval' = IF now >= nextBrowse THEN Least({interval * 2, 20}) ELSE interval
       /\ inst' = [i \in Ids |-> IF Late(i) THEN DoneInst
                                 ELSE IF Open(i)
                                 THEN [inst[i] EXCEPT !.first = First(i),
                                         !.lastQuery = IF Asks(i) THEN now ELSE @]
                                 ELSE inst[i]]
       /\ due' = {q \in due \cup Queries : q[1][2] = session[q[1][1]]}
       /\ wait' = Least({nextBrowse', deadline}
                    \cup {Least({inst'[i].lastQuery + 1, First(i) + Resolve}) :
                            i \in {j \in Ids : Open(j) /\ ~Late(j)}})
       /\ pc' = "recv"
       /\ UNCHANGED exit
  /\ UNCHANGED <<to, now, deadline, afVars, ep, op, hosts, chosen, session, log, wire, histVars>>

\* parse_message: a query, a message cut short, or one from another interface or
\* from beyond the link, says nothing; nor does a record with a TTL of 0.
Records(m) == IF m.counts THEN m.recs ELSE {}

\* absorb: a PTR makes the instance known before the records with it are read;
\* the records of an instance that is not known are skipped.
Absorb(i, recs) ==
  LET new == IF "ptr" \in recs /\ ~inst[i].known THEN NewInst ELSE inst[i]
  IN  /\ inst' = [inst EXCEPT ![i] =
                    IF new.known /\ ~new.done THEN [new EXCEPT !.srv = @ \/ "srv" \in recs,
                                                  !.txt = @ \/ "txt" \in recs]
                    ELSE new]
      /\ hosts' = hosts \cup IF "aaaa" \in recs THEN {i[1]} ELSE {}

\* A datagram, or none until the time to wait is over.
Recv ==
  /\ pc = "recv"
  /\ \/ /\ wire # <<>>
        /\ wire' = Tail(wire)
        /\ Absorb(Head(wire).id, Records(Head(wire)))
     \/ wire = <<>> /\ now >= wait /\ UNCHANGED <<wire, inst, hosts>>
  /\ pc' = "scan"
  /\ UNCHANGED <<to, now, deadline, afVars, callVars, nextBrowse, interval, endVars, session, log,
                 due, histVars>>

Resolved(i) == Open(i) /\ inst[i].srv /\ inst[i].txt /\ i[1] \in hosts

\* on_add up to /Discover: is this instance worth one?
Candidate(i) == ToIsId(i) /\ ToIsMac(i) /\ i[1] \in Discoverable

\* Mutant: the browse's client has no deadline.
OnFoundUnbounded(i) ==
  /\ pc = "scan" /\ Resolved(i)
  /\ inst' = [inst EXCEPT ![i] = DoneInst]
  /\ IF Candidate(i)
     THEN ep' = i /\ op' = 1 /\ wait' = now + OpTimeout /\ pc' = "discover"
     ELSE UNCHANGED <<callVars, pc>>
  /\ UNCHANGED <<to, now, deadline, afVars, hosts, nextBrowse, interval, endVars, airVars,
                 histVars>>

\* An instance that has resolved is handed to on_add, once.
OnFound(i) ==
  /\ pc = "scan" /\ Resolved(i)
  /\ inst' = [inst EXCEPT ![i] = DoneInst]
  /\ IF Candidate(i)
     THEN /\ ep' = i /\ op' = 1 /\ wait' = Least({now + OpTimeout, deadline})
          /\ pc' = "discover" /\ UNCHANGED exit
     ELSE /\ IF now >= deadline THEN GiveUp ELSE UNCHANGED <<pc, exit>>
          /\ UNCHANGED callVars
  /\ UNCHANGED <<to, now, deadline, afVars, hosts, nextBrowse, interval, chosen, airVars, histVars>>

Scanned ==
  /\ pc = "scan" /\ \A i \in Ids : ~Resolved(i)
  /\ pc' = "top"
  /\ UNCHANGED <<to, now, deadline, afVars, callVars, mdnsVars, endVars, airVars, histVars>>

\* Timed::arm: each operation ends by its own timeout and by the deadline.
Operation ==
  /\ pc = "discover" /\ op < Ops /\ now < wait
  /\ op' = op + 1 /\ wait' = Least({now + OpTimeout, deadline})
  /\ UNCHANGED <<to, now, pc, deadline, ep, afVars, mdnsVars, endVars, airVars, histVars>>

\* on_add after /Discover; what it rejects is not tried again.
Discovered ==
  /\ pc = "discover"
  /\ \E a \in Answers :
       /\ a # "error" => op = Ops /\ now < wait
       /\ told' = IF a = "name" THEN told \cup {ep} ELSE told
       /\ IF a = "name" /\ OnAddNameOK(ep)
          THEN chosen' = ep /\ pc' = "found" /\ UNCHANGED exit
          ELSE /\ IF now >= deadline THEN GiveUp ELSE pc' = "scan" /\ UNCHANGED exit
               /\ UNCHANGED chosen
  /\ ep' = None /\ op' = 0 /\ wait' = 0
  /\ UNCHANGED <<to, now, deadline, afVars, mdnsVars, airVars, lost, stalled>>

\* The socket fails: the browse ends without a receiver.
RecvFails ==
  /\ pc = "recv" /\ GiveUp
  /\ UNCHANGED <<to, now, deadline, afVars, callVars, mdnsVars, chosen, airVars, histVars>>

-----------------------------------------------------------------------------
(* The air *)

Waiting == pc \in {"recv", "discover", "afdiscover"} /\ now < wait

\* Answers come within the second; a queue that is not empty wakes a recv.
Tick ==
  /\ Waiting /\ due = {} /\ (pc = "recv" => wire = <<>>)
  /\ now' = now + 1
  /\ stalled' = IF pc = "discover" THEN stalled \cup {i \in Ids : Open(i)} ELSE stalled
  /\ UNCHANGED <<to, pc, deadline, afVars, callVars, mdnsVars, endVars, airVars, lost, told>>

\* A device answers what was asked of it, together with more or not.
Respond(i) ==
  LET asked == {t \in Types : <<i, t>> \in due}
  IN  /\ asked # {} /\ Waiting
      /\ \E recs \in {asked, Types} :
           wire' = Append(wire, [id |-> i, recs |-> recs, counts |-> TRUE])
      /\ due' = {q \in due : q[1] # i}
      /\ UNCHANGED <<to, now, pc, deadline, afVars, callVars, mdnsVars, endVars, session, log,
                     histVars>>

\* Its answer is lost, or what arrives is nothing to the browser.
Lose(i) ==
  /\ Waiting /\ \E t \in Types : <<i, t>> \in due
  /\ MapThenSumSet(LAMBDA j : lost[j], Ids) < MaxLost
  /\ lost' = [lost EXCEPT ![i] = @ + 1]
  /\ due' = {q \in due : q[1] # i}
  /\ \/ UNCHANGED wire
     \/ wire' = Append(wire, [id |-> i, recs |-> Types, counts |-> FALSE])
  /\ UNCHANGED <<to, now, pc, deadline, afVars, callVars, mdnsVars, endVars, session, log, stalled,
                 told>>

\* A device begins a new session, with a new service id; the old id is dead.
Rotate(d) ==
  /\ Waiting /\ \A e \in Devices : session[e] < MaxSession
  /\ session' = [session EXCEPT ![d] = @ + 1]
  /\ due' = {q \in due : q[1][1] # d}
  /\ UNCHANGED <<to, now, pc, deadline, afVars, callVars, mdnsVars, endVars, log, wire, histVars>>

\* The listener logs a frame, with a service record or without one.
LogFrame(d) ==
  /\ AfLog /\ pc \in {"af", "afdiscover"} /\ Len(log) < MaxFrames
  /\ \E srv \in BOOLEAN : log' = Append(log, [id |-> <<d, session[d]>>, srv |-> srv])
  /\ UNCHANGED <<to, now, pc, deadline, afVars, callVars, mdnsVars, endVars, session, wire, due,
                 histVars>>

Over == pc \in {"found", "end"} /\ UNCHANGED vars

Thread ==
  \/ AfAttempt \/ AfOperation \/ AfDiscovered
  \/ Start \/ Top \/ Recv \/ Scanned \/ Operation \/ Discovered \/ RecvFails
  \/ \E i \in Ids : OnFound(i)

Next ==
  \/ Thread \/ Tick \/ Over
  \/ \E i \in Ids : Respond(i) \/ Lose(i)
  \/ \E d \in Devices : Rotate(d) \/ LogFrame(d)

Spec == Init /\ [][Next]_vars

-----------------------------------------------------------------------------
(* Properties *)

Matches(i) == CASE to.kind = "id" -> to.id = i
                [] to.kind \in {"mac", "name"} -> to.id[1] = i[1]
                [] OTHER -> TRUE

\* Whatever the frames and answers, and whenever a device changes its id, the
\* receiver that is asked is the one --to names, by id, MAC or name.
RightReceiver == chosen # None => Matches(chosen)

\* "an instance that does not resolve within 3 s is dropped": none is dropped
\* that is alive and answers every query but one, since each is repeated every
\* second (unless the thread spent the time in another instance's /Discover);
\* and one that is asked, gives its name and is what --to says, an id or a name,
\* is the one chosen.
AnswersAreHeard ==
  /\ \A i \in Ids : Late(i) /\ pc = "top" => lost[i] > 1 \/ i \in stalled \/ i[2] # session[i[1]]
  /\ \A i \in told : to.kind # "mac" /\ Matches(i) => chosen # None

\* A browse is over at its deadline, whichever peer it is in the middle of asking.
EndsInTime == pc \in {"top", "recv", "scan", "discover"} => now <= deadline

\* "--to may be a 12-hex service id ..., a MAC ..., or a name substring": a
\* device that --to names and that tells its name is the one chosen.
NamedIsChosen == \A i \in told : Matches(i) => chosen # None
=============================================================================
