--------------------------- MODULE ReceiverServer ---------------------------
(***************************************************************************)
(* The receiver, omdrop-receiver/src/server.rs and main.rs, with the       *)
(* Contacts policy of omdrop-proto/src/contacts.rs and the request heads   *)
(* of omdrop-proto/src/http.rs: one accepting thread (admit, eviction),    *)
(* one thread per connection (handshake, request loop, Discover, Ask,      *)
(* Upload), the upload slots, and the stop that a visibility change or the *)
(* user causes.  What extract() does with a body is module Archive; here   *)
(* it is one step with each of its outcomes.                               *)
(***************************************************************************)
EXTENDS Naturals, Sequences, FiniteSets, SequencesExt

CONSTANTS
    Conns,          \* connections, in the order admit numbers them, each used once
    Peers,          \* per connection: the peer addresses it may come from
    Accounts,       \* Apple accounts a certificate or a record may name
    Certs,          \* per connection: accounts its sender has a certificate of
    Known,          \* accounts with an identifier in the known-senders list
    NoAccount,      \* no certificate, no record, or one that does not verify
    MaxConnections, MaxPerPeer, MaxUploads,
    MaxRequests,    \* per connection: how many requests it may carry
    MaxLinks,       \* items of a links Ask
    MaxSwitches,    \* changes of the visibility
    Kinds           \* per connection: the requests its sender may send

ASSUME ReceiverConstants ==
    /\ MaxConnections \in Nat \ {0} /\ MaxPerPeer \in Nat \ {0} /\ MaxUploads \in Nat \ {0}
    /\ MaxRequests \in [Conns -> Nat] /\ MaxLinks \in Nat /\ MaxSwitches \in Nat
    /\ Known \subseteq Accounts /\ NoAccount \notin Accounts
    /\ Certs \in [Conns -> SUBSET Accounts]
    /\ Kinds \in [Conns -> SUBSET {"discover", "ask", "links", "upload", "other"}]

VARIABLES
    vis,        \* the visibility file
    certAsked,  \* tls::ClientAuth::Request, settled when the receiver started
    server,     \* "up", "reset" between reset_sessions and exit, "down" or "starting"
    switches,   \* visibility changes so far
    restart,    \* a visibility change has yet to restart the unit
    live,       \* Server.live
    waiting,    \* those of live with waiting_since set, longest first
    uploads,    \* Server.uploads
    conn,       \* per connection: its thread and Conn
    stored,     \* transfers <<c, n>> in the download directory
    told        \* transfers whose sender read a 200

serverVars == <<vis, certAsked, server, switches, restart>>
capVars    == <<live, waiting>>
vars       == <<serverVars, capVars, uploads, conn, stored, told>>

Visibilities == {"everyone", "contacts"}
NoConn == [pc |-> "free", peer |-> NoAccount, cert |-> NoAccount, shut |-> FALSE, slot |-> FALSE,
           contactsOk |-> FALSE, n |-> 0, req |-> "none", left |-> 0,
           status |-> 0, flow |-> "keep"]
Ended  == [NoConn EXCEPT !.pc = "ended"]
Refused == [NoConn EXCEPT !.pc = "refused"]

-----------------------------------------------------------------------------
(* contacts.rs *)

\* Mutant: the record is not bound to the certificate.
DecideUnbound(record, cert) == IF record \in Known THEN "accept" ELSE "unknown"

\* decide: the record verifies, the certificate names the record's account, and
\* the account is a known sender's.
Decide(record, cert) ==
    CASE record = NoAccount -> "bad-record"
      [] cert = NoAccount   -> "no-certificate"
      [] record # cert      -> "unbound"
      [] record \notin Known -> "unknown"
      [] OTHER              -> "accept"

\* decide_discovery fails open: only a verified record of a stranger is refused.
DecideDiscovery(record) ==
    IF record # NoAccount /\ record \notin Known THEN "unknown" ELSE "accept"

-----------------------------------------------------------------------------
(* Helpers. *)

At(c, p)       == conn[c].pc = p
Go(c, p)       == conn' = [conn EXCEPT ![c].pc = p]
Transfer(c)    == <<c, conn[c].n>>
\* The waiting without c, which is among them once or not at all.
Without(s, c) ==
    LET at == {i \in 1..Len(s) : s[i] = c}
    IN  IF at = {} THEN s ELSE RemoveAt(s, CHOOSE i \in at : TRUE)
SetWaiting(c, on) ==
    waiting' = IF c \in live /\ on THEN Append(Without(waiting, c), c) ELSE Without(waiting, c)

\* The next request on connection c, as far as its handler's first step: with
\* this status to be answered, then closed, drained or kept as the request asks.
Reply(c, req, status, flow) ==
    conn' = [conn EXCEPT ![c].pc = "answer", ![c].req = req, ![c].status = status,
                         ![c].flow = flow, ![c].n = IF conn[c].pc = "head" THEN @ + 1 ELSE @]

-----------------------------------------------------------------------------
Init ==
    /\ vis \in Visibilities /\ certAsked = (vis = "contacts")
    /\ server = "up" /\ switches = 0 /\ restart = FALSE
    /\ live = {} /\ waiting = <<>> /\ uploads = 0
    /\ conn = [c \in Conns |-> NoConn]
    /\ stored = {} /\ told = {}

\* serve and admit: refused past the peer's cap; past the total cap the one that
\* has waited longest is shut down, or the new one refused when none waits.
\* The thread may fail to start, and is then forgotten.
Accept(c, p) ==
    /\ server \in {"up", "reset"} /\ conn[c].pc = "free"
    /\ LET fromPeer == {d \in live : conn[d].peer = p}
           full     == Cardinality(live) >= MaxConnections
           victims  == IF full /\ waiting # <<>> THEN {Head(waiting)} ELSE {}
           room     == live \ victims
           queue    == IF victims = {} THEN waiting ELSE Tail(waiting)
       IN  \/ /\ Cardinality(fromPeer) >= MaxPerPeer \/ (full /\ victims = {})
              /\ conn' = [conn EXCEPT ![c] = Refused]
              /\ UNCHANGED capVars
           \/ /\ Cardinality(fromPeer) < MaxPerPeer /\ ~(full /\ victims = {})
              /\ \/ /\ live' = room \union {c} /\ waiting' = Append(queue, c)
                    /\ conn' = [d \in Conns |->
                          CASE d = c         -> [conn[c] EXCEPT !.pc = "handshake", !.peer = p]
                            [] d \in victims -> [conn[d] EXCEPT !.shut = TRUE]
                            [] OTHER         -> conn[d]]
                 \/ /\ live' = room /\ waiting' = queue
                    /\ conn' = [d \in Conns |->
                          CASE d = c         -> Refused
                            [] d \in victims -> [conn[d] EXCEPT !.shut = TRUE]
                            [] OTHER         -> conn[d]]
    /\ UNCHANGED <<serverVars, uploads, stored, told>>

\* session, the TLS handshake: it completes, with a certificate if one was asked
\* for and the sender has one, and the request loop begins, or it fails (deadline, peer gone, evicted).
Handshake(c) ==
    /\ At(c, "handshake")
    /\ \/ /\ ~conn[c].shut
          /\ \E a \in (IF certAsked THEN Certs[c] ELSE {}) \union {NoAccount} :
                conn' = [conn EXCEPT ![c].pc = "head", ![c].cert = a]
          /\ SetWaiting(c, TRUE)
       \/ Go(c, "close") /\ UNCHANGED waiting
    /\ UNCHANGED <<serverVars, live, uploads, stored, told>>

\* After an accepted Ask: up to UPLOAD_WAIT for the next request's first byte.
FirstByte(c) ==
    /\ At(c, "first")
    /\ Go(c, "head") \/ Go(c, "close")
    /\ UNCHANGED <<serverVars, capVars, uploads, stored, told>>

\* read_request and the handler's first step: a connection that was shut down can
\* still read what had arrived.
Request(c) == At(c, "head") /\ conn[c].n < MaxRequests[c]

\* No further request: the sender closed, or a deadline.
NoRequest(c) ==
    /\ At(c, "head") /\ Go(c, "close")
    /\ UNCHANGED <<serverVars, capVars, uploads, stored, told>>

\* A malformed head, a body read_small_body refuses, an Ask of too many items (all
\* answered and closed); GET, HEAD, another method, an unknown path.
Other(c) ==
    /\ Request(c) /\ "other" \in Kinds[c]
    /\ \E f \in {"keep", "close"} : Reply(c, "other", 400, f)
    /\ UNCHANGED <<serverVars, capVars, uploads, stored, told>>

Discover(c) ==
    /\ Request(c) /\ "discover" \in Kinds[c]
    /\ \E record \in Accounts \union {NoAccount} :
          Reply(c, "discover",
                IF vis = "contacts" /\ DecideDiscovery(record) # "accept" THEN 401 ELSE 200, "keep")
    /\ UNCHANGED <<serverVars, capVars, uploads, stored, told>>

\* ask, up to the decision: a refused Ask leaves contacts_ok as it was.
AskDecide(c) ==
    /\ Request(c)
    /\ \E kind \in Kinds[c] \intersect {"ask", "links"}, record \in Accounts \union {NoAccount},
          k \in 0..MaxLinks :
          LET accepted == vis = "everyone" \/ Decide(record, conn[c].cert) = "accept"
              proves   == conn[c].contactsOk \/ (vis = "contacts" /\ accepted)
          IN  conn' = [conn EXCEPT ![c].req = kind, ![c].n = @ + 1,
                         ![c].contactsOk = proves,
                         ![c].pc     = IF accepted /\ kind = "links" THEN "store" ELSE "answer",
                         ![c].left   = IF accepted /\ kind = "links" THEN k ELSE 0,
                         ![c].status = IF ~accepted THEN 403 ELSE IF kind = "ask" THEN 200 ELSE 0]
    /\ UNCHANGED <<serverVars, capVars, uploads, stored, told>>

\* store_link: the next link is a file of its own, or the disk fails.
StoreLink(c) ==
    /\ conn[c].left > 0
    /\ conn' = [conn EXCEPT ![c].left = @ - 1] \/ Reply(c, "links", 507, "close")

\* ask, from the decision on, for a `links` Ask: each http item is stored (the
\* links before a failure stay), then the Ask is answered and is the transfer.
StoreLinks(c) ==
    /\ At(c, "store")
    /\ \/ StoreLink(c) /\ UNCHANGED stored
       \/ /\ conn[c].left = 0
          /\ stored' = stored \union {Transfer(c)}
          /\ Reply(c, "links", 200, "keep")
    /\ UNCHANGED <<serverVars, capVars, uploads, told>>

\* What is left of a connection's request once its handler returned.
Returned(c) == [conn[c] EXCEPT !.slot = FALSE, !.status = 0, !.flow = "keep", !.req = "none"]

\* respond: written, or the connection is gone.  The handler returns here, so a
\* slot it still holds is dropped; awaiting_upload is set last.  The loop goes on
\* with set_waiting unless the request or the answer closes the connection.
Answer(c) ==
    /\ At(c, "answer")
    /\ uploads' = IF conn[c].slot THEN uploads - 1 ELSE uploads
    /\ \/ /\ ~conn[c].shut
          /\ told' = IF conn[c].status = 200 /\ conn[c].req \in {"links", "upload"}
                     THEN told \union {Transfer(c)} ELSE told
          /\ \/ /\ conn[c].flow = "keep" /\ SetWaiting(c, TRUE)
                /\ conn' = [conn EXCEPT ![c] = [Returned(c) EXCEPT
                      !.pc = IF conn[c].status = 200 /\ conn[c].req = "ask" THEN "first" ELSE "head"]]
             \/ /\ UNCHANGED waiting
                /\ conn' = [conn EXCEPT ![c] = [Returned(c) EXCEPT
                      !.pc = IF conn[c].flow = "drain" THEN "drain" ELSE "close"]]
       \/ /\ conn' = [conn EXCEPT ![c] = [Returned(c) EXCEPT !.pc = "close"]]
          /\ UNCHANGED <<told, waiting>>
    /\ UNCHANGED <<serverVars, live, stored>>

-----------------------------------------------------------------------------
(* upload *)

\* Mutant: the upload does not look at the visibility.
UploadCheckOpen(c) ==
    /\ Request(c) /\ "upload" \in Kinds[c]
    /\ conn' = [conn EXCEPT ![c].pc = "slot", ![c].req = "upload", ![c].n = @ + 1]
    /\ UNCHANGED <<serverVars, capVars, uploads, stored, told>>

UploadCheck(c) ==
    /\ Request(c) /\ "upload" \in Kinds[c]
    /\ \/ /\ vis = "contacts" => conn[c].contactsOk
          /\ conn' = [conn EXCEPT ![c].pc = "slot", ![c].req = "upload", ![c].n = @ + 1]
       \/ Reply(c, "upload", IF vis = "contacts" /\ ~conn[c].contactsOk THEN 403 ELSE 415, "close")
    /\ UNCHANGED <<serverVars, capVars, uploads, stored, told>>

\* try_slot
TakeSlot(c) ==
    /\ At(c, "slot")
    /\ IF uploads < MaxUploads
       THEN uploads' = uploads + 1 /\ conn' = [conn EXCEPT ![c].slot = TRUE, ![c].pc = "mark"]
       ELSE UNCHANGED uploads /\ Reply(c, "upload", 503, "close")
    /\ UNCHANGED <<serverVars, capVars, stored, told>>

\* Mutant: a connection with a slot stays among the waiting.
MarkBusyNot(c) ==
    /\ At(c, "mark") /\ Go(c, "plan")
    /\ UNCHANGED <<serverVars, capVars, uploads, stored, told>>

MarkBusy(c) ==
    /\ At(c, "mark")
    /\ SetWaiting(c, FALSE) /\ Go(c, "plan")
    /\ UNCHANGED <<serverVars, live, uploads, stored, told>>

\* ReceiveBudget::of, by what the disk says, and body_plan within its limit, by what
\* the headers say: the status that refuses, or 0.
ReceiveBudget(disk) == CASE disk = "error" -> 507
                         [] disk = "full" -> 413
                         [] OTHER -> 0
BodyPlan(headers)   == CASE headers = "invalid" -> 400
                         [] headers = "over" -> 413
                         [] OTHER -> 0

\* The disk's budget comes first; whoever is refused keeps the slot to the answer's end.
Plan(c) ==
    /\ At(c, "plan")
    /\ \E disk \in {"error", "full", "room"}, headers \in {"invalid", "over", "fit"} :
         LET budget  == ReceiveBudget(disk)
             refusal == IF budget # 0 THEN budget ELSE BodyPlan(headers)
         IN  IF refusal # 0 THEN Reply(c, "upload", refusal, "close") ELSE Go(c, "extract")
    /\ UNCHANGED <<serverVars, capVars, uploads, stored, told>>

\* archive::extract and what upload makes of its result: a failure (408, 413, 422,
\* 507; here 422) closes the connection.
Extract(c) ==
    /\ At(c, "extract")
    /\ \/ /\ stored' = stored \union {Transfer(c)}
          /\ Reply(c, "upload", 200, "close") \/ Go(c, "release")
       \/ /\ UNCHANGED stored
          /\ Reply(c, "upload", 422, "close")
    /\ UNCHANGED <<serverVars, capVars, uploads, told>>

\* Mutant: the slot dropped early is dropped again when the handler returns.
ReleaseTwice(c) ==
    /\ At(c, "release")
    /\ uploads' = uploads - 1
    /\ conn' = [conn EXCEPT ![c].pc = "answer", ![c].status = 200, ![c].flow = "drain"]
    /\ UNCHANGED <<serverVars, capVars, stored, told>>

\* Unterminated: the slot is dropped before the answer and the drain.
Release(c) ==
    /\ At(c, "release")
    /\ uploads' = uploads - 1
    /\ conn' = [conn EXCEPT ![c].slot = FALSE, ![c].pc = "answer", ![c].status = 200,
                            ![c].flow = "drain"]
    /\ UNCHANGED <<serverVars, capVars, stored, told>>

Drain(c) ==
    /\ At(c, "drain") /\ Go(c, "close")
    /\ UNCHANGED <<serverVars, capVars, uploads, stored, told>>

\* The end of session, and connection's Forget guard.
Close(c) ==
    /\ At(c, "close")
    /\ live' = live \ {c} /\ waiting' = Without(waiting, c)
    /\ conn' = [conn EXCEPT ![c] = Ended]
    /\ UNCHANGED <<serverVars, uploads, stored, told>>

\* A panic in the handler unwinds: the slot and the Forget guard are dropped.
Panic(c) ==
    /\ conn[c].pc \in {"head", "store", "slot", "plan", "extract"}
    /\ uploads' = IF conn[c].slot THEN uploads - 1 ELSE uploads
    /\ live' = live \ {c} /\ waiting' = Without(waiting, c)
    /\ conn' = [conn EXCEPT ![c] = Ended]
    /\ UNCHANGED <<serverVars, stored, told>>

-----------------------------------------------------------------------------
(* omdrop visibility: the file is written, then the unit restarted. *)

SwitchVisibility ==
    /\ switches < MaxSwitches
    /\ \E v \in Visibilities : v # vis /\ vis' = v
    /\ switches' = switches + 1 /\ restart' = TRUE
    /\ UNCHANGED <<certAsked, server, capVars, uploads, conn, stored, told>>

\* handle_stop_signals: reset_sessions drains the table while threads still run.
ResetSessions ==
    /\ restart /\ server \in {"up", "starting"}
    /\ server' = "reset" /\ restart' = FALSE
    /\ live' = {} /\ waiting' = <<>>
    /\ UNCHANGED <<vis, certAsked, switches, uploads, conn, stored, told>>

\* exit(0): every thread and every connection is gone.
Exit ==
    /\ server = "reset"
    /\ server' = "down"
    /\ live' = {} /\ waiting' = <<>> /\ uploads' = 0
    /\ conn' = [c \in Conns |-> IF conn[c].pc = "free" THEN conn[c] ELSE Ended]
    /\ UNCHANGED <<vis, certAsked, switches, restart, stored, told>>

\* run(), to the listening socket: options, identity and the interface's address are
\* there and the port is free, or the receiver exits and the unit tries again.
Bind ==
    /\ server = "down" /\ server' = "starting"
    /\ UNCHANGED <<vis, certAsked, switches, restart, capVars, uploads, conn, stored, told>>

\* run(), after it: senders are asked for certificates in Contacts Only, as the
\* visibility is at that moment; without a usable pair the receiver exits after all.
Start ==
    /\ server = "starting"
    /\ \/ server' = "up" /\ certAsked' = (vis = "contacts")
       \/ server' = "down" /\ UNCHANGED certAsked
    /\ UNCHANGED <<vis, switches, restart, capVars, uploads, conn, stored, told>>

Step(c) ==
    \/ Handshake(c) \/ FirstByte(c) \/ NoRequest(c) \/ Other(c) \/ Discover(c) \/ AskDecide(c) \/ StoreLinks(c) \/ Answer(c)
    \/ UploadCheck(c) \/ TakeSlot(c) \/ MarkBusy(c) \/ Plan(c) \/ Extract(c) \/ Release(c)
    \/ Drain(c) \/ Close(c) \/ Panic(c)

Next ==
    \/ \E c \in Conns : \E p \in Peers[c] : Accept(c, p)
    \/ \E c \in Conns : Step(c)
    \/ SwitchVisibility \/ ResetSessions \/ Exit \/ Bind \/ Start

Spec == Init /\ [][Next]_vars

-----------------------------------------------------------------------------
(* Properties. *)

Transfers == UNION {{c} \X (1..MaxRequests[c]) : c \in Conns}

Outside == {"free", "refused", "ended"}
Busy    == {"plan", "extract", "release", "drain", "answer", "close"}

\* Type invariant.
TypeOK ==
    /\ vis \in Visibilities /\ certAsked \in BOOLEAN /\ server \in {"up", "reset", "down", "starting"}
    /\ restart \in BOOLEAN /\ switches \in 0..MaxSwitches
    /\ live \subseteq Conns /\ waiting \in Seq(Conns) /\ uploads \in 0..MaxUploads
    /\ stored \subseteq Transfers /\ told \subseteq Transfers
    /\ \A c \in Conns :
          /\ conn[c].pc \in Outside \union Busy \union
                {"handshake", "first", "head", "store", "slot", "mark"}
          /\ conn[c].n \in 0..MaxRequests[c] /\ conn[c].left \in 0..MaxLinks

\* server.rs admit, forget and Slot: the caps hold; the table names exactly the
\* connections that have a thread and were not shut down to make room; and the
\* counter is the number of uploads that hold a slot, on every way out of the
\* handler (refusals, lost connections, panics, the early drop).
CapsHold ==
    /\ Cardinality(live) <= MaxConnections
    /\ \A p \in UNION {Peers[c] : c \in Conns} : Cardinality({c \in live : conn[c].peer = p}) <= MaxPerPeer
    /\ IsInjective(waiting) /\ ToSet(waiting) \subseteq live
    /\ server = "up" => live = {c \in Conns : conn[c].pc \notin Outside /\ ~conn[c].shut}
    /\ uploads = Cardinality({c \in Conns : conn[c].slot})

\* server.rs:42-45, "slow or silent connections can never lock real senders out", and
\* what the code does of server.rs:746, "Evictable until it holds an upload slot": a
\* connection that holds a slot, or drains what follows its upload, is closed to make
\* room for another in one place only, after try_slot and before its own
\* set_waiting(false) (1210-1213); and a peer below its cap is refused only when every
\* connection is in an upload.
EvictsOnlyUnmarked ==
    [][/\ \A c \in Conns :
             ~conn[c].shut /\ conn'[c].shut /\ (conn[c].slot \/ At(c, "drain")) => At(c, "mark")
       /\ \A c \in Conns : \A p \in Peers[c] :
             /\ conn[c].pc = "free" /\ conn'[c].pc = "refused" /\ live' = live
             /\ Cardinality(live) >= MaxConnections
             /\ Accept(c, p) /\ Cardinality({d \in live : conn[d].peer = p}) < MaxPerPeer
             => \A d \in live : conn[d].pc \in Busy]_vars

\* contacts.rs decide: a connection that may upload in Contacts Only presented a
\* certificate of a known sender, whatever record it was shown with.
ProvenIsKnown == \A c \in Conns : conn[c].contactsOk => conn[c].cert \in Known

OpenNow == {t \in Transfers :
              /\ conn[t[1]].n = t[2]
              /\ conn[t[1]].pc \in {"store", "slot", "mark", "plan", "extract"}}

D == INSTANCE Delivery WITH
        mode <- vis, proven <- {c \in Conns : conn[c].contactsOk}, open <- OpenNow

\* server.rs ask/upload: a transfer is stored only after it was let in, by the
\* visibility of that moment or by an Ask accepted on its own connection, and a
\* sender reads 200 only of what is stored: the receiver implements Delivery.
DeliveryRefined == D!DSpec
=============================================================================
