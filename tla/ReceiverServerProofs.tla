------------------------ MODULE ReceiverServerProofs ------------------------
(***************************************************************************)
(* Theorems about ReceiverServer, for any connections, caps and requests:  *)
(* its typing, the caps, who may be evicted, who has proven to be known,   *)
(* and that it implements Delivery.  All rest on ServerInv, which ties     *)
(* every connection's record to the table, the queue of the waiting, the   *)
(* slots and what is stored.                                               *)
(***************************************************************************)
EXTENDS ReceiverServer, FiniteSetTheorems, SequenceTheorems, TLAPS

-----------------------------------------------------------------------------
(* The inductive invariant. *)

Pcs == Outside \union Busy \union {"handshake", "first", "head", "store", "slot", "mark"}
Letting == {"store", "slot", "mark", "plan", "extract"}

Reqs  == {"none", "discover", "ask", "links", "upload", "other"}
Flows == {"keep", "close", "drain"}
PeersAndNone == (UNION {Peers[c] : c \in Conns}) \union {NoAccount}

\* A connection's record, field by field.
ConnType ==
    [pc : Pcs, peer : PeersAndNone, cert : Accounts \union {NoAccount},
     shut : BOOLEAN, slot : BOOLEAN, contactsOk : BOOLEAN, n : Nat,
     req : Reqs, left : 0..MaxLinks, status : Nat, flow : Flows]

Typed ==
    /\ vis \in Visibilities /\ certAsked \in BOOLEAN /\ server \in {"up", "reset", "down", "starting"}
    /\ restart \in BOOLEAN /\ switches \in 0..MaxSwitches
    /\ live \subseteq Conns /\ waiting \in Seq(Conns) /\ uploads \in Nat
    /\ stored \subseteq Transfers /\ told \subseteq Transfers
    /\ conn \in [Conns -> ConnType]

\* What the record k of connection c must agree with: whether c is in the table
\* (L) and among the waiting (W), what is stored (S), and the server's state (v).
Sound(c, k, L, W, S, v) ==
    /\ k.n \in 0..MaxRequests[c]
    /\ k.pc \in Outside => ~k.slot /\ ~k.shut /\ ~k.contactsOk /\ k.n = 0 /\ k.flow = "keep" /\ c \notin L
    /\ k.pc \in Letting => k.n >= 1
    /\ k.slot => k.pc \in {"mark", "plan", "extract", "release", "answer"}
    /\ k.pc \in {"mark", "plan", "extract", "release"} => k.slot
    /\ k.pc # "answer" => k.flow = "keep"
    /\ k.contactsOk => k.cert \in Known /\ k.pc # "handshake"
    /\ c \in L => ~k.shut
    /\ c \in W => /\ k.pc \notin {"plan", "extract", "release", "drain"}
                  /\ k.pc = "answer" => ~k.slot /\ k.flow # "drain"
    /\ c \in L /\ k.pc \notin Busy => c \in W
    /\ v = "up" /\ k.pc \notin Outside /\ ~k.shut => c \in L
    /\ v \in {"down", "starting"} => k.pc \in Outside
    /\ k.pc = "release" \/ (k.pc = "answer" /\ k.status = 200 /\ k.req \in {"links", "upload"})
          => <<c, k.n>> \in S /\ k.n >= 1
    /\ \A m \in Nat : <<c, m>> \in S =>
          k.pc = "ended" \/ (k.pc \notin {"free", "refused"} /\ m <= k.n /\ (k.pc \in Letting => m < k.n))

SlotHolders == {c \in Conns : conn[c].slot}
FromPeer(p) == {c \in live : conn[c].peer = p}

Tables ==
    /\ IsFiniteSet(live) /\ Cardinality(live) <= MaxConnections
    /\ \A p \in UNION {Peers[c] : c \in Conns} : Cardinality(FromPeer(p)) <= MaxPerPeer
    /\ IsInjective(waiting) /\ ToSet(waiting) \subseteq live

Slots == IsFiniteSet(SlotHolders) /\ uploads = Cardinality(SlotHolders) /\ uploads <= MaxUploads

AllSound == \A c \in Conns : Sound(c, conn[c], live, ToSet(waiting), stored, server)

ServerInv == Typed /\ Tables /\ Slots /\ AllSound

-----------------------------------------------------------------------------
(* The queue of the waiting. *)

\* Without removes one connection from a queue without repetitions.
LEMMA WithoutIs ==
  ASSUME NEW S, NEW s \in Seq(S), IsInjective(s), NEW c
  PROVE  /\ Without(s, c) \in Seq(S)
         /\ IsInjective(Without(s, c))
         /\ ToSet(Without(s, c)) = ToSet(s) \ {c}
<1> DEFINE at == {i \in 1..Len(s) : s[i] = c}
<1>1. CASE at = {}
  BY <1>1 DEF Without, ToSet
<1>2. CASE at # {}
  <2> DEFINE k == CHOOSE i \in at : TRUE
             r == RemoveAt(s, k)
  <2>1. k \in 1..Len(s) /\ s[k] = c
    BY <1>2
  <2>2. Without(s, c) = r
    BY <1>2 DEF Without
  <2>3. /\ r \in Seq(S) /\ Len(r) = Len(s) - 1
        /\ \A i \in 1..Len(r) : r[i] = IF i < k THEN s[i] ELSE s[i + 1]
    <3> HIDE DEF k
    <3> DEFINE a == SubSeq(s, 1, k - 1)
               b == SubSeq(s, k + 1, Len(s))
    <3>1. /\ a \in Seq(S) /\ Len(a) = k - 1
          /\ \A i \in 1..(k - 1) : a[i] = s[i]
      BY <2>1
    <3>2. /\ b \in Seq(S) /\ Len(b) = Len(s) - k
          /\ \A i \in 1..(Len(s) - k) : b[i] = s[k + i]
      BY <2>1
    <3>3. r = a \o b
      BY DEF RemoveAt
    <3> HIDE DEF a, b, r
    <3>4. r \in Seq(S) /\ Len(r) = Len(s) - 1
      BY <2>1, <3>1, <3>2, <3>3
    <3>5. ASSUME NEW i \in 1..Len(r) PROVE r[i] = IF i < k THEN s[i] ELSE s[i + 1]
      <4>1. CASE i < k
        BY <2>1, <3>1, <3>2, <3>3, <3>4, <4>1
      <4>2. CASE i >= k
        <5>1. i - (k - 1) \in 1..(Len(s) - k) /\ r[i] = b[i - (k - 1)]
          BY <2>1, <3>1, <3>2, <3>3, <3>4, <4>2
        <5>2. k + (i - (k - 1)) = i + 1
          BY <2>1
        <5> QED
          BY <3>2, <4>2, <5>1, <5>2, <2>1
      <4> QED
        BY <2>1, <4>1, <4>2
    <3> QED
      BY <3>4, <3>5
  <2> HIDE DEF k, r
  <2>4. IsInjective(r)
    BY <2>1, <2>3 DEF IsInjective
  <2>5. ASSUME NEW i \in 1..Len(r) PROVE r[i] \in ToSet(s) \ {c}
    <3> DEFINE j == IF i < k THEN i ELSE i + 1
    <3>1. j \in 1..Len(s) /\ j # k /\ r[i] = s[j]
      BY <2>1, <2>3
    <3> QED
      BY <2>1, <3>1 DEF IsInjective, ToSet
  <2>6. \A i \in 1..Len(s) : s[i] # c => \E j \in 1..Len(r) : r[j] = s[i]
    <3> SUFFICES ASSUME NEW i \in 1..Len(s), s[i] # c PROVE \E j \in 1..Len(r) : r[j] = s[i]
      OBVIOUS
    <3>1. CASE i < k
      BY <2>1, <2>3, <3>1
    <3>2. CASE i > k
      <4>1. i - 1 \in 1..Len(r) /\ r[i - 1] = s[i]
        BY <2>1, <2>3, <3>2
      <4> QED
        BY <4>1
    <3> QED
      BY <2>1, <3>1, <3>2
  <2>7. ToSet(r) = ToSet(s) \ {c}
    <3>1. DOMAIN r = 1..Len(r) /\ DOMAIN s = 1..Len(s)
      BY <2>3
    <3>2. ASSUME NEW x \in ToSet(r) PROVE x \in ToSet(s) \ {c}
      BY <2>5, <3>1 DEF ToSet
    <3>3. ASSUME NEW x \in ToSet(s), x # c PROVE x \in ToSet(r)
      <4>1. PICK i \in 1..Len(s) : s[i] = x
        BY <3>1 DEF ToSet
      <4>2. PICK j \in 1..Len(r) : r[j] = x
        BY <2>6, <3>3, <4>1
      <4> QED
        BY <3>1, <4>2 DEF ToSet
    <3> QED
      BY <3>2, <3>3
  <2> QED
    BY <2>2, <2>3, <2>4, <2>7
<1> QED
  BY <1>1, <1>2

\* Appending a connection that is not in the queue.
LEMMA AppendIs ==
  ASSUME NEW S, NEW s \in Seq(S), IsInjective(s), NEW c \in S, c \notin ToSet(s)
  PROVE  /\ Append(s, c) \in Seq(S)
         /\ IsInjective(Append(s, c))
         /\ ToSet(Append(s, c)) = ToSet(s) \union {c}
<1> DEFINE r == Append(s, c)
<1>1. /\ r \in Seq(S) /\ Len(r) = Len(s) + 1 /\ Len(s) \in Nat
      /\ DOMAIN r = 1..(Len(s) + 1) /\ DOMAIN s = 1..Len(s)
      /\ \A i \in 1..Len(s) : r[i] = s[i]
      /\ r[Len(s) + 1] = c
  OBVIOUS
<1>2. \A i \in 1..Len(s) : s[i] # c
  BY <1>1 DEF ToSet
<1> HIDE DEF r
<1>3. IsInjective(r)
  BY <1>1, <1>2 DEF IsInjective
<1>4. ASSUME NEW x \in ToSet(r) PROVE x \in ToSet(s) \union {c}
  BY <1>1 DEF ToSet
<1>5. ASSUME NEW x \in ToSet(s) \union {c} PROVE x \in ToSet(r)
  BY <1>1 DEF ToSet
<1> QED
  BY <1>1, <1>3, <1>4, <1>5 DEF r

\* The head of a queue without repetitions leaves it for good.
LEMMA TailIs ==
  ASSUME NEW S, NEW s \in Seq(S), IsInjective(s), s # <<>>
  PROVE  /\ Tail(s) \in Seq(S)
         /\ IsInjective(Tail(s))
         /\ Head(s) \in ToSet(s)
         /\ ToSet(Tail(s)) = ToSet(s) \ {Head(s)}
<1> DEFINE r == Tail(s)
<1>1. /\ r \in Seq(S) /\ Len(s) \in Nat \ {0} /\ Len(r) = Len(s) - 1
      /\ DOMAIN r = 1..(Len(s) - 1) /\ DOMAIN s = 1..Len(s)
      /\ \A i \in 1..(Len(s) - 1) : r[i] = s[i + 1]
      /\ Head(s) = s[1]
  OBVIOUS
<1> HIDE DEF r
<1>2. IsInjective(r)
  BY <1>1 DEF IsInjective
<1>3. Head(s) \in ToSet(s)
  BY <1>1 DEF ToSet
<1>4. ASSUME NEW x \in ToSet(r) PROVE x \in ToSet(s) \ {Head(s)}
  <2>1. PICK i \in 1..(Len(s) - 1) : x = r[i]
    BY <1>1 DEF ToSet
  <2>2. x = s[i + 1] /\ i + 1 \in 1..Len(s) /\ i + 1 # 1
    BY <1>1, <2>1
  <2> QED
    BY <1>1, <2>2 DEF ToSet, IsInjective
<1>5. ASSUME NEW x \in ToSet(s), x # Head(s) PROVE x \in ToSet(r)
  <2>1. PICK i \in 1..Len(s) : x = s[i]
    BY <1>1 DEF ToSet
  <2>2. i - 1 \in 1..(Len(s) - 1) /\ r[i - 1] = x
    BY <1>1, <1>5, <2>1
  <2> QED
    BY <1>1, <2>2 DEF ToSet
<1> QED
  BY <1>1, <1>2, <1>3, <1>4, <1>5 DEF r

-----------------------------------------------------------------------------
(* What one connection's thread may do without harm to the others. *)

\* A step of connection c alone that leaves c's own record sound.
Alone(c, r) ==
    /\ conn' = [conn EXCEPT ![c] = r] /\ r \in ConnType /\ conn[c].pc \notin Outside
    /\ UNCHANGED serverVars
    /\ live' \in {live, live \ {c}}
    /\ c \in live' => r.peer = conn[c].peer
    /\ waiting' \in Seq(Conns) /\ IsInjective(waiting')
    /\ ToSet(waiting') \ {c} = ToSet(waiting) \ {c} /\ ToSet(waiting') \subseteq live'
    /\ stored' \in {stored, stored \union {Transfer(c)}}
    /\ told' \in {told, told \union {Transfer(c)}}
    /\ (stored' = stored /\ told' = told) \/ conn[c].n >= 1
    /\ uploads' = IF r.slot = conn[c].slot THEN uploads
                  ELSE IF r.slot THEN uploads + 1 ELSE uploads - 1
    /\ r.slot /\ ~conn[c].slot => uploads < MaxUploads
    /\ Sound(c, r, live', ToSet(waiting'), stored', server')

\* A transfer of connection c that its records can name.
LEMMA TransferIs ==
  ASSUME NEW c \in Conns, NEW n \in 1..MaxRequests[c]
  PROVE  <<c, n>> \in Transfers
BY DEF Transfers

LEMMA AloneKeeps ==
  ASSUME ServerInv, NEW c \in Conns, NEW r, Alone(c, r)
  PROVE  ServerInv'
<1> USE DEF ServerInv
<1>1. conn' \in [Conns -> ConnType] /\ conn'[c] = r /\ \A d \in Conns \ {c} : conn'[d] = conn[d]
  BY DEF Typed, Alone
<1>2. uploads' \in Nat /\ Slots'
  <2>1. CASE r.slot = conn[c].slot
    <3>1. SlotHolders' = SlotHolders /\ uploads' = uploads
      BY <1>1, <2>1 DEF SlotHolders, Alone
    <3> QED
      BY <3>1 DEF Slots, Typed
  <2>2. CASE r.slot /\ ~conn[c].slot
    <3>1. SlotHolders' = SlotHolders \union {c} /\ c \notin SlotHolders
      BY <1>1, <2>2 DEF SlotHolders
    <3>2. uploads' = uploads + 1 /\ uploads < MaxUploads
      BY <2>2 DEF Alone
    <3> QED
      BY <3>1, <3>2, FS_AddElement, ReceiverConstants DEF Slots, Typed
  <2>3. CASE ~r.slot /\ conn[c].slot
    <3>1. SlotHolders' = SlotHolders \ {c} /\ c \in SlotHolders
      BY <1>1, <2>3 DEF SlotHolders
    <3>2. uploads' = uploads - 1
      BY <2>3 DEF Alone
    <3>3. /\ IsFiniteSet(SlotHolders \ {c}) /\ Cardinality(SlotHolders \ {c}) \in Nat
          /\ Cardinality(SlotHolders \ {c}) = Cardinality(SlotHolders) - 1
      BY <3>1, FS_RemoveElement, FS_CardinalityType DEF Slots
    <3>4. uploads = Cardinality(SlotHolders) /\ uploads <= MaxUploads /\ uploads \in Nat
      BY DEF Slots, Typed
    <3>5. uploads' = Cardinality(SlotHolders') /\ uploads' \in Nat /\ uploads' <= MaxUploads
      BY <3>1, <3>2, <3>3, <3>4, ReceiverConstants
    <3> QED
      BY <3>1, <3>3, <3>5 DEF Slots
  <2>4. r.slot \in BOOLEAN /\ conn[c].slot \in BOOLEAN
    BY DEF Alone, Typed, ConnType
  <2> QED
    BY <2>1, <2>2, <2>3, <2>4
<1>3. live' \subseteq live
  BY DEF Alone
<1>4. Typed'
  <2>1. conn[c].n \in 0..MaxRequests[c] /\ MaxRequests[c] \in Nat
    BY ReceiverConstants DEF AllSound, Sound
  <2>2. conn[c].n >= 1 => Transfer(c) \in Transfers
    BY <2>1, TransferIs DEF Transfer
  <2>3. stored' \subseteq Transfers /\ told' \subseteq Transfers
    BY <2>2 DEF Alone, Typed
  <2> QED
    BY <1>1, <1>2, <1>3, <2>3 DEF Typed, Alone, serverVars
<1>5. Tables'
  <2>1. IsFiniteSet(live') /\ Cardinality(live') <= MaxConnections
    BY <1>3, FS_Subset, FS_CardinalityType, ReceiverConstants DEF Tables
  <2>2. ASSUME NEW p \in UNION {Peers[d] : d \in Conns} PROVE Cardinality(FromPeer(p)') <= MaxPerPeer
    <3>1. FromPeer(p)' \subseteq FromPeer(p)
      BY <1>1, <1>3 DEF FromPeer, Alone, Typed
    <3>2. IsFiniteSet(FromPeer(p))
      BY FS_Subset DEF FromPeer, Tables
    <3> QED
      BY <3>1, <3>2, FS_Subset, FS_CardinalityType, ReceiverConstants DEF Tables
  <2> QED
    BY <2>1, <2>2 DEF Tables, Alone
<1>6. AllSound'
  <2> SUFFICES ASSUME NEW d \in Conns
               PROVE  Sound(d, conn'[d], live', ToSet(waiting'), stored', server')
    BY DEF AllSound
  <2>1. CASE d = c
    BY <1>1, <2>1 DEF Alone
  <2>2. CASE d # c
    <3>1. /\ conn'[d] = conn[d] /\ server' = server /\ (d \in live' <=> d \in live)
          /\ (d \in ToSet(waiting') <=> d \in ToSet(waiting))
      BY <1>1, <2>2 DEF Alone, serverVars
    <3>2. \A m \in Nat : <<d, m>> \in stored' <=> <<d, m>> \in stored
      BY <2>2 DEF Alone, Transfer
    <3>3. conn[d].n \in Nat
      BY DEF Typed, ConnType
    <3>4. Sound(d, conn[d], live, ToSet(waiting), stored, server)
      BY DEF AllSound
    <3> QED
      BY <3>1, <3>2, <3>3, <3>4 DEF Sound
  <2> QED
    BY <2>1, <2>2
<1> QED
  BY <1>2, <1>4, <1>5, <1>6

\* A step that changes nothing but c's record, and neither its slot nor its peer.
LEMMA QuietAlone ==
  ASSUME ServerInv, NEW c \in Conns, NEW r \in ConnType, conn[c].pc \notin Outside,
         conn' = [conn EXCEPT ![c] = r], r.peer = conn[c].peer, r.slot = conn[c].slot,
         UNCHANGED <<serverVars, capVars, uploads, stored, told>>,
         Sound(c, r, live, ToSet(waiting), stored, server)
  PROVE  Alone(c, r)
BY DEF Alone, ServerInv, Typed, Tables, capVars, serverVars

\* set_waiting moves c to the end of the queue or out of it, and nobody else.
LEMMA SetWaitingIs ==
  ASSUME ServerInv, NEW c \in Conns, NEW on \in BOOLEAN, SetWaiting(c, on)
  PROVE  /\ waiting' \in Seq(Conns) /\ IsInjective(waiting')
         /\ ToSet(waiting') \ {c} = ToSet(waiting) \ {c}
         /\ ToSet(waiting') \subseteq live
         /\ c \in ToSet(waiting') <=> c \in live /\ on
<1> DEFINE w == Without(waiting, c)
<1>1. waiting \in Seq(Conns) /\ IsInjective(waiting) /\ ToSet(waiting) \subseteq live
  BY DEF ServerInv, Typed, Tables
<1>2. w \in Seq(Conns) /\ IsInjective(w) /\ ToSet(w) = ToSet(waiting) \ {c}
  BY <1>1, WithoutIs
<1>3. waiting' = IF c \in live /\ on THEN Append(w, c) ELSE w
  BY DEF SetWaiting
<1> HIDE DEF w
<1>4. CASE c \in live /\ on
  <2>1. /\ Append(w, c) \in Seq(Conns) /\ IsInjective(Append(w, c))
        /\ ToSet(Append(w, c)) = ToSet(w) \union {c}
    BY <1>2, AppendIs
  <2> QED
    BY <1>1, <1>2, <1>3, <1>4, <2>1
<1>5. CASE ~(c \in live /\ on)
  BY <1>1, <1>2, <1>3, <1>5
<1> QED
  BY <1>4, <1>5

\* Forgetting c takes it out of the table and out of the queue.
LEMMA ForgetIs ==
  ASSUME ServerInv, NEW c \in Conns
  PROVE  /\ Without(waiting, c) \in Seq(Conns) /\ IsInjective(Without(waiting, c))
         /\ ToSet(Without(waiting, c)) = ToSet(waiting) \ {c}
         /\ ToSet(Without(waiting, c)) \subseteq live \ {c}
<1>1. waiting \in Seq(Conns) /\ IsInjective(waiting) /\ ToSet(waiting) \subseteq live
  BY DEF ServerInv, Typed, Tables
<1> QED
  BY <1>1, WithoutIs

-----------------------------------------------------------------------------
(* The steps of a connection's thread. *)

\* The record of c once it was answered as Reply says, and once it only moved on.
Replied(c, req, status, flow) ==
    [conn[c] EXCEPT !.pc = "answer", !.req = req, !.status = status, !.flow = flow,
                    !.n = IF conn[c].pc = "head" THEN @ + 1 ELSE @]
Moved(c, p) == [conn[c] EXCEPT !.pc = p]

LEMMA RecordIs ==
  ASSUME ServerInv, NEW c \in Conns
  PROVE  /\ conn[c] \in ConnType
         /\ Sound(c, conn[c], live, ToSet(waiting), stored, server)
         /\ MaxRequests[c] \in Nat
BY ReceiverConstants DEF ServerInv, Typed, AllSound

LEMMA ReplyIs ==
  ASSUME ServerInv, NEW c \in Conns, NEW req, NEW status, NEW flow, Reply(c, req, status, flow)
  PROVE  conn' = [conn EXCEPT ![c] = Replied(c, req, status, flow)]
BY DEF ServerInv, Typed, ConnType, Reply, Replied

LEMMA RepliedIs ==
  ASSUME NEW c, conn[c] \in ConnType, NEW req \in Reqs, NEW status \in Nat, NEW flow \in Flows
  PROVE  LET r == Replied(c, req, status, flow)
         IN  /\ r \in ConnType
             /\ r.pc = "answer" /\ r.req = req /\ r.status = status /\ r.flow = flow
             /\ r.n = IF conn[c].pc = "head" THEN conn[c].n + 1 ELSE conn[c].n
             /\ r.peer = conn[c].peer /\ r.slot = conn[c].slot /\ r.shut = conn[c].shut
             /\ r.cert = conn[c].cert /\ r.contactsOk = conn[c].contactsOk
<1> DEFINE m == IF conn[c].pc = "head" THEN conn[c].n + 1 ELSE conn[c].n
<1>1. m \in Nat
  BY DEF ConnType
<1>2. "answer" \in Pcs
  BY DEF Pcs, Busy
<1>3. Replied(c, req, status, flow)
        = [conn[c] EXCEPT !.pc = "answer", !.req = req, !.status = status, !.flow = flow, !.n = m]
  BY DEF Replied
<1> HIDE DEF m
<1>4. LET r == Replied(c, req, status, flow)
      IN  /\ r \in ConnType
          /\ r.pc = "answer" /\ r.req = req /\ r.status = status /\ r.flow = flow
          /\ r.n = m
          /\ r.peer = conn[c].peer /\ r.slot = conn[c].slot /\ r.shut = conn[c].shut
          /\ r.cert = conn[c].cert /\ r.contactsOk = conn[c].contactsOk
  BY <1>1, <1>2, <1>3 DEF ConnType
<1> QED
  BY <1>4 DEF m

LEMMA GoIs ==
  ASSUME ServerInv, NEW c \in Conns, NEW p, Go(c, p)
  PROVE  conn' = [conn EXCEPT ![c] = Moved(c, p)]
BY DEF ServerInv, Typed, ConnType, Go, Moved

\* The handlers that answer a request without touching anything else.
LEMMA AnswersAlone ==
  ASSUME ServerInv, NEW c \in Conns,
         NEW req \in {"discover", "links", "upload", "other"}, NEW status \in Nat,
         NEW flow \in {"keep", "close"}, Reply(c, req, status, flow),
         req \in {"links", "upload"} => status # 200,
         \/ Request(c) 
         \/ conn[c].pc \in {"store", "slot", "plan", "extract"},
         UNCHANGED <<serverVars, capVars, uploads, stored, told>>
  PROVE  \E r : Alone(c, r)
<1> DEFINE r == Replied(c, req, status, flow)
<1>1. conn' = [conn EXCEPT ![c] = r]
  BY ReplyIs
<1>2. conn[c] \in ConnType /\ Sound(c, conn[c], live, ToSet(waiting), stored, server) /\ MaxRequests[c] \in Nat
  BY RecordIs
<1>3. conn[c].pc \notin Outside /\ (conn[c].pc = "head" => conn[c].n < MaxRequests[c])
  BY DEF Request, At, Outside
<1>4. r \in ConnType /\ r.peer = conn[c].peer /\ r.slot = conn[c].slot
  BY <1>2, RepliedIs DEF Reqs, Flows
<1>5. Sound(c, r, live, ToSet(waiting), stored, server)
  BY <1>2, <1>3 DEF Replied, ConnType, Sound, Request, At, Outside, Busy, Letting
<1> HIDE DEF r
<1>6. Alone(c, r)
  BY <1>1, <1>3, <1>4, <1>5, QuietAlone
<1> QED
  BY <1>6

\* The steps that only move a connection's thread on.
LEMMA MovesAlone ==
  ASSUME ServerInv, NEW c \in Conns, NEW p, Go(c, p),
         \/ p = "close" /\ conn[c].pc \in {"handshake", "first", "head", "drain"}
         \/ p = "head" /\ conn[c].pc = "first"
         \/ p = "extract" /\ conn[c].pc = "plan",
         UNCHANGED <<serverVars, capVars, uploads, stored, told>>
  PROVE  \E r : Alone(c, r)
<1> DEFINE r == Moved(c, p)
<1>1. conn' = [conn EXCEPT ![c] = r]
  BY GoIs
<1>2. conn[c] \in ConnType /\ Sound(c, conn[c], live, ToSet(waiting), stored, server)
  BY RecordIs
<1>3. conn[c].pc \notin Outside /\ p \in Pcs
  BY DEF Outside, Pcs, Busy
<1>4. r \in ConnType /\ r.peer = conn[c].peer /\ r.slot = conn[c].slot
  BY <1>2, <1>3 DEF Moved, ConnType
<1>5. Sound(c, r, live, ToSet(waiting), stored, server)
  BY <1>2, <1>3 DEF Moved, ConnType, Sound, Outside, Busy, Letting
<1> HIDE DEF r
<1>6. Alone(c, r)
  BY <1>1, <1>3, <1>4, <1>5, QuietAlone
<1> QED
  BY <1>6

LEMMA HandshakeAlone ==
  ASSUME ServerInv, NEW c \in Conns, Handshake(c)
  PROVE  \E r : Alone(c, r)
<1>1. conn[c] \in ConnType /\ Sound(c, conn[c], live, ToSet(waiting), stored, server)
  BY RecordIs
<1>2. conn[c].pc = "handshake" /\ UNCHANGED <<serverVars, live, uploads, stored, told>>
  BY DEF Handshake, At
<1>3. ASSUME ~conn[c].shut, SetWaiting(c, TRUE), NEW a \in Accounts \union {NoAccount},
             conn' = [conn EXCEPT ![c].pc = "head", ![c].cert = a]
      PROVE  \E r : Alone(c, r)
  <2> DEFINE r == [conn[c] EXCEPT !.pc = "head", !.cert = a]
  <2>1. conn' = [conn EXCEPT ![c] = r]
    BY <1>3 DEF ServerInv, Typed, ConnType
  <2>2. r \in ConnType /\ r.peer = conn[c].peer /\ r.slot = conn[c].slot
    <3>1. "head" \in Pcs
      BY DEF Pcs
    <3> QED
      BY <1>1, <3>1 DEF ConnType
  <2>3. /\ waiting' \in Seq(Conns) /\ IsInjective(waiting')
        /\ ToSet(waiting') \ {c} = ToSet(waiting) \ {c}
        /\ ToSet(waiting') \subseteq live
        /\ c \in ToSet(waiting') <=> c \in live
    BY <1>3, SetWaitingIs
  <2>4. Sound(c, r, live, ToSet(waiting'), stored, server)
    BY <1>1, <1>2, <2>3 DEF ConnType, Sound, Outside, Busy, Letting
  <2>5. conn[c].pc \notin Outside
    BY <1>2 DEF Outside
  <2> HIDE DEF r
  <2>6. Alone(c, r)
    BY <1>2, <2>1, <2>2, <2>3, <2>4, <2>5 DEF Alone, serverVars
  <2> QED
    BY <2>6
<1>4. CASE Go(c, "close") /\ UNCHANGED waiting
  BY <1>2, <1>4, MovesAlone DEF capVars
<1>5. Certs[c] \subseteq Accounts
  BY ReceiverConstants
<1> QED
  BY <1>3, <1>4, <1>5 DEF Handshake

LEMMA AskDecideAlone ==
  ASSUME ServerInv, NEW c \in Conns, AskDecide(c)
  PROVE  \E r : Alone(c, r)
<1>1. conn[c] \in ConnType /\ Sound(c, conn[c], live, ToSet(waiting), stored, server) /\ MaxRequests[c] \in Nat
  BY RecordIs
<1>2. conn[c].pc = "head" /\ conn[c].n < MaxRequests[c] /\ UNCHANGED <<serverVars, capVars, uploads, stored, told>>
  BY DEF AskDecide, Request, At
<1>3. PICK kind \in Kinds[c] \intersect {"ask", "links"}, record \in Accounts \union {NoAccount}, i \in 0..MaxLinks :
        LET accepted == vis = "everyone" \/ Decide(record, conn[c].cert) = "accept"
            proves   == conn[c].contactsOk \/ (vis = "contacts" /\ accepted)
        IN  conn' = [conn EXCEPT ![c].req = kind, ![c].n = @ + 1,
                       ![c].contactsOk = proves,
                       ![c].pc     = IF accepted /\ kind = "links" THEN "store" ELSE "answer",
                       ![c].left   = IF accepted /\ kind = "links" THEN i ELSE 0,
                       ![c].status = IF ~accepted THEN 403 ELSE IF kind = "ask" THEN 200 ELSE 0]
  BY DEF AskDecide
<1> DEFINE accepted == vis = "everyone" \/ Decide(record, conn[c].cert) = "accept"
           proves   == conn[c].contactsOk \/ (vis = "contacts" /\ accepted)
           pc       == IF accepted /\ kind = "links" THEN "store" ELSE "answer"
           left     == IF accepted /\ kind = "links" THEN i ELSE 0
           status   == IF ~accepted THEN 403 ELSE IF kind = "ask" THEN 200 ELSE 0
           r        == [conn[c] EXCEPT !.req = kind, !.n = @ + 1, !.contactsOk = proves, !.pc = pc,
                                       !.left = left, !.status = status]
<1>4. conn' = [conn EXCEPT ![c].req = kind, ![c].n = @ + 1, ![c].contactsOk = proves, ![c].pc = pc,
                           ![c].left = left, ![c].status = status]
  BY <1>3, Zenon
<1>5. /\ pc \in {"store", "answer"} /\ left \in 0..MaxLinks /\ status \in {0, 200, 403}
      /\ pc = "answer" /\ kind = "links" => status = 403
      /\ proves \in BOOLEAN
  BY ReceiverConstants
<1>6. proves => conn[c].cert \in Known
  <2>1. vis = "contacts" => vis # "everyone"
    OBVIOUS
  <2>2. Decide(record, conn[c].cert) = "accept" => conn[c].cert \in Known
    BY DEF Decide
  <2> QED
    BY <1>1, <2>1, <2>2 DEF Sound
<1> HIDE DEF pc, left, status, proves
<1>7. r \in ConnType /\ r.peer = conn[c].peer /\ r.slot = conn[c].slot
  <2>1. pc \in Pcs /\ kind \in Reqs /\ status \in Nat
    BY <1>5 DEF Pcs, Busy, Reqs
  <2>2. conn[c].n + 1 \in Nat
    BY <1>1 DEF ConnType
  <2> QED
    BY <1>1, <1>5, <2>1, <2>2 DEF ConnType
<1>8. Sound(c, r, live, ToSet(waiting), stored, server)
  BY <1>1, <1>2, <1>5, <1>6 DEF ConnType, Sound, Outside, Busy, Letting
<1>9. conn[c].pc \notin Outside
  BY <1>2 DEF Outside
<1>10. conn' = [conn EXCEPT ![c] = r]
  BY <1>4 DEF ServerInv, Typed, ConnType
<1> HIDE DEF r
<1>11. Alone(c, r)
  BY <1>2, <1>10, <1>7, <1>8, <1>9, QuietAlone
<1> QED
  BY <1>11

LEMMA StoreLinksAlone ==
  ASSUME ServerInv, NEW c \in Conns, StoreLinks(c)
  PROVE  \E r : Alone(c, r)
<1>1. conn[c] \in ConnType /\ Sound(c, conn[c], live, ToSet(waiting), stored, server) /\ MaxRequests[c] \in Nat
  BY RecordIs
<1>2. conn[c].pc = "store" /\ conn[c].pc \notin Outside /\ UNCHANGED <<serverVars, capVars, uploads, told>>
  BY DEF StoreLinks, At, Outside
<1>3. ASSUME conn[c].left > 0, conn' = [conn EXCEPT ![c].left = @ - 1], UNCHANGED stored
      PROVE  \E r : Alone(c, r)
  <2> DEFINE r == [conn[c] EXCEPT !.left = @ - 1]
  <2>1. conn' = [conn EXCEPT ![c] = r]
    BY <1>3 DEF ServerInv, Typed, ConnType
  <2>2. r \in ConnType /\ r.peer = conn[c].peer /\ r.slot = conn[c].slot
    <3>1. conn[c].left - 1 \in 0..MaxLinks
      BY <1>1, <1>3, ReceiverConstants DEF ConnType
    <3> QED
      BY <1>1, <3>1 DEF ConnType
  <2>3. Sound(c, r, live, ToSet(waiting), stored, server)
    BY <1>1, <1>2 DEF ConnType, Sound, Outside, Busy, Letting
  <2> HIDE DEF r
  <2>4. Alone(c, r)
    BY <1>2, <1>3, <2>1, <2>2, <2>3, QuietAlone
  <2> QED
    BY <2>4
<1>4. CASE Reply(c, "links", 507, "close") /\ UNCHANGED stored
  BY <1>2, <1>4, AnswersAlone
<1>5. ASSUME stored' = stored \union {Transfer(c)}, Reply(c, "links", 200, "keep")
      PROVE  \E r : Alone(c, r)
  <2> DEFINE r == Replied(c, "links", 200, "keep")
  <2>1. conn' = [conn EXCEPT ![c] = r]
    BY <1>5, ReplyIs
  <2>2. /\ r \in ConnType /\ r.peer = conn[c].peer /\ r.slot = conn[c].slot /\ r.shut = conn[c].shut
        /\ r.cert = conn[c].cert /\ r.contactsOk = conn[c].contactsOk
        /\ r.pc = "answer" /\ r.flow = "keep" /\ r.n = conn[c].n
    BY <1>1, <1>2, RepliedIs DEF Reqs, Flows
  <2> HIDE DEF r
  <2>3. Sound(c, r, live, ToSet(waiting), stored', server)
    BY <1>1, <1>2, <1>5, <2>2 DEF ConnType, Sound, Outside, Busy, Letting, Transfer
  <2>4. conn[c].n >= 1
    BY <1>1, <1>2 DEF Sound, Letting
  <2>5. Alone(c, r)
    BY <1>2, <1>5, <2>1, <2>2, <2>3, <2>4 DEF Alone, serverVars, capVars, ServerInv, Typed, Tables
  <2> QED
    BY <2>5
<1> QED
  BY <1>3, <1>4, <1>5 DEF StoreLinks, StoreLink

LEMMA AnswerAlone ==
  ASSUME ServerInv, NEW c \in Conns, Answer(c)
  PROVE  \E r : Alone(c, r)
<1>1. conn[c] \in ConnType /\ Sound(c, conn[c], live, ToSet(waiting), stored, server) /\ MaxRequests[c] \in Nat
  BY RecordIs
<1>2. /\ conn[c].pc = "answer" /\ conn[c].pc \notin Outside /\ UNCHANGED <<serverVars, live, stored>>
      /\ uploads' = IF conn[c].slot THEN uploads - 1 ELSE uploads
  BY DEF Answer, At, Outside
<1>3. told' \in {told, told \union {Transfer(c)}} /\ (told' = told \/ conn[c].n >= 1)
  BY <1>1, <1>2 DEF Answer, Sound
<1>4. ASSUME NEW p \in {"first", "head", "close", "drain"},
             conn' = [conn EXCEPT ![c] = [Returned(c) EXCEPT !.pc = p]],
             \/ p \in {"first", "head"} /\ SetWaiting(c, TRUE)
             \/ p \in {"close", "drain"} /\ UNCHANGED waiting,
             p = "drain" => conn[c].flow = "drain"
      PROVE  \E r : Alone(c, r)
  <2> DEFINE r == [conn[c] EXCEPT !.slot = FALSE, !.status = 0, !.flow = "keep", !.req = "none", !.pc = p]
  <2>1. conn' = [conn EXCEPT ![c] = r]
    BY <1>1, <1>4 DEF Returned, ConnType
  <2>2. r \in ConnType /\ r.peer = conn[c].peer /\ ~r.slot
    <3>1. p \in Pcs /\ "none" \in Reqs /\ "keep" \in Flows
      BY DEF Pcs, Busy, Reqs, Flows
    <3> QED
      BY <1>1, <3>1 DEF ConnType
  <2>3. /\ waiting' \in Seq(Conns) /\ IsInjective(waiting')
        /\ ToSet(waiting') \ {c} = ToSet(waiting) \ {c}
        /\ ToSet(waiting') \subseteq live
        /\ p \in {"first", "head"} => (c \in ToSet(waiting') <=> c \in live)
        /\ p \in {"close", "drain"} => (c \in ToSet(waiting') <=> c \in ToSet(waiting))
    BY <1>4, SetWaitingIs DEF ServerInv, Typed, Tables
  <2>4. Sound(c, r, live, ToSet(waiting'), stored, server)
    BY <1>1, <1>2, <1>4, <2>3 DEF ConnType, Sound, Outside, Busy, Letting
  <2>5. uploads' = IF r.slot = conn[c].slot THEN uploads ELSE IF r.slot THEN uploads + 1 ELSE uploads - 1
    BY <1>1, <1>2, <2>2 DEF ConnType
  <2> HIDE DEF r
  <2>6. Alone(c, r)
    BY <1>2, <1>3, <2>1, <2>2, <2>3, <2>4, <2>5 DEF Alone, serverVars
  <2> QED
    BY <2>6
<1> DEFINE kept == IF conn[c].status = 200 /\ conn[c].req = "ask" THEN "first" ELSE "head"
           left == IF conn[c].flow = "drain" THEN "drain" ELSE "close"
<1>5. \/ SetWaiting(c, TRUE) /\ conn' = [conn EXCEPT ![c] = [Returned(c) EXCEPT !.pc = kept]]
      \/ UNCHANGED waiting /\ conn' = [conn EXCEPT ![c] = [Returned(c) EXCEPT !.pc = left]]
      \/ UNCHANGED waiting /\ conn' = [conn EXCEPT ![c] = [Returned(c) EXCEPT !.pc = "close"]]
  BY DEF Answer
<1>6. kept \in {"first", "head"} /\ left \in {"close", "drain"} /\ (left = "drain" => conn[c].flow = "drain")
  OBVIOUS
<1> HIDE DEF kept, left
<1> QED
  BY <1>4, <1>5, <1>6

LEMMA UploadCheckAlone ==
  ASSUME ServerInv, NEW c \in Conns, UploadCheck(c)
  PROVE  \E r : Alone(c, r)
<1>1. conn[c] \in ConnType /\ Sound(c, conn[c], live, ToSet(waiting), stored, server) /\ MaxRequests[c] \in Nat
  BY RecordIs
<1>2. /\ conn[c].pc = "head" /\ conn[c].pc \notin Outside /\ conn[c].n < MaxRequests[c] /\ Request(c)
      /\ UNCHANGED <<serverVars, capVars, uploads, stored, told>>
  BY DEF UploadCheck, Request, At, Outside
<1>3. ASSUME conn' = [conn EXCEPT ![c].pc = "slot", ![c].req = "upload", ![c].n = @ + 1]
      PROVE  \E r : Alone(c, r)
  <2> DEFINE r == [conn[c] EXCEPT !.pc = "slot", !.req = "upload", !.n = @ + 1]
  <2>1. conn' = [conn EXCEPT ![c] = r]
    BY <1>3 DEF ServerInv, Typed, ConnType
  <2>2. r \in ConnType /\ r.peer = conn[c].peer /\ r.slot = conn[c].slot
    <3>1. "slot" \in Pcs /\ "upload" \in Reqs
      BY DEF Pcs, Reqs
    <3>2. conn[c].n + 1 \in Nat
      BY <1>1 DEF ConnType
    <3> QED
      BY <1>1, <3>1, <3>2 DEF ConnType
  <2>3. Sound(c, r, live, ToSet(waiting), stored, server)
    BY <1>1, <1>2 DEF ConnType, Sound, Outside, Busy, Letting
  <2> HIDE DEF r
  <2>4. Alone(c, r)
    BY <1>2, <2>1, <2>2, <2>3, QuietAlone
  <2> QED
    BY <2>4
<1>4. ASSUME NEW status \in {403, 415}, Reply(c, "upload", status, "close")
      PROVE  \E r : Alone(c, r)
  BY <1>2, <1>4, AnswersAlone
<1> QED
  BY <1>3, <1>4 DEF UploadCheck

LEMMA TakeSlotAlone ==
  ASSUME ServerInv, NEW c \in Conns, TakeSlot(c)
  PROVE  \E r : Alone(c, r)
<1>1. conn[c] \in ConnType /\ Sound(c, conn[c], live, ToSet(waiting), stored, server) /\ MaxRequests[c] \in Nat
  BY RecordIs
<1>2. /\ conn[c].pc = "slot" /\ conn[c].pc \notin Outside
      /\ UNCHANGED <<serverVars, capVars, stored, told>>
  BY DEF TakeSlot, At, Outside
<1>3. ASSUME uploads < MaxUploads, uploads' = uploads + 1,
             conn' = [conn EXCEPT ![c].slot = TRUE, ![c].pc = "mark"]
      PROVE  \E r : Alone(c, r)
  <2> DEFINE r == [conn[c] EXCEPT !.slot = TRUE, !.pc = "mark"]
  <2>1. conn' = [conn EXCEPT ![c] = r]
    BY <1>3 DEF ServerInv, Typed, ConnType
  <2>2. r \in ConnType /\ r.peer = conn[c].peer /\ r.slot = TRUE
    <3>1. "mark" \in Pcs
      BY DEF Pcs
    <3> QED
      BY <1>1, <3>1 DEF ConnType
  <2>3. Sound(c, r, live, ToSet(waiting), stored, server)
    BY <1>1, <1>2 DEF ConnType, Sound, Outside, Busy, Letting
  <2>4. conn[c].slot = FALSE
    BY <1>1, <1>2 DEF Sound, ConnType
  <2>5. uploads' = IF r.slot = conn[c].slot THEN uploads ELSE IF r.slot THEN uploads + 1 ELSE uploads - 1
    BY <1>3, <2>2, <2>4
  <2> HIDE DEF r
  <2>6. Alone(c, r)
    BY <1>2, <1>3, <2>1, <2>2, <2>3, <2>5 DEF Alone, serverVars, capVars, ServerInv, Typed, Tables
  <2> QED
    BY <2>6
<1>4. CASE UNCHANGED uploads /\ Reply(c, "upload", 503, "close")
  BY <1>2, <1>4, AnswersAlone
<1> QED
  BY <1>3, <1>4 DEF TakeSlot

LEMMA MarkBusyAlone ==
  ASSUME ServerInv, NEW c \in Conns, MarkBusy(c)
  PROVE  \E r : Alone(c, r)
<1>1. conn[c] \in ConnType /\ Sound(c, conn[c], live, ToSet(waiting), stored, server) /\ MaxRequests[c] \in Nat
  BY RecordIs
<1>2. /\ conn[c].pc = "mark" /\ conn[c].pc \notin Outside /\ SetWaiting(c, FALSE) /\ Go(c, "plan")
      /\ UNCHANGED <<serverVars, live, uploads, stored, told>>
  BY DEF MarkBusy, At, Outside
<1> DEFINE r == Moved(c, "plan")
<1>3. conn' = [conn EXCEPT ![c] = r]
  BY <1>2, GoIs
<1>4. r \in ConnType /\ r.peer = conn[c].peer /\ r.slot = conn[c].slot
  <2>1. "plan" \in Pcs
    BY DEF Pcs, Busy
  <2> QED
    BY <1>1, <2>1 DEF ConnType, Moved
<1>5. /\ waiting' \in Seq(Conns) /\ IsInjective(waiting')
      /\ ToSet(waiting') \ {c} = ToSet(waiting) \ {c}
      /\ ToSet(waiting') \subseteq live
      /\ c \notin ToSet(waiting')
  BY <1>2, SetWaitingIs
<1>6. Sound(c, r, live, ToSet(waiting'), stored, server)
  BY <1>1, <1>2, <1>5 DEF ConnType, Sound, Outside, Busy, Letting, Moved
<1> HIDE DEF r
<1>7. Alone(c, r)
  BY <1>2, <1>3, <1>4, <1>5, <1>6 DEF Alone, serverVars
<1> QED
  BY <1>7

LEMMA PlanAlone ==
  ASSUME ServerInv, NEW c \in Conns, Plan(c)
  PROVE  \E r : Alone(c, r)
<1>1. conn[c].pc = "plan" /\ UNCHANGED <<serverVars, capVars, uploads, stored, told>>
  BY DEF Plan, At
<1>2. \/ \E status \in {400, 413, 507} : Reply(c, "upload", status, "close")
      \/ Go(c, "extract")
  BY DEF Plan, ReceiveBudget, BodyPlan
<1> QED
  BY <1>1, <1>2, AnswersAlone, MovesAlone

LEMMA ExtractAlone ==
  ASSUME ServerInv, NEW c \in Conns, Extract(c)
  PROVE  \E r : Alone(c, r)
<1>1. conn[c] \in ConnType /\ Sound(c, conn[c], live, ToSet(waiting), stored, server) /\ MaxRequests[c] \in Nat
  BY RecordIs
<1>2. /\ conn[c].pc = "extract" /\ conn[c].pc \notin Outside
      /\ UNCHANGED <<serverVars, capVars, uploads, told>>
  BY DEF Extract, At, Outside
<1>3. conn[c].n >= 1
  BY <1>1, <1>2 DEF Sound, Letting
<1>4. ASSUME NEW r \in ConnType, conn' = [conn EXCEPT ![c] = r], stored' = stored \union {Transfer(c)},
             r.peer = conn[c].peer, r.slot = conn[c].slot, r.shut = conn[c].shut, r.cert = conn[c].cert,
             r.contactsOk = conn[c].contactsOk, r.n = conn[c].n,
             \/ r.pc = "answer" /\ r.flow = "close"
             \/ r.pc = "release" /\ r.flow = conn[c].flow
      PROVE  Alone(c, r)
  <2>1. Sound(c, r, live, ToSet(waiting), stored', server)
    BY <1>1, <1>2, <1>4 DEF ConnType, Sound, Outside, Busy, Letting, Transfer
  <2> QED
    BY <1>2, <1>3, <1>4, <2>1 DEF Alone, serverVars, capVars, ServerInv, Typed, Tables
<1>5. ASSUME stored' = stored \union {Transfer(c)}, Reply(c, "upload", 200, "close")
      PROVE  \E r : Alone(c, r)
  <2> DEFINE r == Replied(c, "upload", 200, "close")
  <2>1. conn' = [conn EXCEPT ![c] = r]
    BY <1>5, ReplyIs
  <2>2. /\ r \in ConnType /\ r.peer = conn[c].peer /\ r.slot = conn[c].slot /\ r.shut = conn[c].shut
        /\ r.cert = conn[c].cert /\ r.contactsOk = conn[c].contactsOk
        /\ r.pc = "answer" /\ r.flow = "close" /\ r.n = conn[c].n
    BY <1>1, <1>2, RepliedIs DEF Reqs, Flows
  <2> HIDE DEF r
  <2> QED
    BY <1>4, <1>5, <2>1, <2>2
<1>6. ASSUME stored' = stored \union {Transfer(c)}, Go(c, "release")
      PROVE  \E r : Alone(c, r)
  <2> DEFINE r == Moved(c, "release")
  <2>1. conn' = [conn EXCEPT ![c] = r]
    BY <1>6, GoIs
  <2>2. "release" \in Pcs
    BY DEF Pcs, Busy
  <2>3. /\ r \in ConnType /\ r.peer = conn[c].peer /\ r.slot = conn[c].slot /\ r.shut = conn[c].shut
        /\ r.cert = conn[c].cert /\ r.contactsOk = conn[c].contactsOk
        /\ r.pc = "release" /\ r.flow = conn[c].flow /\ r.n = conn[c].n
    BY <1>1, <2>2 DEF ConnType, Moved
  <2> HIDE DEF r
  <2> QED
    BY <1>4, <1>6, <2>1, <2>3
<1>7. CASE UNCHANGED stored /\ Reply(c, "upload", 422, "close")
  BY <1>2, <1>7, AnswersAlone
<1> QED
  BY <1>5, <1>6, <1>7 DEF Extract

LEMMA ReleaseAlone ==
  ASSUME ServerInv, NEW c \in Conns, Release(c)
  PROVE  \E r : Alone(c, r)
<1>1. conn[c] \in ConnType /\ Sound(c, conn[c], live, ToSet(waiting), stored, server) /\ MaxRequests[c] \in Nat
  BY RecordIs
<1>2. /\ conn[c].pc = "release" /\ conn[c].pc \notin Outside /\ uploads' = uploads - 1
      /\ UNCHANGED <<serverVars, capVars, stored, told>>
  BY DEF Release, At, Outside
<1> DEFINE r == [conn[c] EXCEPT !.slot = FALSE, !.pc = "answer", !.status = 200, !.flow = "drain"]
<1>3. conn' = [conn EXCEPT ![c] = r]
  BY DEF Release, ServerInv, Typed, ConnType
<1>4. r \in ConnType /\ r.peer = conn[c].peer /\ r.slot = FALSE
  <2>1. "answer" \in Pcs /\ "drain" \in Flows /\ 200 \in Nat
    BY DEF Pcs, Busy, Flows
  <2> QED
    BY <1>1, <2>1 DEF ConnType
<1>5. Sound(c, r, live, ToSet(waiting), stored, server)
  BY <1>1, <1>2 DEF ConnType, Sound, Outside, Busy, Letting
<1>6. conn[c].slot = TRUE
  BY <1>1, <1>2 DEF ConnType, Sound
<1>7. uploads' = IF r.slot = conn[c].slot THEN uploads ELSE IF r.slot THEN uploads + 1 ELSE uploads - 1
  BY <1>2, <1>4, <1>6
<1> HIDE DEF r
<1>8. Alone(c, r)
  BY <1>2, <1>3, <1>4, <1>5, <1>7 DEF Alone, serverVars, capVars, ServerInv, Typed, Tables
<1> QED
  BY <1>8

\* Close and Panic: the Forget guard, and the slot if the handler still held one.
LEMMA ForgetAlone ==
  ASSUME ServerInv, NEW c \in Conns, conn[c].pc \notin Outside,
         conn' = [conn EXCEPT ![c] = Ended], live' = live \ {c}, waiting' = Without(waiting, c),
         uploads' = IF conn[c].slot THEN uploads - 1 ELSE uploads,
         UNCHANGED <<serverVars, stored, told>>
  PROVE  \E r : Alone(c, r)
<1>1. conn[c] \in ConnType /\ Sound(c, conn[c], live, ToSet(waiting), stored, server) /\ MaxRequests[c] \in Nat
  BY RecordIs
<1>2. /\ waiting' \in Seq(Conns) /\ IsInjective(waiting')
      /\ ToSet(waiting') = ToSet(waiting) \ {c} /\ ToSet(waiting') \subseteq live'
  BY ForgetIs
<1>3. Ended \in ConnType /\ Ended.slot = FALSE
  <2>1. "ended" \in Pcs /\ NoAccount \in PeersAndNone /\ "none" \in Reqs /\ "keep" \in Flows /\ 0 \in 0..MaxLinks
    BY ReceiverConstants DEF Pcs, Outside, PeersAndNone, Reqs, Flows
  <2> QED
    BY <2>1 DEF Ended, NoConn, ConnType
<1>4. Sound(c, Ended, live', ToSet(waiting'), stored, server)
  BY <1>1, <1>2 DEF Ended, NoConn, Sound, Outside, Busy, Letting
<1>5. uploads' = IF Ended.slot = conn[c].slot THEN uploads ELSE IF Ended.slot THEN uploads + 1 ELSE uploads - 1
  BY <1>1, <1>3 DEF ConnType
<1>6. Alone(c, Ended)
  BY <1>1, <1>2, <1>3, <1>4, <1>5 DEF Alone, serverVars
<1> QED
  BY <1>6

LEMMA StepAlone ==
  ASSUME ServerInv, NEW c \in Conns, Step(c)
  PROVE  \E r : Alone(c, r)
<1>1. ASSUME Other(c) PROVE \E r : Alone(c, r)
  <2>1. PICK f \in {"keep", "close"} : Reply(c, "other", 400, f)
    BY <1>1 DEF Other
  <2> QED
    BY <1>1, <2>1, AnswersAlone DEF Other
<1>2. ASSUME Discover(c) PROVE \E r : Alone(c, r)
  <2>1. PICK status \in {401, 200} : Reply(c, "discover", status, "keep")
    BY <1>2 DEF Discover
  <2> QED
    BY <1>2, <2>1, AnswersAlone DEF Discover
<1>3. ASSUME FirstByte(c) \/ NoRequest(c) \/ Drain(c) PROVE \E r : Alone(c, r)
  BY <1>3, MovesAlone DEF FirstByte, NoRequest, Drain, At
<1>4. ASSUME Close(c) PROVE \E r : Alone(c, r)
  <2>1. conn[c].pc = "close" /\ ~conn[c].slot
    BY <1>4, RecordIs DEF Close, At, Sound
  <2>2. conn[c].pc \notin Outside
    BY <2>1 DEF Outside
  <2> QED
    BY <1>4, <2>1, <2>2, ForgetAlone DEF Close
<1>5. ASSUME Panic(c) PROVE \E r : Alone(c, r)
  <2>1. conn[c].pc \notin Outside
    BY <1>5 DEF Panic, Outside
  <2> QED
    BY <1>5, <2>1, ForgetAlone DEF Panic
<1> QED
  BY <1>1, <1>2, <1>3, <1>4, <1>5, HandshakeAlone, AskDecideAlone, StoreLinksAlone, AnswerAlone,
     UploadCheckAlone, TakeSlotAlone, MarkBusyAlone, PlanAlone, ExtractAlone, ReleaseAlone DEF Step

-----------------------------------------------------------------------------
(* The accepting thread and the receiver's own steps. *)

\* A connection is let into the table or refused after the one in V, the head of
\* the queue, was shut down.
LEMMA AdmitKeeps ==
  ASSUME ServerInv, NEW c \in Conns, NEW p \in Peers[c], conn[c].pc = "free", server \in {"up", "reset"},
         NEW V, NEW queue,
         \/ V = {} /\ queue = waiting
         \/ V = {Head(waiting)} /\ waiting # <<>> /\ queue = Tail(waiting),
         NEW k \in ConnType, NEW new \in {{}, {c}},
         \/ new = {} /\ k = Refused /\ waiting' = queue
         \/ new = {c} /\ k = [conn[c] EXCEPT !.pc = "handshake", !.peer = p] /\ waiting' = Append(queue, c),
         live' = (live \ V) \union new,
         new = {c} => /\ Cardinality(live \ V) < MaxConnections
                      /\ Cardinality(FromPeer(p)) < MaxPerPeer,
         conn' = [d \in Conns |-> CASE d = c   -> k
                                    [] d \in V -> [conn[d] EXCEPT !.shut = TRUE]
                                    [] OTHER   -> conn[d]],
         UNCHANGED <<serverVars, uploads, stored, told>>
  PROVE  ServerInv'
<1>1. /\ Typed /\ Tables /\ Slots /\ AllSound
      /\ live \subseteq Conns /\ waiting \in Seq(Conns) /\ IsInjective(waiting) /\ ToSet(waiting) \subseteq live
      /\ IsFiniteSet(live)
  BY DEF ServerInv, Typed, Tables
<1>2. conn[c] \in ConnType /\ Sound(c, conn[c], live, ToSet(waiting), stored, server)
  BY RecordIs
<1>3. c \notin live /\ ~conn[c].slot /\ ~conn[c].shut /\ ~conn[c].contactsOk /\ conn[c].n = 0 /\ conn[c].flow = "keep"
  BY <1>2 DEF Sound, Outside
<1>4. /\ queue \in Seq(Conns) /\ IsInjective(queue) /\ ToSet(queue) = ToSet(waiting) \ V
      /\ V \subseteq ToSet(waiting)
  <2>1. CASE V = {} /\ queue = waiting
    BY <1>1, <2>1
  <2>2. CASE V = {Head(waiting)} /\ waiting # <<>> /\ queue = Tail(waiting)
    BY <1>1, <2>2, TailIs
  <2> QED
    BY <2>1, <2>2
<1>5. /\ waiting' \in Seq(Conns) /\ IsInjective(waiting') /\ ToSet(waiting') = (ToSet(waiting) \ V) \union new
  <2>1. CASE new = {}
    BY <1>4, <2>1
  <2>2. CASE new = {c}
    <3>1. c \notin ToSet(queue) /\ waiting' = Append(queue, c)
      BY <1>1, <1>3, <1>4, <2>2
    <3> QED
      BY <1>4, <2>2, <3>1, AppendIs
  <2> QED
    BY <2>1, <2>2
<1>6. V \subseteq live /\ c \notin V
  BY <1>1, <1>3, <1>4
<1>7. /\ k.slot = FALSE /\ k.shut = FALSE /\ k.contactsOk = FALSE /\ k.n = 0 /\ k.flow = "keep"
      /\ new = {} => k.pc = "refused"
      /\ new = {c} => k.pc = "handshake" /\ k.peer = p
  <2>1. CASE new = {}
    <3>1. k = Refused /\ {} # {c}
      BY <2>1
    <3> QED
      BY <2>1, <3>1 DEF Refused, NoConn
  <2>2. CASE new = {c}
    <3>1. k = [conn[c] EXCEPT !.pc = "handshake", !.peer = p] /\ {} # {c}
      BY <2>2
    <3> QED
      BY <1>2, <1>3, <2>2, <3>1 DEF ConnType
  <2> QED
    BY <2>1, <2>2
<1>8. /\ conn' \in [Conns -> ConnType] /\ conn'[c] = k
      /\ \A d \in Conns \ ({c} \union V) : conn'[d] = conn[d]
      /\ \A d \in V : conn'[d] = [conn[d] EXCEPT !.shut = TRUE]
      /\ \A d \in Conns \ {c} : conn'[d].peer = conn[d].peer /\ conn'[d].slot = conn[d].slot
  <2>1. \A d \in Conns : conn[d] \in ConnType /\ [conn[d] EXCEPT !.shut = TRUE] \in ConnType
    BY <1>1 DEF Typed, ConnType
  <2>2. \A d \in Conns : /\ [conn[d] EXCEPT !.shut = TRUE].peer = conn[d].peer
                         /\ [conn[d] EXCEPT !.shut = TRUE].slot = conn[d].slot
    BY <2>1 DEF ConnType
  <2> QED
    BY <1>1, <1>6, <2>1, <2>2
<1>9. Typed'
  <2>1. live' \subseteq Conns
    BY <1>1
  <2> QED
    BY <1>1, <1>5, <1>8, <2>1 DEF Typed, serverVars
<1>10. Tables'
  <2>1. /\ IsFiniteSet(live \ V) /\ Cardinality(live \ V) <= Cardinality(live)
        /\ Cardinality(live \ V) \in Nat /\ Cardinality(live) \in Nat /\ Cardinality(live) <= MaxConnections
        /\ MaxConnections \in Nat
    BY <1>1, FS_Subset, FS_CardinalityType, ReceiverConstants DEF Tables
  <2>2. IsFiniteSet(live') /\ Cardinality(live') <= MaxConnections
    <3>1. CASE new = {}
      <4>1. live' = live \ V
        BY <3>1
      <4>2. IsFiniteSet(live') /\ Cardinality(live') = Cardinality(live \ V)
        BY <2>1, <4>1, Zenon
      <4> QED
        BY <2>1, <4>2
    <3>2. CASE new = {c}
      <4>1. live' = (live \ V) \union {c} /\ Cardinality(live \ V) < MaxConnections
        BY <3>2
      <4>2. /\ IsFiniteSet((live \ V) \union {c})
            /\ Cardinality((live \ V) \union {c}) \in {Cardinality(live \ V), Cardinality(live \ V) + 1}
        BY <2>1, FS_AddElement
      <4>3. /\ IsFiniteSet(live')
            /\ Cardinality(live') = Cardinality((live \ V) \union {c})
        BY <4>1, <4>2, Zenon
      <4> QED
        BY <2>1, <4>1, <4>2, <4>3
    <3> QED
      BY <3>1, <3>2
  <2>3. ASSUME NEW q \in UNION {Peers[d] : d \in Conns} PROVE Cardinality(FromPeer(q)') <= MaxPerPeer
    <3>1. FromPeer(q) \subseteq live /\ IsFiniteSet(FromPeer(q)) /\ Cardinality(FromPeer(q)) \in Nat
      BY <1>1, FS_Subset, FS_CardinalityType DEF FromPeer
    <3>2. Cardinality(FromPeer(q)) <= MaxPerPeer
      BY <1>1 DEF Tables
    <3>3. CASE new = {c} /\ q = p
      <4>1. FromPeer(q)' \subseteq FromPeer(q) \union {c} /\ Cardinality(FromPeer(q)) < MaxPerPeer
        BY <1>1, <1>3, <1>8, <3>3 DEF FromPeer
      <4>2. /\ IsFiniteSet(FromPeer(q) \union {c})
            /\ Cardinality(FromPeer(q) \union {c}) \in {Cardinality(FromPeer(q)), Cardinality(FromPeer(q)) + 1}
        BY <3>1, FS_AddElement
      <4>3. Cardinality(FromPeer(q)') <= Cardinality(FromPeer(q) \union {c}) /\ Cardinality(FromPeer(q)') \in Nat
           /\ Cardinality(FromPeer(q) \union {c}) \in Nat
        BY <4>1, <4>2, FS_Subset, FS_CardinalityType
      <4> QED
        BY <3>1, <4>1, <4>2, <4>3, ReceiverConstants
    <3>4. CASE ~(new = {c} /\ q = p)
      <4>1. ASSUME NEW d \in FromPeer(q)' PROVE d \in FromPeer(q)
        <5>1. d \in live' /\ conn'[d].peer = q
          BY DEF FromPeer
        <5>2. d # c
          BY <1>3, <1>7, <1>8, <3>4, <5>1
        <5> QED
          BY <1>1, <1>8, <5>1, <5>2 DEF FromPeer
      <4>2. Cardinality(FromPeer(q)') <= Cardinality(FromPeer(q)) /\ Cardinality(FromPeer(q)') \in Nat
        BY <3>1, <4>1, FS_Subset, FS_CardinalityType
      <4> QED
        BY <3>1, <3>2, <4>2, ReceiverConstants
    <3> QED
      BY <3>3, <3>4
  <2>4. ToSet(waiting') \subseteq live'
    BY <1>1, <1>5
  <2> QED
    BY <1>5, <2>2, <2>3, <2>4 DEF Tables
<1>11. Slots'
  <2>1. SlotHolders' = SlotHolders
    BY <1>3, <1>7, <1>8 DEF SlotHolders
  <2> QED
    BY <1>1, <2>1 DEF Slots
<1>12. AllSound'
  <2> SUFFICES ASSUME NEW d \in Conns
               PROVE  Sound(d, conn'[d], live', ToSet(waiting'), stored, server)
    BY DEF AllSound, serverVars
  <2>1. Sound(d, conn[d], live, ToSet(waiting), stored, server) /\ conn[d] \in ConnType /\ MaxRequests[d] \in Nat
    BY RecordIs
  <2>2. CASE d = c
    <3>1. CASE new = {}
      BY <1>3, <1>5, <1>6, <1>7, <1>8, <2>1, <2>2, <3>1 DEF Sound, Outside, Busy, Letting
    <3>2. CASE new = {c}
      BY <1>3, <1>5, <1>6, <1>7, <1>8, <2>1, <2>2, <3>2 DEF Sound, Outside, Busy, Letting
    <3> QED
      BY <3>1, <3>2
  <2>3. CASE d \in V
    <3>1. d \notin live' /\ d \notin ToSet(waiting') /\ d \in live /\ conn'[d] = [conn[d] EXCEPT !.shut = TRUE]
      BY <1>5, <1>6, <1>8, <2>3
    <3> QED
      BY <2>1, <3>1 DEF Sound, ConnType, Outside, Busy, Letting
  <2>4. CASE d \notin V /\ d # c
    <3>1. /\ conn'[d] = conn[d] /\ (d \in live' <=> d \in live)
          /\ (d \in ToSet(waiting') <=> d \in ToSet(waiting))
      BY <1>5, <1>8, <2>4
    <3> QED
      BY <2>1, <3>1 DEF Sound, ConnType
  <2> QED
    BY <2>2, <2>3, <2>4
<1> QED
  BY <1>9, <1>10, <1>11, <1>12 DEF ServerInv

LEMMA RefusedIs ==
  Refused \in ConnType /\ Ended \in ConnType /\ NoConn \in ConnType
<1>1. /\ "ended" \in Pcs /\ "refused" \in Pcs /\ "free" \in Pcs
      /\ NoAccount \in PeersAndNone /\ "none" \in Reqs /\ "keep" \in Flows /\ 0 \in 0..MaxLinks
  BY ReceiverConstants DEF Pcs, Outside, PeersAndNone, Reqs, Flows
<1> QED
  BY <1>1 DEF Refused, Ended, NoConn, ConnType

LEMMA AcceptKeeps ==
  ASSUME ServerInv, NEW c \in Conns, NEW p \in Peers[c], Accept(c, p)
  PROVE  ServerInv'
<1> DEFINE full    == Cardinality(live) >= MaxConnections
           victims == IF full /\ waiting # <<>> THEN {Head(waiting)} ELSE {}
           room    == live \ victims
           queue   == IF victims = {} THEN waiting ELSE Tail(waiting)
           k       == [conn[c] EXCEPT !.pc = "handshake", !.peer = p]
           Becomes(r, V) == [d \in Conns |-> CASE d = c   -> r
                                               [] d \in V -> [conn[d] EXCEPT !.shut = TRUE]
                                               [] OTHER   -> conn[d]]
<1>1. /\ server \in {"up", "reset"} /\ conn[c].pc = "free"
      /\ UNCHANGED <<serverVars, uploads, stored, told>>
  BY DEF Accept
<1>2. \/ conn' = [conn EXCEPT ![c] = Refused] /\ UNCHANGED capVars
      \/ /\ Cardinality({d \in live : conn[d].peer = p}) < MaxPerPeer /\ ~(full /\ victims = {})
         /\ \/ live' = room \union {c} /\ waiting' = Append(queue, c) /\ conn' = Becomes(k, victims)
            \/ live' = room /\ waiting' = queue /\ conn' = Becomes(Refused, victims)
  BY DEF Accept
<1>3. \/ victims = {} /\ queue = waiting
      \/ victims = {Head(waiting)} /\ waiting # <<>> /\ queue = Tail(waiting)
  OBVIOUS
<1>4. k \in ConnType
  <2>1. "handshake" \in Pcs /\ p \in PeersAndNone
    BY DEF Pcs, PeersAndNone
  <2> QED
    BY <2>1, RecordIs DEF ConnType
<1>5. Typed /\ Tables /\ waiting \in Seq(Conns) /\ IsInjective(waiting) /\ ToSet(waiting) \subseteq live
  BY DEF ServerInv, Typed, Tables
<1>6. ASSUME ~(full /\ victims = {}) PROVE Cardinality(room) < MaxConnections
  <2>1. IsFiniteSet(live) /\ Cardinality(live) \in Nat /\ Cardinality(live) <= MaxConnections /\ MaxConnections \in Nat
    BY <1>5, FS_CardinalityType, ReceiverConstants DEF Tables
  <2>2. CASE ~full
    <3>1. room = live
      BY <2>2
    <3>2. Cardinality(room) = Cardinality(live)
      BY <3>1, Zenon
    <3> QED
      BY <2>1, <2>2, <3>2
  <2>3. CASE full
    <3>1. waiting # <<>> /\ victims = {Head(waiting)}
      BY <1>6, <2>3
    <3>2. Head(waiting) \in live
      BY <1>5, <3>1, TailIs
    <3>3. room = live \ {Head(waiting)}
      BY <3>1
    <3>4. Cardinality(live \ {Head(waiting)}) = Cardinality(live) - 1
      BY <2>1, <3>2, FS_RemoveElement
    <3>5. Cardinality(room) = Cardinality(live \ {Head(waiting)})
      BY <3>3, Zenon
    <3> QED
      BY <2>1, <3>4, <3>5
  <2> QED
    BY <2>2, <2>3
<1>7. {d \in live : conn[d].peer = p} = FromPeer(p)
  BY DEF FromPeer
<1>8. CASE conn' = [conn EXCEPT ![c] = Refused] /\ UNCHANGED capVars
  <2>1. PICK none : none = {}
    OBVIOUS
  <2>2. conn' = Becomes(Refused, none)
    BY <1>5, <1>8, <2>1 DEF Typed
  <2>3. live' = (live \ none) \union none /\ waiting' = waiting /\ none # {c} /\ none \in {{}, {c}}
    BY <1>8, <2>1 DEF capVars
  <2> HIDE DEF full, victims, room, queue, k
  <2> QED
    BY <1>1, <2>1, <2>2, <2>3, RefusedIs, AdmitKeeps
<1>9. CASE /\ Cardinality({d \in live : conn[d].peer = p}) < MaxPerPeer /\ ~(full /\ victims = {})
           /\ live' = room \union {c} /\ waiting' = Append(queue, c) /\ conn' = Becomes(k, victims)
  <2>1. Cardinality(live \ victims) < MaxConnections
    BY <1>6, <1>9
  <2>2. Cardinality(FromPeer(p)) < MaxPerPeer
    BY <1>7, <1>9, Zenon
  <2>3. live' = (live \ victims) \union {c} /\ waiting' = Append(queue, c) /\ conn' = Becomes(k, victims)
    BY <1>9
  <2> HIDE DEF full, victims, room, queue
  <2> QED
    BY <1>1, <1>3, <1>4, <2>1, <2>2, <2>3, AdmitKeeps
<1>10. CASE live' = room /\ waiting' = queue /\ conn' = Becomes(Refused, victims)
  <2>1. live' = (live \ victims) \union {} /\ waiting' = queue /\ conn' = Becomes(Refused, victims)
    BY <1>10
  <2> HIDE DEF full, victims, room, queue, k
  <2> QED
    BY <1>1, <1>3, <2>1, RefusedIs, AdmitKeeps
<1> QED
  BY <1>2, <1>8, <1>9, <1>10

LEMMA EmptyQueue ==
  /\ IsInjective(<<>>) /\ ToSet(<<>>) = {} /\ <<>> \in Seq(Conns)
  /\ IsFiniteSet({}) /\ Cardinality({}) = 0
BY FS_EmptySet DEF IsInjective, ToSet

\* The caps of an empty table, and of one that has just been emptied.
LEMMA EmptyTables ==
  ASSUME live = {}, waiting = <<>>
  PROVE  Tables
<1>1. ASSUME NEW p PROVE FromPeer(p) = {}
  BY DEF FromPeer
<1>2. Cardinality(live) = 0 /\ \A p : Cardinality(FromPeer(p)) = 0
  BY <1>1, EmptyQueue
<1>3. 0 <= MaxConnections /\ 0 <= MaxPerPeer
  BY ReceiverConstants
<1>4. IsFiniteSet(live) /\ IsInjective(waiting) /\ ToSet(waiting) \subseteq live
  BY EmptyQueue
<1> QED
  BY <1>2, <1>3, <1>4 DEF Tables

LEMMA EmptiedTables ==
  ASSUME live' = {}, waiting' = <<>>
  PROVE  Tables'
<1>1. ASSUME NEW p PROVE FromPeer(p)' = {}
  BY DEF FromPeer
<1>2. Cardinality(live') = 0 /\ \A p : Cardinality(FromPeer(p)') = 0
  BY <1>1, EmptyQueue
<1>3. 0 <= MaxConnections /\ 0 <= MaxPerPeer
  BY ReceiverConstants
<1>4. IsFiniteSet(live') /\ IsInjective(waiting') /\ ToSet(waiting') \subseteq live'
  BY EmptyQueue
<1> QED
  BY <1>2, <1>3, <1>4 DEF Tables

LEMMA InitSound ==
  Init => ServerInv
<1> SUFFICES ASSUME Init PROVE ServerInv
  OBVIOUS
<1>1. conn = [c \in Conns |-> NoConn] /\ live = {} /\ waiting = <<>> /\ stored = {} /\ uploads = 0
      /\ server = "up"
  BY DEF Init
<1>2. Typed
  <2>1. vis \in Visibilities /\ certAsked \in BOOLEAN /\ restart \in BOOLEAN
    BY DEF Init
  <2>2. switches \in 0..MaxSwitches /\ uploads \in Nat
    BY ReceiverConstants DEF Init
  <2>3. conn \in [Conns -> ConnType] /\ waiting \in Seq(Conns)
    BY <1>1, RefusedIs, EmptyQueue
  <2>4. told = {}
    BY DEF Init
  <2> QED
    BY <1>1, <2>1, <2>2, <2>3, <2>4 DEF Typed
<1>3. Tables
  BY <1>1, EmptyTables
<1>4. Slots
  <2>1. SlotHolders = {}
    BY <1>1 DEF SlotHolders, NoConn
  <2> QED
    BY <1>1, <2>1, EmptyQueue, ReceiverConstants DEF Slots
<1>5. AllSound
  <2> SUFFICES ASSUME NEW c \in Conns PROVE Sound(c, NoConn, {}, {}, {}, "up")
    BY <1>1, EmptyQueue DEF AllSound
  <2>1. MaxRequests[c] \in Nat
    BY ReceiverConstants
  <2> QED
    BY <2>1 DEF NoConn, Sound, Outside, Busy, Letting
<1> QED
  BY <1>2, <1>3, <1>4, <1>5 DEF ServerInv

LEMMA ExitKeeps ==
  ASSUME ServerInv, Exit
  PROVE  ServerInv'
<1>1. /\ server' = "down" /\ live' = {} /\ waiting' = <<>> /\ uploads' = 0
      /\ conn' = [c \in Conns |-> IF conn[c].pc = "free" THEN conn[c] ELSE Ended]
      /\ UNCHANGED <<vis, certAsked, switches, restart, stored, told>>
  BY DEF Exit
<1>2. Typed'
  BY <1>1, RefusedIs, EmptyQueue DEF ServerInv, Typed
<1>3. Tables'
  BY <1>1, EmptiedTables
<1>4. \A c \in Conns : conn'[c].slot = FALSE
  <2> SUFFICES ASSUME NEW c \in Conns PROVE conn'[c].slot = FALSE
    OBVIOUS
  <2>1. conn[c].pc = "free" => conn[c].slot = FALSE
    BY RecordIs DEF Sound, Outside, ConnType
  <2> QED
    BY <1>1, <2>1 DEF Ended, NoConn
<1>5. Slots'
  <2>1. SlotHolders' = {}
    BY <1>4 DEF SlotHolders
  <2> QED
    BY <1>1, <2>1, EmptyQueue, ReceiverConstants DEF Slots
<1>6. AllSound'
  <2> SUFFICES ASSUME NEW c \in Conns PROVE Sound(c, conn'[c], {}, {}, stored, "down")
    BY <1>1, EmptyQueue DEF AllSound
  <2>1. /\ conn[c] \in ConnType /\ MaxRequests[c] \in Nat
        /\ Sound(c, conn[c], live, ToSet(waiting), stored, server)
    BY RecordIs
  <2>2. CASE conn[c].pc = "free"
    <3>1. conn'[c] = conn[c]
      BY <1>1, <2>2
    <3> QED
      BY <2>1, <2>2, <3>1 DEF Sound, Outside, Busy, Letting
  <2>3. CASE conn[c].pc # "free"
    <3>1. conn'[c] = Ended
      BY <1>1, <2>3
    <3> QED
      BY <2>1, <3>1 DEF Ended, NoConn, Sound, Outside, Busy, Letting
  <2> QED
    BY <2>2, <2>3
<1> QED
  BY <1>2, <1>3, <1>5, <1>6 DEF ServerInv

LEMMA ResetKeeps ==
  ASSUME ServerInv, ResetSessions
  PROVE  ServerInv'
<1>1. /\ server \in {"up", "starting"} /\ server' = "reset" /\ restart' = FALSE /\ live' = {} /\ waiting' = <<>>
      /\ UNCHANGED <<vis, certAsked, switches, uploads, conn, stored, told>>
  BY DEF ResetSessions
<1>2. Typed'
  BY <1>1, EmptyQueue DEF ServerInv, Typed
<1>3. Tables'
  BY <1>1, EmptiedTables
<1>4. Slots'
  BY <1>1 DEF ServerInv, Slots, SlotHolders
<1>5. AllSound'
  <2> SUFFICES ASSUME NEW c \in Conns PROVE Sound(c, conn[c], {}, {}, stored, "reset")
    BY <1>1, EmptyQueue DEF AllSound
  <2>1. Sound(c, conn[c], live, ToSet(waiting), stored, server)
    BY RecordIs
  <2> QED
    BY <2>1 DEF Sound
<1> QED
  BY <1>2, <1>3, <1>4, <1>5 DEF ServerInv

\* Bind, Start, a visibility change and stuttering leave the connections alone.
LEMMA OthersKeep ==
  ASSUME ServerInv, SwitchVisibility \/ Bind \/ Start \/ UNCHANGED vars
  PROVE  ServerInv'
<1>1. UNCHANGED <<live, waiting, uploads, conn, stored, told>>
  BY DEF SwitchVisibility, Bind, Start, vars, capVars
<1>2. Typed'
  <2>1. vis' \in Visibilities /\ restart' \in BOOLEAN /\ server' \in {"up", "reset", "down", "starting"}
    BY DEF ServerInv, Typed, SwitchVisibility, Bind, Start, vars, serverVars
  <2>2. certAsked' \in BOOLEAN
    BY DEF ServerInv, Typed, SwitchVisibility, Bind, Start, vars, serverVars
  <2>3. switches' \in 0..MaxSwitches
    BY ReceiverConstants DEF ServerInv, Typed, SwitchVisibility, Bind, Start, vars, serverVars
  <2> QED
    BY <1>1, <2>1, <2>2, <2>3 DEF ServerInv, Typed
<1>3. Tables'
  BY <1>1 DEF ServerInv, Tables, FromPeer
<1>4. Slots'
  BY <1>1 DEF ServerInv, Slots, SlotHolders
<1>5. AllSound'
  <2> SUFFICES ASSUME NEW c \in Conns PROVE Sound(c, conn[c], live, ToSet(waiting), stored, server')
    BY <1>1 DEF AllSound
  <2>1. Sound(c, conn[c], live, ToSet(waiting), stored, server)
    BY RecordIs
  <2>2. server' = server \/ server \in {"down", "starting"}
    BY DEF SwitchVisibility, Bind, Start, vars, serverVars
  <2> QED
    BY <2>1, <2>2 DEF Sound, Start, Bind, SwitchVisibility
<1> QED
  BY <1>2, <1>3, <1>4, <1>5 DEF ServerInv

LEMMA NextKeeps ==
  ServerInv /\ [Next]_vars => ServerInv'
<1> SUFFICES ASSUME ServerInv, [Next]_vars PROVE ServerInv'
  OBVIOUS
<1> QED
  BY StepAlone, AloneKeeps, AcceptKeeps, ExitKeeps, ResetKeeps, OthersKeep DEF Next

LEMMA ServerInvariant ==
  Spec => []ServerInv
BY InitSound, NextKeeps, PTL DEF Spec

-----------------------------------------------------------------------------
(* The theorems. *)

\* server.rs: every variable keeps its type, and a connection's request number and
\* the links it has left stay within the bounds the requests allow.
THEOREM ReceiverTyping ==
  Spec => []TypeOK
<1>1. ServerInv => TypeOK
  <2> SUFFICES ASSUME ServerInv PROVE TypeOK
    OBVIOUS
  <2>1. uploads \in 0..MaxUploads
    BY ReceiverConstants DEF ServerInv, Typed, Slots
  <2>2. ASSUME NEW c \in Conns
        PROVE  conn[c].pc \in Pcs /\ conn[c].n \in 0..MaxRequests[c] /\ conn[c].left \in 0..MaxLinks
    BY RecordIs DEF ConnType, Sound
  <2> QED
    BY <2>1, <2>2 DEF TypeOK, ServerInv, Typed, Pcs
<1> QED
  BY <1>1, ServerInvariant, PTL

\* contacts.rs decide: whoever may upload in Contacts Only presented, on that
\* connection, a certificate of a known sender.
THEOREM ProvenIsKnownAlways ==
  Spec => []ProvenIsKnown
<1>1. ServerInv => ProvenIsKnown
  BY RecordIs DEF ProvenIsKnown, Sound
<1> QED
  BY <1>1, ServerInvariant, PTL

\* server.rs admit, forget and Slot: for any caps, the table never exceeds them, it
\* names exactly the connections with a thread that were not shut down, and the
\* upload counter is the number of connections that hold a slot.
THEOREM CapsHoldAlways ==
  Spec => []CapsHold
<1>1. ServerInv => CapsHold
  <2> SUFFICES ASSUME ServerInv PROVE CapsHold
    OBVIOUS
  <2>1. ASSUME server = "up" PROVE live = {c \in Conns : conn[c].pc \notin Outside /\ ~conn[c].shut}
    <3>1. \A c \in Conns : c \in live <=> conn[c].pc \notin Outside /\ ~conn[c].shut
      BY <2>1, RecordIs DEF Sound
    <3>2. live \subseteq Conns
      BY DEF ServerInv, Typed
    <3> QED
      BY <3>1, <3>2
  <2>2. \A p \in UNION {Peers[c] : c \in Conns} : Cardinality({c \in live : conn[c].peer = p}) <= MaxPerPeer
    BY DEF ServerInv, Tables, FromPeer
  <2>3. uploads = Cardinality({c \in Conns : conn[c].slot})
    BY DEF ServerInv, Slots, SlotHolders
  <2> QED
    BY <2>1, <2>2, <2>3 DEF CapsHold, ServerInv, Tables
<1> QED
  BY <1>1, ServerInvariant, PTL

\* A connection is shut down only by Accept, and only the head of the queue.
LEMMA ShutIsWaiting ==
  ASSUME ServerInv, [Next]_vars, NEW c \in Conns, ~conn[c].shut, conn'[c].shut
  PROVE  c \in ToSet(waiting)
<1>1. conn[c] \in ConnType /\ waiting \in Seq(Conns) /\ IsInjective(waiting)
  BY RecordIs DEF ServerInv, Typed, Tables
<1>2. CASE Exit
  BY <1>2 DEF Exit, Ended, NoConn
<1>3. ASSUME NEW d \in Conns, Step(d) PROVE FALSE
  <2>1. conn[d] \in ConnType /\ conn \in [Conns -> ConnType]
    BY RecordIs DEF ServerInv, Typed
  <2>2. conn'[d].shut \in {conn[d].shut, FALSE} /\ (c # d => conn'[c] = conn[c])
    <3>1. CASE FirstByte(d) \/ NoRequest(d) \/ Handshake(d)
      <4>1. \/ \E p : Go(d, p)
            \/ \E a : conn' = [conn EXCEPT ![d].pc = "head", ![d].cert = a]
        BY <3>1 DEF Handshake, FirstByte, NoRequest
      <4> QED
        BY <2>1, <4>1 DEF Go, ConnType
    <3>2. CASE Other(d) \/ Discover(d)
      <4>1. \E req, status, flow : Reply(d, req, status, flow)
        BY <3>2 DEF Other, Discover
      <4> QED
        BY <2>1, <4>1 DEF Reply, ConnType
    <3>3. CASE AskDecide(d)
      BY <2>1, <3>3 DEF AskDecide, ConnType
    <3>4. CASE StoreLinks(d)
      BY <2>1, <3>4 DEF StoreLinks, StoreLink, Reply, ConnType
    <3>5. CASE Answer(d)
      <4>1. PICK p : conn' = [conn EXCEPT ![d] = [Returned(d) EXCEPT !.pc = p]]
        BY <3>5 DEF Answer
      <4> QED
        BY <2>1, <4>1 DEF Returned, ConnType
    <3>6. CASE UploadCheck(d) \/ TakeSlot(d)
      BY <2>1, <3>6 DEF UploadCheck, TakeSlot, Reply, ConnType
    <3>7. CASE MarkBusy(d) \/ Drain(d)
      BY <2>1, <3>7 DEF MarkBusy, Drain, Go, ConnType
    <3>8. CASE Plan(d)
      BY <2>1, <3>8 DEF Plan, Reply, Go, ConnType
    <3>9. CASE Extract(d)
      BY <2>1, <3>9 DEF Extract, Reply, Go, ConnType
    <3>10. CASE Release(d)
      BY <2>1, <3>10 DEF Release, ConnType
    <3>11. CASE Close(d) \/ Panic(d)
      BY <2>1, <3>11 DEF Close, Panic, Ended, NoConn
    <3> QED
      BY <1>3, <3>1, <3>2, <3>3, <3>4, <3>5, <3>6, <3>7, <3>8, <3>9, <3>10, <3>11 DEF Step
  <2> QED
    BY <2>2
<1>4. CASE SwitchVisibility \/ ResetSessions \/ Bind \/ Start \/ UNCHANGED vars
  BY <1>4 DEF SwitchVisibility, ResetSessions, Bind, Start, vars
<1>5. ASSUME NEW d \in Conns, NEW p \in Peers[d], Accept(d, p) PROVE c \in ToSet(waiting)
  <2> DEFINE victims == IF Cardinality(live) >= MaxConnections /\ waiting # <<>> THEN {Head(waiting)} ELSE {}
  <2>1. conn[d].pc = "free" /\ conn[d] \in ConnType /\ ~conn[d].shut
    BY <1>5, RecordIs DEF Accept, Sound, Outside
  <2>2. conn'[c] \in {conn[c], Refused, [conn[d] EXCEPT !.pc = "handshake", !.peer = p]} \/ c \in victims
    BY <1>5 DEF Accept, ServerInv, Typed
  <2>3. c \in victims
    BY <2>1, <2>2 DEF Refused, NoConn, ConnType
  <2>4. waiting # <<>> /\ c = Head(waiting)
    BY <2>3
  <2> QED
    BY <1>1, <2>4, TailIs
<1> QED
  BY <1>2, <1>3, <1>4, <1>5 DEF Next

\* server.rs admit and set_waiting: an upload is shut down to make room only between its
\* try_slot and its set_waiting(false), and a peer below its own cap is refused only when
\* every connection is busy.
THEOREM EvictsOnlyUnmarkedAlways ==
  Spec => EvictsOnlyUnmarked
<1> DEFINE Harmless == \A c \in Conns :
             ~conn[c].shut /\ conn'[c].shut /\ (conn[c].slot \/ At(c, "drain")) => At(c, "mark")
           Full == \A c \in Conns : \A p \in Peers[c] :
                     /\ conn[c].pc = "free" /\ conn'[c].pc = "refused" /\ live' = live
                     /\ Cardinality(live) >= MaxConnections
                     /\ Accept(c, p) /\ Cardinality({d \in live : conn[d].peer = p}) < MaxPerPeer
                     => \A d \in live : conn[d].pc \in Busy
<1>1. ASSUME ServerInv, [Next]_vars PROVE Harmless
  <2> SUFFICES ASSUME NEW c \in Conns, ~conn[c].shut, conn'[c].shut, conn[c].slot \/ At(c, "drain")
               PROVE  At(c, "mark")
    OBVIOUS
  <2>1. c \in ToSet(waiting)
    BY <1>1, ShutIsWaiting
  <2> QED
    BY <1>1, <2>1, RecordIs DEF At, Sound
<1>2. ASSUME ServerInv PROVE Full
  <2> SUFFICES ASSUME NEW c \in Conns, NEW p \in Peers[c], Accept(c, p), live' = live,
                      conn[c].pc = "free", conn'[c].pc = "refused",
                      Cardinality(live) >= MaxConnections,
                      Cardinality({d \in live : conn[d].peer = p}) < MaxPerPeer,
                      NEW d \in live
               PROVE  conn[d].pc \in Busy
    OBVIOUS
  <2>1. waiting \in Seq(Conns) /\ IsInjective(waiting) /\ ToSet(waiting) \subseteq live /\ live \subseteq Conns
    BY <1>2 DEF ServerInv, Typed, Tables
  <2>2. waiting = <<>>
    <3> SUFFICES ASSUME waiting # <<>> PROVE FALSE
      OBVIOUS
    <3>1. Head(waiting) \in live
      BY <2>1, TailIs
    <3> DEFINE room == live \ {Head(waiting)}
    <3>2. (IF Cardinality(live) >= MaxConnections /\ waiting # <<>> THEN {Head(waiting)} ELSE {}) = {Head(waiting)}
      OBVIOUS
    <3>3. \/ Cardinality({e \in live : conn[e].peer = p}) >= MaxPerPeer
          \/ {Head(waiting)} = {}
          \/ live' = room \union {c} \/ live' = room
      BY <3>2 DEF Accept
    <3>4. c \notin live
      BY <1>2, RecordIs DEF Sound, Outside
    <3>5. IsFiniteSet({e \in live : conn[e].peer = p})
      BY <1>2, FS_Subset DEF ServerInv, Tables
    <3>6. ~(Cardinality({e \in live : conn[e].peer = p}) >= MaxPerPeer)
      BY <3>5, FS_CardinalityType, ReceiverConstants
    <3> QED
      BY <3>1, <3>3, <3>4, <3>6
  <2>3. d \notin ToSet(waiting)
    BY <2>2, EmptyQueue
  <2> QED
    BY <1>2, <2>1, <2>3, RecordIs DEF Sound
<1>3. ServerInv /\ [Next]_vars => [Harmless /\ Full]_vars
  BY <1>1, <1>2
<1> QED
  BY <1>3, ServerInvariant, PTL DEF Spec, EvictsOnlyUnmarked

-----------------------------------------------------------------------------
(* The receiver implements Delivery. *)

Proven == {c \in Conns : conn[c].contactsOk}

\* The transfers of connection c that a record leaves open.
OpenOf(c, k) == IF k.pc \in Letting THEN {<<c, k.n>>} ELSE {}

LEMMA OpenIs ==
  ASSUME ServerInv
  PROVE  OpenNow = UNION {OpenOf(c, conn[c]) : c \in Conns}
<1>1. ASSUME NEW t \in OpenNow PROVE t \in UNION {OpenOf(c, conn[c]) : c \in Conns}
  <2>1. PICK c \in Conns : \E m \in 1..MaxRequests[c] : t = <<c, m>>
    BY DEF OpenNow, Transfers
  <2>2. t \in OpenOf(c, conn[c])
    BY <2>1 DEF OpenNow, OpenOf, Letting
  <2> QED
    BY <2>2
<1>2. ASSUME NEW c \in Conns, NEW t \in OpenOf(c, conn[c]) PROVE t \in OpenNow
  <2>1. conn[c].pc \in Letting /\ t = <<c, conn[c].n>>
    BY DEF OpenOf
  <2>2. conn[c].n \in 1..MaxRequests[c]
    BY <2>1, RecordIs DEF Sound
  <2>3. t \in Transfers
    BY <2>1, <2>2, TransferIs
  <2> QED
    BY <2>1, <2>3 DEF OpenNow, Letting
<1> QED
  BY <1>1, <1>2

\* A step of connection c alone moves Delivery's state at c alone.
LEMMA AloneMaps ==
  ASSUME ServerInv, ServerInv', NEW c \in Conns, NEW r, Alone(c, r)
  PROVE  /\ r = conn'[c]
         /\ Proven' = (IF r.contactsOk THEN Proven \union {c} ELSE Proven \ {c})
         /\ OpenNow' = (OpenNow \ OpenOf(c, conn[c])) \union OpenOf(c, r)
         /\ OpenOf(c, conn[c]) \subseteq OpenNow
<1>1. conn \in [Conns -> ConnType] /\ conn' = [conn EXCEPT ![c] = r]
  BY DEF ServerInv, Typed, Alone
<1>2. OpenNow = UNION {OpenOf(d, conn[d]) : d \in Conns}
  BY OpenIs
<1>3. OpenNow' = UNION {OpenOf(d, conn'[d]) : d \in Conns}
  <2>1. ASSUME NEW t \in OpenNow' PROVE t \in UNION {OpenOf(d, conn'[d]) : d \in Conns}
    <3>1. PICK d \in Conns : \E m \in 1..MaxRequests[d] : t = <<d, m>>
      BY DEF OpenNow, Transfers
    <3>2. t \in OpenOf(d, conn'[d])
      BY <3>1 DEF OpenNow, OpenOf, Letting
    <3> QED
      BY <3>2
  <2>2. ASSUME NEW d \in Conns, NEW t \in OpenOf(d, conn'[d]) PROVE t \in OpenNow'
    <3>1. conn'[d].pc \in Letting /\ t = <<d, conn'[d].n>>
      BY DEF OpenOf
    <3>2. conn'[d].n \in 0..MaxRequests[d] /\ conn'[d].n >= 1 /\ MaxRequests[d] \in Nat
      BY <3>1, ReceiverConstants DEF ServerInv, AllSound, Sound
    <3>3. t \in Transfers
      BY <3>1, <3>2, TransferIs
    <3> QED
      BY <3>1, <3>3 DEF OpenNow, Letting
  <2> QED
    BY <2>1, <2>2
<1>4. \A d \in Conns : \A t \in OpenOf(d, conn[d]) : t[1] = d
  BY DEF OpenOf
<1>5. \A d \in Conns \ {c} : conn'[d] = conn[d]
  BY <1>1
<1>6. r = conn'[c]
  BY <1>1
<1>7. OpenNow' = (OpenNow \ OpenOf(c, conn[c])) \union OpenOf(c, r)
  <2>1. ASSUME NEW t \in OpenNow' PROVE t \in (OpenNow \ OpenOf(c, conn[c])) \union OpenOf(c, r)
    <3>1. PICK d \in Conns : t \in OpenOf(d, conn'[d])
      BY <1>3
    <3>2. CASE d = c
      BY <1>6, <3>1, <3>2
    <3>3. CASE d # c
      <4>1. t \in OpenOf(d, conn[d])
        BY <1>5, <3>1, <3>3
      <4>2. t \in OpenNow /\ t \notin OpenOf(c, conn[c])
        BY <1>2, <1>4, <3>3, <4>1
      <4> QED
        BY <4>2
    <3> QED
      BY <3>2, <3>3
  <2>2. ASSUME NEW t \in (OpenNow \ OpenOf(c, conn[c])) \union OpenOf(c, r) PROVE t \in OpenNow'
    <3>1. CASE t \in OpenOf(c, r)
      BY <1>3, <1>6, <3>1
    <3>2. CASE t \in OpenNow /\ t \notin OpenOf(c, conn[c])
      <4>1. PICK d \in Conns : t \in OpenOf(d, conn[d])
        BY <1>2, <3>2
      <4>2. d # c /\ t \in OpenOf(d, conn'[d])
        BY <1>5, <3>2, <4>1
      <4> QED
        BY <1>3, <4>2
    <3> QED
      BY <2>2, <3>1, <3>2
  <2> QED
    BY <2>1, <2>2
<1>8. OpenOf(c, conn[c]) \subseteq OpenNow
  BY <1>2
<1>9. Proven' = (IF r.contactsOk THEN Proven \union {c} ELSE Proven \ {c})
  BY <1>5, <1>6 DEF Proven
<1> QED
  BY <1>6, <1>7, <1>8, <1>9

\* What a step of one connection is to Delivery, by what it does to the record.
LEMMA StepMaps ==
  ASSUME ServerInv, ServerInv', NEW c \in Conns, NEW r, Alone(c, r),
         LET k == conn[c] IN
         \/ \* a stutter, or the connection proves itself
            /\ OpenOf(c, r) = OpenOf(c, k) /\ (k.contactsOk => r.contactsOk) /\ UNCHANGED <<stored, told>>
         \/ \* let in
            /\ OpenOf(c, k) = {} /\ r.pc \in Letting /\ r.n = k.n + 1
            /\ vis = "everyone" \/ r.contactsOk
            /\ (k.contactsOk => r.contactsOk) /\ UNCHANGED <<stored, told>>
         \/ \* stored or refused
            /\ k.pc \in Letting /\ OpenOf(c, r) = {} /\ r.contactsOk = k.contactsOk
            /\ stored' \in {stored, stored \union {Transfer(c)}} /\ UNCHANGED told
         \/ \* told
            /\ OpenOf(c, r) = OpenOf(c, k) /\ r.contactsOk = k.contactsOk /\ UNCHANGED stored
            /\ Transfer(c) \in stored /\ told' = told \union {Transfer(c)}
         \/ \* gone
            /\ ~r.contactsOk /\ OpenOf(c, r) = {} /\ UNCHANGED <<stored, told>>
  PROVE  D!DNext \/ UNCHANGED D!dvars
<1> USE DEF Proven
<1>1. /\ Proven' = (IF r.contactsOk THEN Proven \union {c} ELSE Proven \ {c})
      /\ OpenNow' = (OpenNow \ OpenOf(c, conn[c])) \union OpenOf(c, r)
      /\ OpenOf(c, conn[c]) \subseteq OpenNow /\ vis' = vis
  BY AloneMaps DEF Alone, serverVars
<1>2. conn[c] \in ConnType /\ Sound(c, conn[c], live, ToSet(waiting), stored, server) /\ r \in ConnType
  BY RecordIs DEF Alone
<1>3. Proven \subseteq Conns /\ (c \in Proven <=> conn[c].contactsOk)
  OBVIOUS
<1>4. Transfer(c)[1] = c /\ <<c, r.n>>[1] = c
  BY DEF Transfer
<1>5. conn[c].n \in Nat /\ r.n \in Nat
  BY <1>2 DEF ConnType
<1>6. stored \subseteq Transfers /\ stored' \subseteq Transfers
  BY DEF ServerInv, Typed
<1>7. OpenNow \subseteq Transfers /\ OpenNow' \subseteq Transfers
  BY DEF OpenNow
<1> HIDE DEF Proven
<1>8. CASE OpenOf(c, r) = OpenOf(c, conn[c]) /\ (conn[c].contactsOk => r.contactsOk) /\ UNCHANGED <<stored, told>>
  <2>1. OpenNow' = OpenNow
    BY <1>1, <1>8
  <2>2. CASE r.contactsOk
    <3>1. D!Prove(c)
      BY <1>1, <1>8, <2>1, <2>2 DEF D!Prove, Proven
    <3> QED
      BY <3>1 DEF D!DNext
  <2>3. CASE ~r.contactsOk
    <3>1. Proven' = Proven
      BY <1>1, <1>3, <1>8, <2>3
    <3> QED
      BY <1>1, <1>8, <2>1, <3>1 DEF D!dvars, Proven
  <2> QED
    BY <2>2, <2>3
<1>9. CASE /\ OpenOf(c, conn[c]) = {} /\ r.pc \in Letting /\ r.n = conn[c].n + 1
           /\ vis = "everyone" \/ r.contactsOk
           /\ (conn[c].contactsOk => r.contactsOk) /\ UNCHANGED <<stored, told>>
  <2> DEFINE t == <<c, r.n>>
  <2>1. OpenOf(c, r) = {t}
    BY <1>9 DEF OpenOf
  <2>2. OpenNow' = OpenNow \union {t}
    BY <1>1, <1>9, <2>1
  <2>3. t \notin stored
    <3>1. conn[c].pc # "ended"
      BY DEF Alone, Outside
    <3> QED
      BY <1>2, <1>5, <1>9, <3>1 DEF Sound
  <2>4. t \notin OpenNow
    <3>1. ASSUME t \in OpenNow PROVE FALSE
      <4>1. PICK d \in Conns : t \in OpenOf(d, conn[d])
        BY <3>1, OpenIs
      <4>2. d = c
        BY <4>1 DEF OpenOf
      <4> QED
        BY <1>9, <4>1, <4>2
    <3> QED
      BY <3>1
  <2>5. t \in Transfers
    BY <1>7, <2>2
  <2>6. Proven' \in {Proven, Proven \union {c}} /\ (vis = "everyone" \/ c \in Proven')
    BY <1>1, <1>3, <1>9
  <2>7. t[1] = c
    BY <1>4
  <2> HIDE DEF t
  <2>8. D!LetIn(t)
    BY <1>1, <1>9, <2>2, <2>3, <2>4, <2>6, <2>7 DEF D!LetIn, D!ConnOf, Proven
  <2> QED
    BY <2>5, <2>8 DEF D!DNext
<1>10. CASE /\ conn[c].pc \in Letting /\ OpenOf(c, r) = {} /\ r.contactsOk = conn[c].contactsOk
            /\ stored' \in {stored, stored \union {Transfer(c)}} /\ UNCHANGED told
  <2>1. OpenOf(c, conn[c]) = {Transfer(c)}
    BY <1>10 DEF OpenOf, Transfer
  <2>2. OpenNow' = OpenNow \ {Transfer(c)} /\ Transfer(c) \in OpenNow
    BY <1>1, <1>10, <2>1
  <2>3. Proven' = Proven
    BY <1>1, <1>3, <1>10
  <2>4. D!Store(Transfer(c)) \/ D!Refuse(Transfer(c))
    BY <1>1, <1>10, <2>2, <2>3 DEF D!Store, D!Refuse, Proven
  <2> QED
    BY <1>7, <2>2, <2>4 DEF D!DNext
<1>11. CASE /\ OpenOf(c, r) = OpenOf(c, conn[c]) /\ r.contactsOk = conn[c].contactsOk /\ UNCHANGED stored
            /\ Transfer(c) \in stored /\ told' = told \union {Transfer(c)}
  <2>1. OpenNow' = OpenNow /\ Proven' = Proven
    BY <1>1, <1>3, <1>11
  <2>2. D!Tell(Transfer(c))
    BY <1>1, <1>11, <2>1 DEF D!Tell, Proven
  <2> QED
    BY <1>6, <1>11, <2>2 DEF D!DNext
<1>12. CASE ~r.contactsOk /\ OpenOf(c, r) = {} /\ UNCHANGED <<stored, told>>
  <2>1. Proven' = Proven \ {c} /\ OpenNow' = OpenNow \ OpenOf(c, conn[c])
    BY <1>1, <1>12
  <2>2. OpenNow \ OpenOf(c, conn[c]) = {t \in OpenNow : t[1] # c}
    <3>1. \A t \in OpenOf(c, conn[c]) : t[1] = c
      BY DEF OpenOf
    <3>2. ASSUME NEW t \in OpenNow, t[1] = c PROVE t \in OpenOf(c, conn[c])
      <4>1. PICK d \in Conns : t \in OpenOf(d, conn[d])
        BY OpenIs
      <4>2. t[1] = d
        BY <4>1 DEF OpenOf
      <4> QED
        BY <3>2, <4>1, <4>2
    <3> QED
      BY <3>1, <3>2
  <2>3. D!Leave(c)
    BY <1>1, <1>12, <2>1, <2>2 DEF D!Leave, D!ConnOf, Proven
  <2> QED
    BY <2>3 DEF D!DNext
<1> QED
  BY <1>8, <1>9, <1>10, <1>11, <1>12

LEMMA StepRefines ==
  ASSUME ServerInv, NEW c \in Conns, Step(c)
  PROVE  D!DNext \/ UNCHANGED D!dvars
<1>1. PICK r : Alone(c, r)
  BY StepAlone
<1>2. ServerInv' /\ r = conn'[c] /\ r \in ConnType
  BY <1>1, AloneKeeps, AloneMaps DEF Alone
<1>3. conn \in [Conns -> ConnType] /\ conn[c] \in ConnType
  BY DEF ServerInv, Typed
<1>4. ASSUME OpenOf(c, r) = OpenOf(c, conn[c]), conn[c].contactsOk => r.contactsOk, UNCHANGED <<stored, told>>
      PROVE  D!DNext \/ UNCHANGED D!dvars
  BY <1>1, <1>2, <1>4, StepMaps
<1>5. ASSUME conn[c].pc \notin Letting, r.pc \notin Letting, r.contactsOk = conn[c].contactsOk,
             UNCHANGED <<stored, told>>
      PROVE  D!DNext \/ UNCHANGED D!dvars
  BY <1>4, <1>5 DEF OpenOf
<1>6. ASSUME conn[c].pc \in Letting, r.pc \notin Letting, r.contactsOk = conn[c].contactsOk,
             stored' \in {stored, stored \union {Transfer(c)}}, UNCHANGED told
      PROVE  D!DNext \/ UNCHANGED D!dvars
  BY <1>1, <1>2, <1>6, StepMaps DEF OpenOf
<1>7. ASSUME NEW req, NEW status, NEW flow, Reply(c, req, status, flow)
      PROVE  r.pc \notin Letting /\ r.contactsOk = conn[c].contactsOk
  BY <1>2, <1>3, <1>7 DEF Reply, ConnType, Letting
<1>8. ASSUME NEW p, Go(c, p)
      PROVE  r.pc = p /\ r.contactsOk = conn[c].contactsOk /\ r.n = conn[c].n
  BY <1>2, <1>3, <1>8 DEF Go, ConnType
<1>9. CASE Handshake(c)
  <2>1. conn[c].pc = "handshake" /\ UNCHANGED <<stored, told>>
    BY <1>9 DEF Handshake, At
  <2>2. \/ Go(c, "close")
        \/ \E a : conn' = [conn EXCEPT ![c].pc = "head", ![c].cert = a]
    BY <1>9 DEF Handshake
  <2>3. r.pc \in {"head", "close"} /\ r.contactsOk = conn[c].contactsOk
    BY <1>2, <1>3, <1>8, <2>2 DEF ConnType
  <2> QED
    BY <1>5, <2>1, <2>3 DEF Letting
<1>10. CASE FirstByte(c) \/ NoRequest(c) \/ Drain(c)
  <2>1. conn[c].pc \notin Letting /\ UNCHANGED <<stored, told>> /\ (Go(c, "close") \/ Go(c, "head"))
    BY <1>10 DEF FirstByte, NoRequest, Drain, At, Letting
  <2>2. r.pc \notin Letting /\ r.contactsOk = conn[c].contactsOk
    BY <1>8, <2>1 DEF Letting
  <2> QED
    BY <1>5, <2>1, <2>2
<1>11. CASE Other(c) \/ Discover(c)
  <2>1. /\ conn[c].pc \notin Letting /\ UNCHANGED <<stored, told>>
        /\ \E req, status, flow : Reply(c, req, status, flow)
    BY <1>11 DEF Other, Discover, Request, At, Letting
  <2> QED
    BY <1>5, <1>7, <2>1
<1>12. CASE AskDecide(c)
  <2>1. conn[c].pc = "head" /\ UNCHANGED <<stored, told>>
    BY <1>12 DEF AskDecide, Request, At
  <2>2. /\ r.n = conn[c].n + 1 /\ r.pc \in {"store", "answer"} /\ (conn[c].contactsOk => r.contactsOk)
        /\ r.pc = "store" => vis = "everyone" \/ r.contactsOk
    <3>1. PICK kind \in Kinds[c] \intersect {"ask", "links"}, record \in Accounts \union {NoAccount}, i \in 0..MaxLinks :
            LET accepted == vis = "everyone" \/ Decide(record, conn[c].cert) = "accept"
                proves   == conn[c].contactsOk \/ (vis = "contacts" /\ accepted)
            IN  conn' = [conn EXCEPT ![c].req = kind, ![c].n = @ + 1,
                           ![c].contactsOk = proves,
                           ![c].pc     = IF accepted /\ kind = "links" THEN "store" ELSE "answer",
                           ![c].left   = IF accepted /\ kind = "links" THEN i ELSE 0,
                           ![c].status = IF ~accepted THEN 403 ELSE IF kind = "ask" THEN 200 ELSE 0]
      BY <1>12 DEF AskDecide
    <3> DEFINE accepted == vis = "everyone" \/ Decide(record, conn[c].cert) = "accept"
    <3>2. /\ r.n = conn[c].n + 1
          /\ r.contactsOk = (conn[c].contactsOk \/ (vis = "contacts" /\ accepted))
          /\ r.pc = IF accepted /\ kind = "links" THEN "store" ELSE "answer"
      BY <1>2, <1>3, <3>1 DEF ConnType
    <3>3. vis \in {"everyone", "contacts"}
      BY DEF ServerInv, Typed, Visibilities
    <3> QED
      BY <3>2, <3>3
  <2>3. CASE r.pc = "answer"
    <3>1. OpenOf(c, r) = OpenOf(c, conn[c])
      BY <2>1, <2>3 DEF OpenOf, Letting
    <3> QED
      BY <1>4, <2>1, <2>2, <3>1
  <2>4. CASE r.pc = "store"
    <3>1. OpenOf(c, conn[c]) = {} /\ r.pc \in Letting
      BY <2>1, <2>4 DEF OpenOf, Letting
    <3> QED
      BY <1>1, <1>2, <2>1, <2>2, <2>4, <3>1, StepMaps
  <2> QED
    BY <2>2, <2>3, <2>4
<1>13. CASE StoreLinks(c)
  <2>1. conn[c].pc = "store" /\ conn[c].pc \in Letting /\ UNCHANGED told
    BY <1>13 DEF StoreLinks, At, Letting
  <2>2. CASE conn' = [conn EXCEPT ![c].left = @ - 1] /\ UNCHANGED stored
    <3>1. r.pc = conn[c].pc /\ r.n = conn[c].n /\ r.contactsOk = conn[c].contactsOk
      BY <1>2, <1>3, <2>2 DEF ConnType
    <3> QED
      BY <1>4, <2>1, <2>2, <3>1 DEF OpenOf
  <2>3. CASE Reply(c, "links", 507, "close") /\ UNCHANGED stored
    BY <1>6, <1>7, <2>1, <2>3
  <2>4. CASE stored' = stored \union {Transfer(c)} /\ Reply(c, "links", 200, "keep")
    BY <1>6, <1>7, <2>1, <2>4
  <2> QED
    BY <1>13, <2>2, <2>3, <2>4 DEF StoreLinks, StoreLink
<1>14. CASE Answer(c)
  <2>1. conn[c].pc = "answer" /\ conn[c].pc \notin Letting /\ UNCHANGED stored
    BY <1>14 DEF Answer, At, Letting
  <2>2. PICK p \in {"first", "head", "drain", "close"} : conn' = [conn EXCEPT ![c] = [Returned(c) EXCEPT !.pc = p]]
    BY <1>14 DEF Answer
  <2>3. r.pc = p /\ r.contactsOk = conn[c].contactsOk
    BY <1>2, <1>3, <2>2 DEF Returned, ConnType
  <2>4. r.pc \notin Letting
    BY <2>3 DEF Letting
  <2>5. OpenOf(c, r) = OpenOf(c, conn[c])
    BY <2>1, <2>4 DEF OpenOf
  <2>6. told' = told \/ (Transfer(c) \in stored /\ told' = told \union {Transfer(c)})
    BY <1>14, <2>1, RecordIs DEF Answer, Sound, Transfer
  <2> QED
    BY <1>1, <1>2, <1>5, <2>1, <2>3, <2>4, <2>5, <2>6, StepMaps
<1>15. CASE UploadCheck(c)
  <2>1. conn[c].pc = "head" /\ conn[c].pc \notin Letting /\ UNCHANGED <<stored, told>>
    BY <1>15 DEF UploadCheck, Request, At, Letting
  <2>2. CASE \E status : Reply(c, "upload", status, "close")
    BY <1>5, <1>7, <2>1, <2>2
  <2>3. CASE /\ vis = "contacts" => conn[c].contactsOk
             /\ conn' = [conn EXCEPT ![c].pc = "slot", ![c].req = "upload", ![c].n = @ + 1]
    <3>1. r.pc = "slot" /\ r.n = conn[c].n + 1 /\ r.contactsOk = conn[c].contactsOk
      BY <1>2, <1>3, <2>3 DEF ConnType
    <3>2. vis = "everyone" \/ r.contactsOk
      BY <2>3, <3>1 DEF ServerInv, Typed, Visibilities
    <3>3. OpenOf(c, conn[c]) = {} /\ r.pc \in Letting
      BY <2>1, <3>1 DEF OpenOf, Letting
    <3> QED
      BY <1>1, <1>2, <2>1, <3>1, <3>2, <3>3, StepMaps
  <2> QED
    BY <1>15, <2>2, <2>3 DEF UploadCheck
<1>16. CASE TakeSlot(c)
  <2>1. conn[c].pc = "slot" /\ conn[c].pc \in Letting /\ UNCHANGED <<stored, told>>
    BY <1>16 DEF TakeSlot, At, Letting
  <2>2. CASE conn' = [conn EXCEPT ![c].slot = TRUE, ![c].pc = "mark"]
    <3>1. r.pc = "mark" /\ r.pc \in Letting /\ r.n = conn[c].n /\ r.contactsOk = conn[c].contactsOk
      BY <1>2, <1>3, <2>2 DEF ConnType, Letting
    <3> QED
      BY <1>4, <2>1, <3>1 DEF OpenOf
  <2>3. CASE Reply(c, "upload", 503, "close")
    BY <1>6, <1>7, <2>1, <2>3
  <2> QED
    BY <1>16, <2>2, <2>3 DEF TakeSlot
<1>17. CASE MarkBusy(c)
  <2>1. conn[c].pc \in Letting /\ UNCHANGED <<stored, told>> /\ Go(c, "plan")
    BY <1>17 DEF MarkBusy, At, Letting
  <2>2. r.pc \in Letting /\ r.n = conn[c].n /\ r.contactsOk = conn[c].contactsOk
    BY <1>8, <2>1 DEF Letting
  <2> QED
    BY <1>4, <2>1, <2>2 DEF OpenOf
<1>18. CASE Plan(c)
  <2>1. conn[c].pc \in Letting /\ UNCHANGED <<stored, told>>
    BY <1>18 DEF Plan, At, Letting
  <2>2. CASE \E status : Reply(c, "upload", status, "close")
    BY <1>6, <1>7, <2>1, <2>2
  <2>3. CASE Go(c, "extract")
    <3>1. r.pc \in Letting /\ r.n = conn[c].n /\ r.contactsOk = conn[c].contactsOk
      BY <1>8, <2>3 DEF Letting
    <3> QED
      BY <1>4, <2>1, <3>1 DEF OpenOf
  <2> QED
    BY <1>18, <2>2, <2>3 DEF Plan
<1>19. CASE Extract(c)
  <2>1. conn[c].pc \in Letting /\ UNCHANGED told /\ stored' \in {stored, stored \union {Transfer(c)}}
    BY <1>19 DEF Extract, At, Letting
  <2>2. (\E status : Reply(c, "upload", status, "close")) \/ Go(c, "release")
    BY <1>19 DEF Extract
  <2>3. r.pc \notin Letting /\ r.contactsOk = conn[c].contactsOk
    BY <1>7, <1>8, <2>2 DEF Letting
  <2> QED
    BY <1>6, <2>1, <2>3
<1>20. CASE Release(c)
  <2>1. conn[c].pc \notin Letting /\ UNCHANGED <<stored, told>>
    BY <1>20 DEF Release, At, Letting
  <2>2. r.pc \notin Letting /\ r.contactsOk = conn[c].contactsOk
    BY <1>2, <1>3, <1>20 DEF Release, ConnType, Letting
  <2> QED
    BY <1>5, <2>1, <2>2
<1>21. CASE Close(c) \/ Panic(c)
  <2>1. r = Ended /\ UNCHANGED <<stored, told>>
    BY <1>2, <1>3, <1>21 DEF Close, Panic
  <2>2. OpenOf(c, r) = {} /\ ~r.contactsOk
    BY <2>1 DEF OpenOf, Ended, NoConn, Letting
  <2> QED
    BY <1>1, <1>2, <2>1, <2>2, StepMaps
<1> QED
  BY <1>9, <1>10, <1>11, <1>12, <1>13, <1>14, <1>15, <1>16, <1>17, <1>18, <1>19, <1>20, <1>21 DEF Step

\* The accepting thread does nothing Delivery sees.
LEMMA AcceptRefines ==
  ASSUME ServerInv, NEW c \in Conns, NEW p \in Peers[c], Accept(c, p)
  PROVE  UNCHANGED D!dvars
<1>1. conn \in [Conns -> ConnType] /\ conn[c].pc = "free" /\ ~conn[c].contactsOk /\ UNCHANGED <<vis, stored, told>>
  BY RecordIs DEF Accept, ServerInv, Typed, Sound, Outside, serverVars
<1>2. \A d \in Conns \ {c} : conn'[d] = conn[d] \/ conn'[d] = [conn[d] EXCEPT !.shut = TRUE]
  BY <1>1 DEF Accept
<1>3. conn'[c] = Refused \/ conn'[c] = [conn[c] EXCEPT !.pc = "handshake", !.peer = p]
  <2>1. waiting # <<>> => c # Head(waiting)
    <3>1. c \notin live
      BY <1>1, RecordIs DEF Sound, Outside
    <3>2. waiting \in Seq(Conns) /\ IsInjective(waiting) /\ ToSet(waiting) \subseteq live
      BY DEF ServerInv, Typed, Tables
    <3> QED
      BY <3>1, <3>2, TailIs
  <2> DEFINE victims == IF Cardinality(live) >= MaxConnections /\ waiting # <<>> THEN {Head(waiting)} ELSE {}
  <2>2. c \notin victims
    BY <2>1
  <2> QED
    BY <1>1, <2>2 DEF Accept
<1>4. \A d \in Conns \ {c} : /\ conn'[d].pc = conn[d].pc /\ conn'[d].n = conn[d].n
                             /\ conn'[d].contactsOk = conn[d].contactsOk
  BY <1>1, <1>2 DEF ConnType
<1>5. ~conn'[c].contactsOk /\ conn'[c].pc \in {"refused", "handshake"}
  BY <1>1, <1>3 DEF ConnType, Refused, NoConn
<1>6. Proven' = Proven
  BY <1>1, <1>4, <1>5 DEF Proven
<1>7. OpenNow' = OpenNow
  <2>1. \A t \in Transfers : t[1] \in Conns
    BY DEF Transfers
  <2> QED
    BY <1>1, <1>4, <1>5, <2>1 DEF OpenNow
<1> QED
  BY <1>1, <1>6, <1>7 DEF D!dvars, Proven

\* server.rs ask and upload implement Delivery: a transfer is stored only after it
\* was let in, and a sender reads 200 only of what is stored, across evictions,
\* panics, visibility changes and restarts.
THEOREM DeliveryRefinedAlways ==
  Spec => DeliveryRefined
<1>1. Init => D!DInit
  <2> SUFFICES ASSUME Init PROVE D!DInit
    OBVIOUS
  <2>1. \A c \in Conns : conn[c] = NoConn
    BY DEF Init
  <2>2. {c \in Conns : conn[c].contactsOk} = {}
    BY <2>1 DEF NoConn
  <2>3. OpenNow = {}
    <3>1. \A t \in Transfers : t[1] \in Conns
      BY DEF Transfers
    <3> QED
      BY <2>1, <3>1 DEF OpenNow, NoConn
  <2> QED
    BY <2>2, <2>3 DEF D!DInit, Init, Visibilities
<1>2. ServerInv /\ [Next]_vars => [D!DNext]_(D!dvars)
  <2> SUFFICES ASSUME ServerInv, [Next]_vars PROVE D!DNext \/ UNCHANGED D!dvars
    OBVIOUS
  <2>1. CASE SwitchVisibility
    <3>1. \E m \in {"everyone", "contacts"} : D!SetMode(m)
      BY <2>1 DEF SwitchVisibility, Visibilities, D!SetMode, OpenNow
    <3> QED
      BY <3>1 DEF D!DNext
  <2>2. CASE Exit
    <3>1. ASSUME NEW c \in Conns PROVE ~conn'[c].contactsOk /\ conn'[c].pc \in {"free", "ended"}
      <4>1. conn[c].pc = "free" => ~conn[c].contactsOk
        BY RecordIs DEF Sound, Outside
      <4> QED
        BY <2>2, <4>1 DEF Exit, Ended, NoConn
    <3>2. {c \in Conns : conn'[c].contactsOk} = {}
      BY <3>1
    <3>3. OpenNow' = {}
      <4>1. \A t \in Transfers : t[1] \in Conns
        BY DEF Transfers
      <4> QED
        BY <3>1, <4>1 DEF OpenNow
    <3>4. D!Stop
      BY <2>2, <3>2, <3>3 DEF Exit, D!Stop
    <3> QED
      BY <3>4 DEF D!DNext
  <2>3. CASE ResetSessions \/ Bind \/ Start \/ UNCHANGED vars
    BY <2>3 DEF ResetSessions, Bind, Start, vars, serverVars, D!dvars, OpenNow
  <2> QED
    BY <2>1, <2>2, <2>3, StepRefines, AcceptRefines DEF Next
<1> QED
  BY <1>1, <1>2, ServerInvariant, PTL DEF Spec, DeliveryRefined, D!DSpec

-----------------------------------------------------------------------------
(* What follows from the promise *)

\* Nobody reads 200 of what is not stored, and nothing stored is still open.
Settled == told \subseteq stored /\ OpenNow \cap stored = {}

LEMMA SettledKept == Settled /\ [D!DNext]_(D!dvars) => Settled'
<1> SUFFICES ASSUME Settled, [D!DNext]_(D!dvars) PROVE Settled'
  OBVIOUS
<1> DEFINE open == OpenNow
           now  == OpenNow'
<1>0. told \subseteq stored /\ open \cap stored = {}
  BY DEF Settled
<1>1. told' \subseteq stored' /\ now \cap stored' = {}
  <2>1. ASSUME NEW m, D!SetMode(m) PROVE told' = told /\ stored' = stored /\ now = open
    BY <2>1 DEF D!SetMode
  <2>2. ASSUME NEW c, D!Prove(c) PROVE told' = told /\ stored' = stored /\ now = open
    BY <2>2 DEF D!Prove
  <2>3. ASSUME NEW c, D!Leave(c) PROVE told' = told /\ stored' = stored /\ now \subseteq open
    BY <2>3 DEF D!Leave
  <2>4. ASSUME NEW t, D!LetIn(t)
        PROVE  told' = told /\ stored' = stored /\ now = open \cup {t} /\ t \notin stored
    BY <2>4 DEF D!LetIn
  <2>5. ASSUME NEW t, D!Store(t)
        PROVE  told' = told /\ stored' = stored \cup {t} /\ now = open \ {t}
    BY <2>5 DEF D!Store
  <2>6. ASSUME NEW t, D!Refuse(t) PROVE told' = told /\ stored' = stored /\ now \subseteq open
    BY <2>6 DEF D!Refuse
  <2>7. ASSUME NEW t, D!Tell(t)
        PROVE  t \in stored /\ told' = told \cup {t} /\ stored' = stored /\ now = open
    BY <2>7 DEF D!Tell
  <2>8. CASE D!Stop
    BY <1>0, <2>8 DEF D!Stop
  <2>9. CASE UNCHANGED D!dvars
    BY <1>0, <2>9 DEF D!dvars
  <2> HIDE DEF open, now
  <2> QED
    BY <1>0, <2>1, <2>2, <2>3, <2>4, <2>5, <2>6, <2>7, <2>8, <2>9 DEF D!DNext
<1> QED
  BY <1>1 DEF Settled

\* upload: the 200 is written only after extract_upload has published the content, for
\* every transfer of every connection, and a transfer is stored once.
THEOREM ToldIsStoredAlways == Spec => []Settled
<1>1. D!DInit => Settled
  BY DEF D!DInit, Settled
<1>2. D!DSpec => []Settled
  BY <1>1, SettledKept, PTL DEF D!DSpec
<1> QED
  BY <1>2, DeliveryRefinedAlways, PTL DEF DeliveryRefined

\* Whatever the receiver does afterwards, eviction, panic, stop and restart included,
\* takes nothing back: what is stored stays stored.
THEOREM StoredStaysAlways == Spec => [][stored \subseteq stored']_stored
<1>1. [D!DNext]_(D!dvars) => [stored \subseteq stored']_stored
  BY DEF D!DNext, D!dvars, D!SetMode, D!Prove, D!Leave, D!LetIn, D!Store, D!Refuse, D!Tell, D!Stop
<1>2. D!DSpec => [][stored \subseteq stored']_stored
  BY <1>1, PTL DEF D!DSpec
<1> QED
  BY <1>2, DeliveryRefinedAlways, PTL DEF DeliveryRefined
=============================================================================
