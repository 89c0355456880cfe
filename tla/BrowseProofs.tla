---------------------------- MODULE BrowseProofs ----------------------------
(***************************************************************************)
(* Theorems about Browse, for any devices, ids that rotate, answers that     *)
(* are lost, log and times: the receiver found is the one --to names, the    *)
(* browse ends by its deadline, and what answers is heard.                   *)
(***************************************************************************)
EXTENDS Browse, SequenceTheorems, WellFoundedInduction, TLAPS

-----------------------------------------------------------------------------
(* The inductive invariants *)

Pcs      == {"af", "afdiscover", "open", "top", "recv", "scan", "discover", "found", "end"}
Times    == Nat \cup {Unasked}
Insts    == [known : BOOLEAN, srv : BOOLEAN, txt : BOOLEAN, first : Times, lastQuery : Times,
             done : BOOLEAN]
Messages == [id : Ids, recs : SUBSET Types, counts : BOOLEAN]
Frames   == [id : Ids, srv : BOOLEAN]

ThreadTyped ==
  /\ to \in Tos /\ now \in Nat /\ pc \in Pcs /\ op \in Nat /\ wait \in Nat /\ deadline \in Nat
  /\ attempt \in Nat /\ ep \in Ids \cup {None} /\ chosen \in Ids \cup {None}
  /\ nextBrowse \in Nat /\ interval \in Nat
  /\ pc \in {"afdiscover", "discover"} => ep \in Ids

AirTyped ==
  /\ inst \in [Ids -> Insts] /\ hosts \subseteq Devices
  /\ session \in [Devices -> 0 .. MaxSession]
  /\ log \in Seq(Frames) /\ wire \in Seq(Messages) /\ due \subseteq Ids \X Types
  /\ lost \in [Ids -> Nat] /\ stalled \subseteq Ids /\ told \subseteq Ids

Typed == ThreadTyped /\ AirTyped

\* While it browses the thread waits for nothing beyond the deadline.
InTime ==
  /\ pc \in {"top", "recv", "scan", "discover"} => now <= deadline
  /\ pc \in {"recv", "discover"} => wait <= deadline

\* Whom it asks may be the one; of those who told a name none was passed over.
Asked ==
  /\ pc \in {"afdiscover", "discover"} => ToIsId(ep) /\ ToIsMac(ep)
  /\ chosen # None => Matches(chosen)
  /\ \A i \in told : to.kind # "mac" /\ Matches(i) => chosen # None

\* How far an instance has come: nothing, its service, its address too.
Stage(i) == IF ~inst[i].srv THEN 0 ELSE IF i[1] \notin hosts THEN 1 ELSE 2

Needs(i) == IF inst[i].srv THEN {"aaaa"} ELSE {"srv", "txt"}

Queried(i) == inst[i].first # Unasked

\* What an instance needs is asked for, or on its way.
Pending(i) ==
  \/ \A t \in Needs(i) : <<i, t>> \in due
  \/ \E m \in ToSet(wire) : m.id = i /\ m.counts /\ Needs(i) \subseteq m.recs

\* Nothing of an instance is asked for, or on its way.
Silent(i) ==
  /\ \A t \in Types : <<i, t>> \notin due
  /\ \A m \in ToSet(wire) : m.id # i

\* Service and text travel together; nothing is known or asked of a session to come.
Together ==
  /\ \A i \in Ids : /\ inst[i].srv = inst[i].txt
                    /\ <<i, "srv">> \in due <=> <<i, "txt">> \in due
                    /\ inst[i].known => i[2] <= session[i[1]]
  /\ \A m \in ToSet(wire) : /\ "srv" \in m.recs <=> "txt" \in m.recs
                            /\ m.id[2] <= session[m.id[1]]
  /\ \A q \in due : q[1][2] = session[q[1][1]]

\* Before the browse nothing is known, and while it asks or listens nothing has resolved.
Fresh ==
  /\ pc \in {"af", "afdiscover", "open"} => \A i \in Ids : ~inst[i].known
  /\ pc \in {"top", "recv"} => \A i \in Ids : ~Resolved(i)
  /\ \A i \in Ids : Open(i) /\ ~Queried(i) => inst[i].lastQuery = Unasked

\* Instances that are asked, of the sessions that answer.
Live(i) == Open(i) /\ Queried(i) /\ i \notin stalled /\ i[2] = session[i[1]]

\* Queries were made every second up to now.
Prompt(i) ==
  /\ inst[i].first \in Nat /\ inst[i].lastQuery \in Nat
  /\ inst[i].first <= inst[i].lastQuery /\ inst[i].lastQuery - inst[i].first < Resolve
  /\ inst[i].lastQuery <= now /\ now <= inst[i].lastQuery + 1
  /\ pc = "recv" => wait <= inst[i].lastQuery + 1
  /\ inst[i].lastQuery < now => Silent(i)

\* Each query came to something, was lost, or (the last of them) is still pending.
Fruitful(i) ==
  \/ inst[i].lastQuery - inst[i].first + 1 <= Stage(i) + lost[i]
  \/ Pending(i) /\ inst[i].lastQuery - inst[i].first <= Stage(i) + lost[i]

Paced == \A i \in Ids : Live(i) => Prompt(i) /\ Fruitful(i)

BrowseInv == Typed /\ InTime /\ Asked
HeardInv  == Together /\ Fresh /\ Paced

-----------------------------------------------------------------------------
(* Choices and records *)

\* A set of numbers has a least one, and that is what Least takes.
LEMMA LeastIs ==
  ASSUME NEW S \in SUBSET Nat, S # {}
  PROVE  Least(S) \in S /\ \A y \in S : Least(S) <= y
<1>1. \E x \in S : \A y \in S : ~ (<<y, x>> \in OpToRel(<, Nat))
  BY NatLessThanWellFounded, WFMin
<1>2. \E x \in S : \A y \in S : ~ (y < x)
  BY <1>1 DEF OpToRel
<1>3. \E x \in S : \A y \in S : x <= y
  BY <1>2
<1>4. QED
  BY <1>3 DEF Least

\* A set of numbers with a bound has a greatest one.
LEMMA GreatestIs ==
  ASSUME NEW n \in Nat, NEW S \in SUBSET (1 .. n), S # {}
  PROVE  (CHOOSE x \in S : \A y \in S : y <= x) \in S
<1> DEFINE T == {n - x : x \in S}
<1>0. \A x \in S : x \in Nat /\ n - x \in Nat
  OBVIOUS
<1>1. T \in SUBSET Nat /\ T # {}
  BY <1>0
<1>2. Least(T) \in T /\ \A y \in T : Least(T) <= y
  BY <1>1, LeastIs
<1>3. PICK x \in S : Least(T) = n - x
  BY <1>2
<1>4. \A y \in S : y <= x
  <2> SUFFICES ASSUME NEW y \in S PROVE y <= x
    OBVIOUS
  <2>1. n - x <= n - y
    BY <1>2, <1>3
  <2> QED
    BY <1>0, <2>1
<1>5. QED
  BY <1>4

\* The elements of a sequence, by position.
LEMMA ElementsOf ==
  ASSUME NEW S, NEW s \in Seq(S)
  PROVE  /\ Len(s) \in Nat /\ DOMAIN s = 1 .. Len(s)
         /\ \A n \in DOMAIN s : s[n] \in S
BY ElementOfSeq, LenProperties

\* The endpoint taken from the log is one that --to does not rule out.
LEMMA FreshestIs ==
  ASSUME log \in Seq(Frames), Freshest # None
  PROVE  Freshest \in Ids /\ ToIsId(Freshest) /\ ToIsMac(Freshest)
<1> DEFINE eps == {n \in DOMAIN log : log[n].srv}
           newest == {n \in eps : \A m \in eps : m > n => log[m].id[1] # log[n].id[1]}
           fit == {n \in newest : ToIsId(log[n].id) /\ ToIsMac(log[n].id)}
           at == CHOOSE n \in fit : \A m \in fit : m <= n
<1>1. Freshest = IF fit = {} THEN None ELSE log[at].id
  BY DEF Freshest
<1>a. Len(log) \in Nat /\ DOMAIN log = 1 .. Len(log) /\ \A n \in DOMAIN log : log[n] \in Frames
  <2> HIDE DEF at, fit, newest, eps
  <2> QED
    BY ElementsOf
<1>2. fit # {} /\ fit \in SUBSET (1 .. Len(log))
  BY <1>1, <1>a
<1>3. at \in fit
  <2> HIDE DEF fit
  <2> QED
    BY <1>a, <1>2, GreatestIs
<1>4. log[at] \in Frames
  <2>1. at \in DOMAIN log
    BY <1>3
  <2> HIDE DEF at
  <2> QED
    BY <2>1, <1>a
<1>5. log[at].id \in Ids
  BY <1>4 DEF Frames
<1>6. ToIsId(log[at].id) /\ ToIsMac(log[at].id)
  BY <1>3
<1>7. QED
  BY <1>1, <1>2, <1>5, <1>6

\* What the records of an instance say.
LEMMA InstsAre ==
  /\ NewInst \in Insts /\ NewInst.known /\ ~NewInst.done /\ ~NewInst.srv /\ ~NewInst.txt
  /\ NewInst.first = Unasked /\ NewInst.lastQuery = Unasked
  /\ DoneInst \in Insts /\ DoneInst.known /\ DoneInst.done /\ DoneInst.srv = DoneInst.txt
  /\ ~DoneInst.srv
  /\ Absent \in Insts /\ ~Absent.known /\ ~Absent.srv /\ ~Absent.txt
BY DEF NewInst, DoneInst, Absent, Insts, Times

\* An id belongs to a session of a device.
LEMMA IdsAre == \A i \in Ids : i[1] \in Devices /\ i[2] \in 0 .. MaxSession /\ i # None
BY BrowseAssumption DEF Ids

\* What was first asked, or is asked now, was asked at some time.
LEMMA FirstIs ==
  ASSUME Typed, NEW i \in Ids
  PROVE  /\ First(i) \in Nat
         /\ inst[i].first = Unasked => First(i) = now
         /\ inst[i].first # Unasked => First(i) = inst[i].first
<1>1. inst[i].first \in Times /\ now \in Nat
  BY DEF Typed, ThreadTyped, AirTyped, Insts
<1>2. QED
  BY <1>1 DEF First, Times, Unasked

\* What the top of the loop does to an instance.
LEMMA TopIs ==
  ASSUME Typed, Top, now < deadline, NEW i \in Ids
  PROVE  /\ inst' \in [Ids -> Insts]
         /\ Late(i) => inst'[i] = DoneInst
         /\ ~Late(i) /\ Open(i) =>
              /\ inst'[i].known /\ ~inst'[i].done
              /\ inst'[i].srv = inst[i].srv /\ inst'[i].txt = inst[i].txt
              /\ inst'[i].first = First(i)
              /\ inst'[i].lastQuery = IF Asks(i) THEN now ELSE inst[i].lastQuery
         /\ ~Late(i) /\ ~Open(i) => inst'[i] = inst[i]
<1>a. now \in Nat /\ inst \in [Ids -> Insts] /\ deadline \in Nat
  BY DEF Typed, ThreadTyped, AirTyped
<1> DEFINE Next1(j) == [inst[j] EXCEPT !.first = First(j),
                                       !.lastQuery = IF Asks(j) THEN now ELSE @]
<1>1. inst' = [j \in Ids |-> IF Late(j) THEN DoneInst
                             ELSE IF Open(j) THEN Next1(j) ELSE inst[j]]
  <2>1. ~(now >= deadline)
    BY <1>a
  <2> QED
    BY <2>1, Zenon DEF Top
<1>2. \A j \in Ids : /\ Next1(j) \in Insts
                     /\ Next1(j).known = inst[j].known /\ Next1(j).done = inst[j].done
                     /\ Next1(j).srv = inst[j].srv /\ Next1(j).txt = inst[j].txt
                     /\ Next1(j).first = First(j)
                     /\ Next1(j).lastQuery = IF Asks(j) THEN now ELSE inst[j].lastQuery
  <2> SUFFICES ASSUME NEW j \in Ids
               PROVE  /\ Next1(j) \in Insts
                      /\ Next1(j).known = inst[j].known /\ Next1(j).done = inst[j].done
                      /\ Next1(j).srv = inst[j].srv /\ Next1(j).txt = inst[j].txt
                      /\ Next1(j).first = First(j)
                      /\ Next1(j).lastQuery = IF Asks(j) THEN now ELSE inst[j].lastQuery
    OBVIOUS
  <2>1. inst[j] \in Insts
    BY <1>a
  <2>2. First(j) \in Nat
    BY FirstIs
  <2> QED
    BY <1>a, <2>1, <2>2 DEF Insts, Times
<1> HIDE DEF Next1
<1>3. inst' \in [Ids -> Insts]
  BY <1>a, <1>1, <1>2, InstsAre
<1>4. QED
  BY <1>1, <1>2, <1>3 DEF Open

\* What a message does to its instance.
LEMMA AbsorbIs ==
  ASSUME Typed, NEW i \in Ids, NEW recs, Absorb(i, recs)
  PROVE  /\ inst' \in [Ids -> Insts]
         /\ \A j \in Ids \ {i} : inst'[j] = inst[j]
         /\ inst[i].known /\ inst[i].done => inst'[i] = inst[i]
         /\ ~inst[i].known /\ "ptr" \notin recs => inst'[i] = inst[i]
         /\ ~inst[i].known /\ "ptr" \in recs =>
              /\ inst'[i].known /\ ~inst'[i].done
              /\ inst'[i].srv = ("srv" \in recs) /\ inst'[i].txt = ("txt" \in recs)
              /\ inst'[i].first = Unasked /\ inst'[i].lastQuery = Unasked
         /\ Open(i) =>
              /\ inst'[i].known /\ ~inst'[i].done
              /\ inst'[i].srv = (inst[i].srv \/ "srv" \in recs)
              /\ inst'[i].txt = (inst[i].txt \/ "txt" \in recs)
              /\ inst'[i].first = inst[i].first /\ inst'[i].lastQuery = inst[i].lastQuery
         /\ hosts' = hosts \cup IF "aaaa" \in recs THEN {i[1]} ELSE {}
<1> DEFINE new == IF "ptr" \in recs /\ ~inst[i].known THEN NewInst ELSE inst[i]
           told1 == [new EXCEPT !.srv = @ \/ "srv" \in recs, !.txt = @ \/ "txt" \in recs]
           out == IF new.known /\ ~new.done THEN told1 ELSE new
<1>a. inst \in [Ids -> Insts] /\ inst[i] \in Insts
  BY DEF Typed, AirTyped
<1>1. inst' = [inst EXCEPT ![i] = out] /\ hosts' = hosts \cup IF "aaaa" \in recs THEN {i[1]} ELSE {}
  BY DEF Absorb
<1>2. new \in Insts
  BY <1>a, InstsAre
<1>3. /\ told1 \in Insts /\ told1.known = new.known /\ told1.done = new.done
      /\ told1.srv = (new.srv \/ "srv" \in recs) /\ told1.txt = (new.txt \/ "txt" \in recs)
      /\ told1.first = new.first /\ told1.lastQuery = new.lastQuery
  <2> HIDE DEF new
  <2> QED
    BY <1>2 DEF Insts
<1>4. /\ ~("ptr" \in recs /\ ~inst[i].known) => new = inst[i]
      /\ "ptr" \in recs /\ ~inst[i].known => new = NewInst
  OBVIOUS
<1>5. /\ new.known /\ ~new.done => out = told1
      /\ ~(new.known /\ ~new.done) => out = new
  OBVIOUS
<1> HIDE DEF new, told1, out
<1>6. out \in Insts
  BY <1>2, <1>3, <1>5
<1>7. inst' \in [Ids -> Insts] /\ inst'[i] = out /\ \A j \in Ids \ {i} : inst'[j] = inst[j]
  BY <1>a, <1>1, <1>6
<1>8. QED
  BY <1>1, <1>2, <1>3, <1>4, <1>5, <1>7, InstsAre DEF Open

-----------------------------------------------------------------------------
(* Types *)

\* The first state is typed.
LEMMA TypedInit == ASSUME Init PROVE Typed
<1>1. Attempts * (OpTimeout + 2) \in Nat
  BY BrowseAssumption
<1>2. ThreadTyped
  BY <1>1 DEF Init, ThreadTyped, Pcs
<1>3. inst \in [Ids -> Insts] /\ lost \in [Ids -> Nat]
  BY InstsAre DEF Init
<1>4. session \in [Devices -> 0 .. MaxSession]
  BY BrowseAssumption DEF Init
<1>5. AirTyped
  BY <1>3, <1>4 DEF Init, AirTyped
<1>6. QED
  BY <1>2, <1>5 DEF Typed

\* The times at the top of the loop.
LEMMA TopWaits ==
  ASSUME Typed, Top, now < deadline
  PROVE  /\ nextBrowse' \in Nat /\ interval' \in Nat
         /\ wait' \in Nat /\ wait' <= deadline
         /\ \A i \in Ids : Open(i) /\ ~Late(i) /\ inst'[i].lastQuery \in Nat =>
              wait' <= inst'[i].lastQuery + 1
<1> DEFINE W(i) == Least({inst'[i].lastQuery + 1, First(i) + Resolve})
           S == {nextBrowse', deadline} \cup {W(i) : i \in {j \in Ids : Open(j) /\ ~Late(j)}}
<1>1. ~(now >= deadline) /\ now \in Nat /\ deadline \in Nat /\ nextBrowse \in Nat /\ interval \in Nat
  BY DEF Typed, ThreadTyped
<1>2. /\ nextBrowse' = IF now >= nextBrowse THEN now + interval ELSE nextBrowse
      /\ interval' = IF now >= nextBrowse THEN Least({interval * 2, 20}) ELSE interval
      /\ wait' = Least(S)
  BY <1>1, Zenon DEF Top
<1>3. interval * 2 \in Nat
  BY <1>1
<1>4. Least({interval * 2, 20}) \in {interval * 2, 20}
  BY <1>3, LeastIs
<1>5. nextBrowse' \in Nat /\ interval' \in Nat
  BY <1>1, <1>2, <1>3, <1>4
<1>6. ASSUME NEW i \in Ids, Open(i), ~Late(i)
      PROVE  W(i) \in Nat /\ (inst'[i].lastQuery \in Nat => W(i) <= inst'[i].lastQuery + 1)
  <2>1. inst'[i].lastQuery \in Times
    BY TopIs DEF Insts
  <2>2. First(i) \in Nat /\ Resolve \in Nat
    BY FirstIs, BrowseAssumption
  <2>3. inst'[i].lastQuery + 1 \in Nat /\ First(i) + Resolve \in Nat
    BY <2>1, <2>2 DEF Times, Unasked
  <2>4. W(i) \in {inst'[i].lastQuery + 1, First(i) + Resolve} /\ W(i) <= inst'[i].lastQuery + 1
    BY <2>3, LeastIs
  <2>5. QED
    BY <2>3, <2>4
<1> HIDE DEF W
<1>7. S \in SUBSET Nat /\ S # {}
  BY <1>1, <1>5, <1>6
<1>8. Least(S) \in S /\ \A y \in S : Least(S) <= y
  BY <1>7, LeastIs
<1>9. wait' \in Nat /\ wait' <= deadline
  BY <1>2, <1>7, <1>8
<1>10. ASSUME NEW i \in Ids, Open(i), ~Late(i), inst'[i].lastQuery \in Nat
       PROVE  wait' <= inst'[i].lastQuery + 1
  <2>1. wait' <= W(i)
    BY <1>2, <1>8, <1>10
  <2>2. QED
    BY <2>1, <1>6, <1>9, <1>10
<1>11. QED
  BY <1>5, <1>9, <1>10

\* What is asked for at the top of the loop.
LEMMA TopDue ==
  ASSUME Typed, Top, now < deadline
  PROVE  /\ \A q \in due' :
              /\ \/ q \in due
                 \/ \E i \in Ids : Asks(i) /\ q \in Lacking(i)
                 \/ q \in Ids \X {"ptr"}
              /\ q[1][2] = session[q[1][1]]
         /\ \A q \in due : q[1][2] = session[q[1][1]] => q \in due'
         /\ \A i \in Ids : Asks(i) =>
              \A q \in Lacking(i) : q[1][2] = session[q[1][1]] => q \in due'
<1>1. ~(now >= deadline)
  BY DEF Typed, ThreadTyped
<1>2. due' = {q \in due \cup Queries : q[1][2] = session[q[1][1]]}
  BY <1>1 DEF Top
<1>3. ASSUME NEW q \in Queries
      PROVE  (\E i \in Ids : Asks(i) /\ q \in Lacking(i)) \/ q \in Ids \X {"ptr"}
  <2>1. \/ q \in UNION {Lacking(i) : i \in {j \in Ids : Asks(j)}}
        \/ q \in {p \in Ids \X {"ptr"} : now >= nextBrowse}
    BY DEF Queries
  <2>2. CASE q \in UNION {Lacking(i) : i \in {j \in Ids : Asks(j)}}
    BY <2>2
  <2>3. CASE q \in {p \in Ids \X {"ptr"} : now >= nextBrowse}
    BY <2>3, Zenon
  <2>4. QED
    BY <2>1, <2>2, <2>3
<1>4. \A i \in Ids : Asks(i) => Lacking(i) \subseteq Queries
  BY DEF Queries
<1>5. QED
  BY <1>2, <1>3, <1>4

\* How long an operation of a browse's /Discover waits.
LEMMA ArmIs ==
  ASSUME Typed
  PROVE  /\ now + OpTimeout \in Nat
         /\ Least({now + OpTimeout, deadline}) \in Nat
         /\ Least({now + OpTimeout, deadline}) <= deadline
<1>1. now + OpTimeout \in Nat /\ deadline \in Nat
  BY BrowseAssumption DEF Typed, ThreadTyped
<1>2. QED
  BY <1>1, LeastIs

\* A message of a known form is one.
LEMMA MessageIs ==
  ASSUME NEW i \in Ids, NEW r \in SUBSET Types, NEW c \in BOOLEAN
  PROVE  /\ [id |-> i, recs |-> r, counts |-> c] \in Messages
         /\ [id |-> i, recs |-> r, counts |-> c].id = i
         /\ [id |-> i, recs |-> r, counts |-> c].recs = r
         /\ [id |-> i, recs |-> r, counts |-> c].counts = c
BY DEF Messages

\* What each step of the air does.
LEMMA RespondIs ==
  ASSUME NEW i \in Ids, Respond(i)
  PROVE  /\ Waiting
         /\ \E r \in SUBSET Types :
              /\ wire' = Append(wire, [id |-> i, recs |-> r, counts |-> TRUE])
              /\ r = Types \/ r = {t \in Types : <<i, t>> \in due}
         /\ due' = {q \in due : q[1] # i}
         /\ UNCHANGED <<to, now, pc, deadline, afVars, callVars, mdnsVars, endVars, session, log,
                        histVars>>
BY DEF Respond

\* What the loss of an answer does.
LEMMA LoseIs ==
  ASSUME NEW i \in Ids, Lose(i)
  PROVE  /\ Waiting /\ lost' = [lost EXCEPT ![i] = @ + 1]
         /\ due' = {q \in due : q[1] # i}
         /\ \/ wire' = wire
            \/ wire' = Append(wire, [id |-> i, recs |-> Types, counts |-> FALSE])
         /\ UNCHANGED <<to, now, pc, deadline, afVars, callVars, mdnsVars, endVars, session, log,
                        stalled, told>>
BY DEF Lose

\* What a recv does.
LEMMA RecvIs ==
  ASSUME Recv, Typed
  PROVE  /\ pc = "recv" /\ pc' = "scan"
         /\ UNCHANGED <<to, now, deadline, afVars, callVars, nextBrowse, interval, endVars, session,
                        log, due, histVars>>
         /\ \/ /\ wire # <<>> /\ wire' = Tail(wire)
               /\ Head(wire) \in Messages /\ wire' \in Seq(Messages)
               /\ Absorb(Head(wire).id, Records(Head(wire)))
            \/ UNCHANGED <<wire, inst, hosts>>
<1>1. wire \in Seq(Messages)
  BY DEF Typed, AirTyped
<1>2. wire # <<>> => Head(wire) \in Messages /\ Tail(wire) \in Seq(Messages)
  BY <1>1, HeadTailProperties
<1>3. QED
  BY <1>2 DEF Recv

\* Each instance that is handed to on_add is closed.
LEMMA OnFoundIs ==
  ASSUME Typed, NEW i \in Ids, OnFound(i)
  PROVE  /\ pc = "scan" /\ Resolved(i)
         /\ inst' \in [Ids -> Insts] /\ inst'[i] = DoneInst
         /\ \A j \in Ids \ {i} : inst'[j] = inst[j]
         /\ \/ /\ Candidate(i) /\ ep' = i /\ op' = 1 /\ pc' = "discover" /\ UNCHANGED exit
               /\ wait' = Least({now + OpTimeout, deadline})
            \/ pc' \in {"scan", "end"} /\ UNCHANGED callVars
         /\ UNCHANGED <<to, now, deadline, afVars, hosts, nextBrowse, interval, chosen, airVars,
                        histVars>>
<1>1. inst \in [Ids -> Insts]
  BY DEF Typed, AirTyped
<1>2. inst' \in [Ids -> Insts] /\ inst'[i] = DoneInst /\ \A j \in Ids \ {i} : inst'[j] = inst[j]
  BY <1>1, InstsAre DEF OnFound
<1>3. QED
  BY <1>2 DEF OnFound, GiveUp

\* Every step leaves each variable in its type.
LEMMA TypedStep ==
  ASSUME Typed, [Next]_vars
  PROVE  Typed'
<1>c. /\ Attempts \in Nat /\ OpTimeout \in Nat /\ Timeout \in Nat /\ MaxSession \in Nat
      /\ MaxFrames \in Nat /\ AfLog \in BOOLEAN
  BY BrowseAssumption
<1>1. CASE UNCHANGED vars
  BY <1>1 DEF vars, afVars, callVars, mdnsVars, endVars, airVars, histVars, Typed, ThreadTyped, AirTyped
<1>2. CASE AfAttempt
  <2>1. AirTyped'
    BY <1>2 DEF AfAttempt, mdnsVars, airVars, histVars, Typed, AirTyped
  <2>2. ThreadTyped'
    <3>1. Freshest # None => Freshest \in Ids
      BY FreshestIs DEF Typed, AirTyped
    <3>2. now + OpTimeout \in Nat /\ attempt + 1 \in Nat
      BY <1>c DEF Typed, ThreadTyped
    <3>3. QED
      BY <1>2, <3>1, <3>2 DEF AfAttempt, callVars, mdnsVars, endVars, Typed, ThreadTyped, Pcs
  <2>3. QED
    BY <2>1, <2>2 DEF Typed
<1>3. CASE AfOperation
  <2>1. now + OpTimeout \in Nat /\ op + 1 \in Nat
    BY <1>c DEF Typed, ThreadTyped
  <2>2. QED
    BY <1>3, <2>1 DEF AfOperation, afVars, mdnsVars, endVars, airVars, histVars,
                      Typed, ThreadTyped, AirTyped
<1>4. CASE AfDiscovered
  <2>1. AirTyped'
    BY <1>4 DEF AfDiscovered, mdnsVars, airVars, histVars, Typed, AirTyped
  <2>2. ThreadTyped'
    BY <1>4 DEF AfDiscovered, afVars, mdnsVars, Typed, ThreadTyped, Pcs
  <2>3. QED
    BY <2>1, <2>2 DEF Typed
<1>5. CASE Start
  <2>1. <<>> \in Seq(Frames)
    OBVIOUS
  <2>2. AirTyped'
    BY <1>5, <2>1 DEF Start, mdnsVars, histVars, Typed, AirTyped
  <2>3. ThreadTyped'
    BY <1>5, <1>c DEF Start, callVars, mdnsVars, Typed, ThreadTyped, Pcs
  <2>4. QED
    BY <2>2, <2>3 DEF Typed
<1>6. CASE Top
  <2>1. CASE now >= deadline
    BY <1>6, <2>1 DEF Top, GiveUp, afVars, histVars, Typed, ThreadTyped, AirTyped, Pcs
  <2>2. CASE now < deadline
    <3>a. ~(now >= deadline)
      BY <2>2 DEF Typed, ThreadTyped
    <3>1. ThreadTyped'
      <4>1. /\ pc' = "recv"
            /\ UNCHANGED <<to, now, deadline, afVars, ep, op, chosen>>
        BY <1>6, <3>a DEF Top
      <4>2. QED
        BY <1>6, <2>2, <4>1, TopWaits DEF Typed, ThreadTyped, Pcs, afVars
    <3>2. due' \subseteq Ids \X Types
      <4>1. \A q \in due' : \/ q \in due
                            \/ \E i \in Ids : q \in Lacking(i)
                            \/ q \in Ids \X {"ptr"}
        BY <1>6, <2>2, TopDue
      <4>2. \A i \in Ids : Lacking(i) \subseteq Ids \X Types
        BY DEF Lacking, Types
      <4>3. Ids \X {"ptr"} \subseteq Ids \X Types
        BY DEF Types
      <4>4. QED
        BY <4>1, <4>2, <4>3 DEF Typed, AirTyped
    <3>3. UNCHANGED <<hosts, session, log, wire, histVars>>
      BY <1>6 DEF Top
    <3>4. inst' \in [Ids -> Insts]
      <4>1. CASE Ids = {}
        BY <1>6, <3>a, <4>1 DEF Top
      <4>2. CASE Ids # {}
        BY <1>6, <2>2, <4>2, TopIs
      <4>3. QED
        BY <4>1, <4>2
    <3>5. QED
      BY <3>1, <3>2, <3>3, <3>4 DEF Typed, AirTyped, histVars
  <2>3. QED
    BY <2>1, <2>2 DEF Typed, ThreadTyped
<1>7. CASE Recv
  <2>1. ThreadTyped'
    BY <1>7, RecvIs DEF afVars, callVars, endVars, Typed, ThreadTyped, Pcs
  <2>2. inst' \in [Ids -> Insts] /\ hosts' \subseteq Devices /\ wire' \in Seq(Messages)
    <3>1. CASE UNCHANGED <<wire, inst, hosts>>
      BY <3>1 DEF Typed, AirTyped
    <3>2. CASE ~UNCHANGED <<wire, inst, hosts>>
      <4>1. /\ Head(wire) \in Messages /\ wire' \in Seq(Messages)
            /\ Absorb(Head(wire).id, Records(Head(wire)))
        BY <1>7, <3>2, RecvIs
      <4>2. Head(wire).id \in Ids
        BY <4>1 DEF Messages
      <4>3. inst' \in [Ids -> Insts] /\ (hosts' = hosts \/ hosts' = hosts \cup {Head(wire).id[1]})
        BY <4>1, <4>2, AbsorbIs
      <4>4. QED
        BY <4>1, <4>2, <4>3, IdsAre DEF Typed, AirTyped
    <3>3. QED
      BY <3>1, <3>2
  <2>3. AirTyped'
    BY <1>7, <2>2, RecvIs DEF histVars, Typed, AirTyped
  <2>4. QED
    BY <2>1, <2>3 DEF Typed
<1>8. CASE Scanned
  BY <1>8 DEF Scanned, afVars, callVars, mdnsVars, endVars, airVars, histVars,
              Typed, ThreadTyped, AirTyped, Pcs
<1>9. CASE Operation
  <2>1. op + 1 \in Nat
    BY DEF Typed, ThreadTyped
  <2>2. ThreadTyped'
    BY <1>9, <2>1, ArmIs DEF Operation, afVars, mdnsVars, endVars, Typed, ThreadTyped
  <2>3. QED
    BY <1>9, <2>2 DEF Operation, mdnsVars, airVars, histVars, Typed, AirTyped
<1>10. CASE Discovered
  <2>1. ThreadTyped'
    BY <1>10 DEF Discovered, GiveUp, afVars, mdnsVars, Typed, ThreadTyped, Pcs
  <2>2. ep \in Ids \cup {None} /\ told \subseteq Ids
    BY DEF Typed, ThreadTyped, AirTyped
  <2>3. ep \in Ids /\ (told' = told \/ told' = told \cup {ep})
    BY <1>10 DEF Discovered, Typed, ThreadTyped
  <2>4. QED
    BY <1>10, <2>1, <2>2, <2>3 DEF Discovered, mdnsVars, airVars, Typed, AirTyped
<1>11. CASE RecvFails
  BY <1>11 DEF RecvFails, GiveUp, afVars, callVars, mdnsVars, airVars, histVars,
               Typed, ThreadTyped, AirTyped, Pcs
<1>12. CASE \E i \in Ids : OnFound(i)
  <2>1. PICK i \in Ids : OnFound(i)
    BY <1>12
  <2>2. ThreadTyped'
    BY <2>1, OnFoundIs, ArmIs DEF afVars, callVars, Typed, ThreadTyped, Pcs
  <2>3. AirTyped'
    BY <2>1, OnFoundIs DEF airVars, histVars, Typed, AirTyped
  <2>4. QED
    BY <2>2, <2>3 DEF Typed
<1>13. CASE Tick
  <2>1. now + 1 \in Nat
    BY DEF Typed, ThreadTyped
  <2>2. QED
    BY <1>13, <2>1 DEF Tick, afVars, callVars, mdnsVars, endVars, airVars,
                       Typed, ThreadTyped, AirTyped
<1>14. CASE \E i \in Ids : Respond(i)
  <2>1. PICK i \in Ids : Respond(i)
    BY <1>14
  <2>2. PICK r \in SUBSET Types : wire' = Append(wire, [id |-> i, recs |-> r, counts |-> TRUE])
    BY <2>1, RespondIs
  <2>3. wire' \in Seq(Messages)
    BY <2>2, MessageIs, AppendProperties DEF Typed, AirTyped
  <2>4. ThreadTyped'
    BY <2>1, RespondIs DEF afVars, callVars, mdnsVars, endVars, Typed, ThreadTyped
  <2>5. due' \subseteq due /\ UNCHANGED <<inst, hosts, session, log, histVars>>
    BY <2>1, RespondIs DEF mdnsVars
  <2>6. QED
    BY <2>3, <2>4, <2>5 DEF histVars, Typed, AirTyped
<1>15. CASE \E i \in Ids : Lose(i)
  <2>1. PICK i \in Ids : Lose(i)
    BY <1>15
  <2>2. wire' \in Seq(Messages)
    <3>1. wire \in Seq(Messages) /\ Types \in SUBSET Types /\ FALSE \in BOOLEAN
      BY DEF Typed, AirTyped
    <3>2. [id |-> i, recs |-> Types, counts |-> FALSE] \in Messages
      BY <3>1, MessageIs
    <3>3. QED
      BY <2>1, <3>1, <3>2, LoseIs, AppendProperties
  <2>3. ThreadTyped'
    BY <2>1, LoseIs DEF afVars, callVars, mdnsVars, endVars, Typed, ThreadTyped
  <2>4. due' \subseteq due /\ UNCHANGED <<inst, hosts, session, log, stalled, told>>
    BY <2>1, LoseIs DEF mdnsVars
  <2>5. lost' \in [Ids -> Nat]
    <3>1. lost' = [lost EXCEPT ![i] = @ + 1] /\ lost \in [Ids -> Nat]
      BY <2>1, LoseIs DEF Typed, AirTyped
    <3>2. QED
      BY <3>1
  <2>6. QED
    BY <2>2, <2>3, <2>4, <2>5 DEF Typed, AirTyped
<1>16. CASE \E d \in Devices : Rotate(d)
  <2>1. PICK d \in Devices : Rotate(d)
    BY <1>16
  <2>2. session' \in [Devices -> 0 .. MaxSession]
    BY <2>1, <1>c DEF Rotate, Typed, AirTyped
  <2>3. ThreadTyped'
    BY <2>1 DEF Rotate, afVars, callVars, mdnsVars, endVars, Typed, ThreadTyped
  <2>4. due' \subseteq due /\ UNCHANGED <<inst, hosts, log, wire, histVars>>
    BY <2>1 DEF Rotate, mdnsVars
  <2>5. QED
    BY <2>2, <2>3, <2>4 DEF histVars, Typed, AirTyped
<1>17. CASE \E d \in Devices : LogFrame(d)
  <2>1. PICK d \in Devices, b \in BOOLEAN : /\ LogFrame(d)
                                            /\ log' = Append(log, [id |-> <<d, session[d]>>, srv |-> b])
    BY <1>17 DEF LogFrame
  <2>2. <<d, session[d]>> \in Ids
    BY DEF Typed, AirTyped, Ids
  <2>3. [id |-> <<d, session[d]>>, srv |-> b] \in Frames
    BY <2>2 DEF Frames
  <2>4. log' \in Seq(Frames)
    BY <2>1, <2>3, AppendProperties DEF Typed, AirTyped
  <2>5. ThreadTyped'
    BY <2>1 DEF LogFrame, afVars, callVars, mdnsVars, endVars, Typed, ThreadTyped
  <2>6. QED
    BY <2>1, <2>4, <2>5 DEF LogFrame, mdnsVars, histVars, Typed, AirTyped
<1>18. QED
  BY <1>1, <1>2, <1>3, <1>4, <1>5, <1>6, <1>7, <1>8, <1>9, <1>10, <1>11, <1>12, <1>13, <1>14, <1>15,
     <1>16, <1>17 DEF Next, Thread, Over

-----------------------------------------------------------------------------
(* The end, and whom it finds *)

\* What each kind of --to asks of the id of the receiver.
LEMMA MatchesIs ==
  ASSUME NEW i
  PROVE  /\ ToIsId(i) /\ ToIsMac(i) /\ AfNameOK(i) => Matches(i)
         /\ ToIsId(i) /\ ToIsMac(i) /\ OnAddNameOK(i) => Matches(i)
         /\ to.kind # "mac" /\ ~OnAddNameOK(i) => ~Matches(i)
BY DEF Matches, ToIsId, ToIsMac, AfNameOK, OnAddNameOK

\* A browse waits for nothing beyond its deadline, and none of its steps takes time.
LEMMA InTimeStep ==
  ASSUME Typed, InTime, [Next]_vars
  PROVE  InTime'
<1>t. now \in Nat /\ deadline \in Nat /\ wait \in Nat /\ Timeout \in Nat
  BY BrowseAssumption DEF Typed, ThreadTyped
<1>1. CASE UNCHANGED vars
  BY <1>1 DEF vars, callVars, InTime
<1>2. CASE AfAttempt \/ AfOperation \/ AfDiscovered
  BY <1>2 DEF AfAttempt, AfOperation, AfDiscovered, InTime
<1>3. CASE Start
  BY <1>3, <1>t DEF Start, InTime
<1>4. CASE Top
  <2>1. CASE now >= deadline
    BY <1>4, <2>1 DEF Top, GiveUp, InTime
  <2>2. CASE now < deadline
    <3>1. UNCHANGED <<now, deadline>>
      BY <1>4 DEF Top
    <3>2. QED
      BY <1>4, <1>t, <2>2, <3>1, TopWaits DEF InTime
  <2>3. QED
    BY <1>t, <2>1, <2>2
<1>5. CASE Recv
  BY <1>5, RecvIs DEF InTime
<1>6. CASE Scanned \/ RecvFails
  BY <1>6 DEF Scanned, RecvFails, GiveUp, callVars, InTime
<1>7. CASE Operation
  BY <1>7, ArmIs DEF Operation, InTime
<1>8. CASE Discovered
  BY <1>8 DEF Discovered, GiveUp, InTime
<1>9. CASE \E i \in Ids : OnFound(i)
  BY <1>9, OnFoundIs, ArmIs DEF callVars, InTime
<1>10. CASE Tick
  BY <1>10, <1>t DEF Tick, Waiting, callVars, InTime
<1>11. CASE \E i \in Ids : Respond(i) \/ Lose(i)
  BY <1>11, RespondIs, LoseIs DEF callVars, InTime
<1>12. CASE \E d \in Devices : Rotate(d) \/ LogFrame(d)
  BY <1>12 DEF Rotate, LogFrame, callVars, InTime
<1>13. QED
  BY <1>1, <1>2, <1>3, <1>4, <1>5, <1>6, <1>7, <1>8, <1>9, <1>10, <1>11, <1>12 DEF Next, Thread, Over

\* Who is asked, and who is chosen of those who answered.
LEMMA AskedStep ==
  ASSUME Typed, Asked, [Next]_vars
  PROVE  Asked'
<1>f. ASSUME UNCHANGED <<to, ep, chosen, told>>,
             pc' \in {"afdiscover", "discover"} => pc \in {"afdiscover", "discover"}
      PROVE  Asked'
  BY <1>f DEF Asked, Matches, ToIsId, ToIsMac
<1>g. ASSUME UNCHANGED <<to, chosen, told>>,
             pc' \in {"afdiscover", "discover"} => (ToIsId(ep) /\ ToIsMac(ep))'
      PROVE  Asked'
  BY <1>g DEF Asked, Matches
<1>1. CASE UNCHANGED vars
  BY <1>1, <1>f DEF vars, callVars, endVars, histVars
<1>2. CASE AfAttempt
  <2>1. UNCHANGED <<to, chosen, told>>
    BY <1>2 DEF AfAttempt, endVars, histVars
  <2>2. CASE pc' = "open"
    BY <2>1, <2>2, <1>g
  <2>3. CASE pc' # "open"
    <3>1. Freshest # None /\ ep' = Freshest
      BY <1>2, <2>3 DEF AfAttempt
    <3>2. ToIsId(Freshest) /\ ToIsMac(Freshest)
      BY <3>1, FreshestIs DEF Typed, AirTyped
    <3>3. (ToIsId(ep) /\ ToIsMac(ep))'
      BY <2>1, <3>1, <3>2 DEF ToIsId, ToIsMac
    <3>4. QED
      BY <2>1, <3>3, <1>g
  <2>4. QED
    BY <2>2, <2>3
<1>3. CASE AfOperation
  BY <1>3, <1>f DEF AfOperation, endVars, histVars
<1>4. CASE AfDiscovered
  <2>1. UNCHANGED <<to, told>> /\ pc = "afdiscover"
    BY <1>4 DEF AfDiscovered, histVars
  <2>2. ToIsId(ep) /\ ToIsMac(ep) /\ ep \in Ids
    BY <2>1 DEF Asked, Typed, ThreadTyped
  <2>3. CASE chosen' = ep /\ pc' = "found" /\ AfNameOK(ep)
    <3>1. Matches(ep) /\ ep # None
      BY <2>2, <2>3, MatchesIs, BrowseAssumption
    <3>2. QED
      BY <2>1, <2>3, <3>1 DEF Asked, Matches
  <2>4. CASE chosen' = chosen /\ pc' = "af"
    BY <2>1, <2>4, <1>g
  <2>5. QED
    BY <1>4, <2>3, <2>4 DEF AfDiscovered
<1>5. CASE Start
  BY <1>5, <1>f DEF Start, callVars, histVars
<1>6. CASE Top
  BY <1>6, <1>f DEF Top, GiveUp, histVars
<1>7. CASE Recv
  BY <1>7, <1>f DEF Recv, callVars, endVars, histVars
<1>8. CASE Scanned
  BY <1>8, <1>f DEF Scanned, callVars, endVars, histVars
<1>9. CASE Operation
  BY <1>9, <1>f DEF Operation, endVars, histVars
<1>10. CASE Discovered
  <2>1. UNCHANGED to /\ pc = "discover" /\ ep \in Ids /\ ep # None
    BY <1>10, BrowseAssumption DEF Discovered, Typed, ThreadTyped
  <2>2. ToIsId(ep) /\ ToIsMac(ep)
    BY <2>1 DEF Asked
  <2>3. CASE chosen' = ep /\ pc' = "found" /\ OnAddNameOK(ep)
    <3>1. Matches(ep)
      BY <2>2, <2>3, MatchesIs
    <3>2. QED
      BY <2>1, <2>3, <3>1 DEF Asked, Matches
  <2>4. CASE /\ chosen' = chosen /\ pc' \in {"scan", "end"}
             /\ told' = told \/ (told' = told \cup {ep} /\ ~OnAddNameOK(ep))
    <3>1. \A i \in told' : to.kind # "mac" /\ Matches(i) => i \in told
      BY <2>4, MatchesIs
    <3>2. QED
      BY <2>1, <2>4, <3>1 DEF Asked, Matches
  <2>5. QED
    BY <1>10, <2>3, <2>4 DEF Discovered, GiveUp
<1>11. CASE RecvFails
  BY <1>11, <1>f DEF RecvFails, GiveUp, callVars, histVars
<1>12. CASE \E i \in Ids : OnFound(i)
  <2>1. PICK i \in Ids : OnFound(i)
    BY <1>12
  <2>2. UNCHANGED <<to, chosen, told>>
    BY <2>1, OnFoundIs DEF histVars
  <2>3. CASE Candidate(i) /\ ep' = i
    BY <2>2, <2>3, <1>g DEF Candidate, ToIsId, ToIsMac
  <2>4. CASE pc' \in {"scan", "end"}
    BY <2>2, <2>4, <1>g
  <2>5. QED
    BY <2>1, <2>3, <2>4, OnFoundIs
<1>13. CASE Tick
  BY <1>13, <1>f DEF Tick, callVars, endVars
<1>14. CASE \E i \in Ids : Respond(i) \/ Lose(i)
  BY <1>14, <1>f, RespondIs, LoseIs DEF callVars, endVars, histVars
<1>15. CASE \E d \in Devices : Rotate(d) \/ LogFrame(d)
  BY <1>15, <1>f DEF Rotate, LogFrame, callVars, endVars, histVars
<1>16. QED
  BY <1>1, <1>2, <1>3, <1>4, <1>5, <1>6, <1>7, <1>8, <1>9, <1>10, <1>11, <1>12, <1>13, <1>14, <1>15
     DEF Next, Thread, Over

\* The inductive invariant of the first three theorems.
LEMMA BrowseInvStep == BrowseInv /\ [Next]_vars => BrowseInv'
BY TypedStep, InTimeStep, AskedStep DEF BrowseInv

\* It holds at the start.
LEMMA BrowseInvInit == Init => BrowseInv
<1> SUFFICES ASSUME Init PROVE BrowseInv
  OBVIOUS
<1>1. InTime /\ Asked
  BY DEF Init, InTime, Asked
<1>2. QED
  BY <1>1, TypedInit DEF BrowseInv

\* Each part of the state keeps its kind, times and positions included.
THEOREM BrowseTyping == Spec => []Typed
<1>1. BrowseInv => Typed
  BY DEF BrowseInv
<1>2. QED
  BY <1>1, BrowseInvInit, BrowseInvStep, PTL DEF Spec

\* A browse is over at its deadline, whichever peer it is in the middle of asking
\* (browse, Timed::arm).
THEOREM EndsInTimeAlways == Spec => []EndsInTime
<1>1. BrowseInv => EndsInTime
  BY DEF BrowseInv, InTime, EndsInTime
<1>2. QED
  BY <1>1, BrowseInvInit, BrowseInvStep, PTL DEF Spec

\* Whatever the log and the peers say, and whenever a device changes its id, the
\* receiver found is the one --to names (freshest, on_add).
THEOREM RightReceiverAlways == Spec => []RightReceiver
<1>1. BrowseInv => RightReceiver
  BY DEF BrowseInv, Asked, RightReceiver
<1>2. QED
  BY <1>1, BrowseInvInit, BrowseInvStep, PTL DEF Spec

-----------------------------------------------------------------------------
(* What answers is heard *)

\* The messages in the socket after one arrives.
LEMMA AppendSet ==
  ASSUME NEW S, NEW s \in Seq(S), NEW m \in S
  PROVE  ToSet(Append(s, m)) = ToSet(s) \cup {m}
<1>1. /\ Append(s, m) \in Seq(S) /\ Len(Append(s, m)) = Len(s) + 1
      /\ \A k \in 1 .. Len(s) : Append(s, m)[k] = s[k]
      /\ Append(s, m)[Len(s) + 1] = m
  BY AppendProperties
<1>2. /\ DOMAIN s = 1 .. Len(s) /\ DOMAIN Append(s, m) = 1 .. Len(s) + 1 /\ Len(s) \in Nat
  BY <1>1, ElementsOf
<1>3. 1 .. Len(s) + 1 = (1 .. Len(s)) \cup {Len(s) + 1}
  BY <1>2
<1>4. QED
  BY <1>1, <1>2, <1>3 DEF ToSet

\* The messages in the socket before one is read, and after.
LEMMA TailSet ==
  ASSUME NEW S, NEW s \in Seq(S), s # <<>>
  PROVE  ToSet(s) = ToSet(Tail(s)) \cup {Head(s)}
<1>1. /\ Head(s) = s[1] /\ Tail(s) \in Seq(S) /\ Len(Tail(s)) = Len(s) - 1 /\ Len(s) # 0
      /\ \A k \in 1 .. Len(Tail(s)) : Tail(s)[k] = s[k + 1]
  BY HeadTailProperties, EmptySeq
<1>2. /\ DOMAIN s = 1 .. Len(s) /\ DOMAIN Tail(s) = 1 .. Len(s) - 1 /\ Len(s) \in Nat
  BY <1>1, ElementsOf
<1>3. ASSUME NEW k \in 1 .. Len(s), k # 1 PROVE k - 1 \in 1 .. Len(s) - 1 /\ s[k] = Tail(s)[k - 1]
  <2>1. k - 1 \in 1 .. Len(s) - 1 /\ (k - 1) + 1 = k
    BY <1>2, <1>3
  <2>2. QED
    BY <1>1, <2>1
<1>4. ASSUME NEW k \in 1 .. Len(s) - 1 PROVE k + 1 \in 1 .. Len(s) /\ s[k + 1] = Tail(s)[k]
  BY <1>1, <1>2, <1>4
<1>5. 1 \in DOMAIN s
  BY <1>1, <1>2
<1>6. ToSet(s) \subseteq ToSet(Tail(s)) \cup {Head(s)}
  <2> SUFFICES ASSUME NEW k \in 1 .. Len(s)
               PROVE  s[k] \in ToSet(Tail(s)) \cup {Head(s)}
    BY <1>2 DEF ToSet
  <2>1. CASE k = 1
    BY <1>1, <2>1
  <2>2. CASE k # 1
    BY <1>2, <1>3, <2>2 DEF ToSet
  <2>3. QED
    BY <2>1, <2>2
<1>7. ToSet(Tail(s)) \cup {Head(s)} \subseteq ToSet(s)
  BY <1>1, <1>2, <1>4, <1>5 DEF ToSet
<1>8. QED
  BY <1>6, <1>7

\* The elements of a sequence, in any order.
LEMMA SetIn ==
  ASSUME NEW S, NEW s \in Seq(S)
  PROVE  \A m \in ToSet(s) : m \in S
BY ElementsOf DEF ToSet

\* An empty socket has no messages.
LEMMA EmptySet == ToSet(<<>>) = {}
BY DEF ToSet

\* What the steps of the air leave in the socket.
LEMMA RespondWire ==
  ASSUME Typed, NEW i \in Ids, Respond(i)
  PROVE  /\ \E t \in Types : <<i, t>> \in due
         /\ \E m \in Messages :
              /\ ToSet(wire') = ToSet(wire) \cup {m}
              /\ m.id = i /\ m.counts /\ {t \in Types : <<i, t>> \in due} \subseteq m.recs
              /\ m.recs = Types \/ m.recs = {t \in Types : <<i, t>> \in due}
<1>1. PICK r \in SUBSET Types : /\ wire' = Append(wire, [id |-> i, recs |-> r, counts |-> TRUE])
                                /\ r = Types \/ r = {t \in Types : <<i, t>> \in due}
  BY RespondIs
<1>2. /\ [id |-> i, recs |-> r, counts |-> TRUE] \in Messages
      /\ [id |-> i, recs |-> r, counts |-> TRUE].id = i
      /\ [id |-> i, recs |-> r, counts |-> TRUE].recs = r
      /\ [id |-> i, recs |-> r, counts |-> TRUE].counts = TRUE
  BY MessageIs
<1>3. PICK m \in Messages : wire' = Append(wire, m) /\ m.id = i /\ m.recs = r /\ m.counts
  BY <1>1, <1>2
<1>4. wire \in Seq(Messages)
  BY DEF Typed, AirTyped
<1>5. ToSet(wire') = ToSet(wire) \cup {m}
  BY <1>3, <1>4, AppendSet
<1>6. \E t \in Types : <<i, t>> \in due
  BY DEF Respond
<1>7. QED
  BY <1>1, <1>3, <1>5, <1>6

\* A lost answer leaves nothing in the socket that counts for another instance.
LEMMA LoseWire ==
  ASSUME Typed, NEW i \in Ids, Lose(i)
  PROVE  /\ \E t \in Types : <<i, t>> \in due
         /\ ToSet(wire) \subseteq ToSet(wire')
         /\ \A m \in ToSet(wire') \ ToSet(wire) : m \in Messages /\ m.id = i /\ m.recs = Types
<1>1. \E t \in Types : <<i, t>> \in due
  BY DEF Lose
<1>2. CASE wire' = wire
  BY <1>1, <1>2
<1>3. CASE wire' = Append(wire, [id |-> i, recs |-> Types, counts |-> FALSE])
  <2>1. Types \in SUBSET Types /\ FALSE \in BOOLEAN
    OBVIOUS
  <2>2. /\ [id |-> i, recs |-> Types, counts |-> FALSE] \in Messages
        /\ [id |-> i, recs |-> Types, counts |-> FALSE].id = i
        /\ [id |-> i, recs |-> Types, counts |-> FALSE].recs = Types
    BY <2>1, MessageIs
  <2>3. PICK m \in Messages : wire' = Append(wire, m) /\ m.id = i /\ m.recs = Types
    BY <1>3, <2>2
  <2>4. wire \in Seq(Messages)
    BY DEF Typed, AirTyped
  <2>5. ToSet(wire') = ToSet(wire) \cup {m}
    BY <2>3, <2>4, AppendSet
  <2>6. QED
    BY <1>1, <2>3, <2>5
<1>4. QED
  BY <1>2, <1>3, LoseIs

\* What a recv reads.
LEMMA RecvWire ==
  ASSUME Typed, Recv, wire # <<>>
  PROVE  \E m \in Messages :
           /\ m.id \in Ids /\ ToSet(wire) = ToSet(wire') \cup {m}
           /\ Absorb(m.id, Records(m))
<1>1. wire \in Seq(Messages)
  BY DEF Typed, AirTyped
<1>2. wire' = Tail(wire) /\ Head(wire) \in Messages /\ Absorb(Head(wire).id, Records(Head(wire)))
  BY <1>1, HeadTailProperties DEF Recv
<1>3. ToSet(wire) = ToSet(wire') \cup {Head(wire)}
  BY <1>1, <1>2, TailSet
<1>4. Head(wire).id \in Ids
  BY <1>2 DEF Messages
<1>5. QED
  BY <1>2, <1>3, <1>4

\* The thread's steps that change nothing about the instances.
Elsewhere ==
  \/ AfAttempt \/ AfOperation \/ AfDiscovered \/ Scanned \/ Operation \/ Discovered \/ RecvFails
  \/ (Top /\ now >= deadline)
  \/ \E d \in Devices : LogFrame(d)

\* None of them asks, listens, or lets time pass.
LEMMA ElsewhereIs ==
  ASSUME Elsewhere
  PROVE  /\ UNCHANGED <<now, inst, hosts, session, wire, due, lost, stalled>>
         /\ pc' # "recv"
         /\ pc' \in {"af", "afdiscover", "open"} => pc \in {"af", "afdiscover", "open"}
         /\ pc' = "top" => Scanned
<1>1. CASE AfAttempt \/ AfOperation \/ AfDiscovered
  BY <1>1 DEF AfAttempt, AfOperation, AfDiscovered, mdnsVars, airVars, histVars
<1>2. CASE Scanned
  BY <1>2 DEF Scanned, mdnsVars, airVars, histVars
<1>3. CASE Operation \/ RecvFails
  BY <1>3 DEF Operation, RecvFails, GiveUp, mdnsVars, airVars, histVars
<1>4. CASE Discovered
  BY <1>4 DEF Discovered, GiveUp, mdnsVars, airVars
<1>5. CASE Top /\ now >= deadline
  BY <1>5 DEF Top, GiveUp, histVars
<1>6. CASE \E d \in Devices : LogFrame(d)
  BY <1>6 DEF LogFrame, mdnsVars, histVars
<1>7. QED
  BY <1>1, <1>2, <1>3, <1>4, <1>5, <1>6 DEF Elsewhere

\* The steps that remain, besides.
LEMMA Steps ==
  ASSUME Typed, [Next]_vars
  PROVE  \/ UNCHANGED vars \/ Elsewhere \/ Start \/ (Top /\ now < deadline) \/ Recv \/ Tick
         \/ \E i \in Ids : OnFound(i) \/ Respond(i) \/ Lose(i)
         \/ \E d \in Devices : Rotate(d)
<1>1. now >= deadline \/ now < deadline
  BY DEF Typed, ThreadTyped
<1>2. QED
  BY <1>1 DEF Next, Thread, Over, Elsewhere

\* Nothing is known before the browse, nor resolved while it asks or listens.
LEMMA FreshStep ==
  ASSUME Typed, Fresh, [Next]_vars
  PROVE  Fresh'
<1>f. ASSUME UNCHANGED <<inst, hosts>>,
             pc' \in {"af", "afdiscover", "open"} => pc \in {"af", "afdiscover", "open"},
             pc' \in {"top", "recv"} => \A i \in Ids : ~Resolved(i)
      PROVE  Fresh'
  BY <1>f DEF Fresh, Open, Queried, Resolved
<1>1. CASE UNCHANGED vars
  BY <1>1, <1>f DEF vars, mdnsVars, Fresh
<1>2. CASE Elsewhere
  <2>1. Scanned => \A i \in Ids : ~Resolved(i)
    BY DEF Scanned
  <2>2. QED
    BY <1>2, <1>f, <2>1, ElsewhereIs
<1>3. CASE Start
  <2>1. \A i \in Ids : ~Resolved(i)
    BY <1>3 DEF Start, Fresh, Resolved, Open
  <2>2. QED
    BY <1>3, <1>f, <2>1 DEF Start, mdnsVars
<1>4. CASE Top /\ now < deadline
  <2>1. ~(now >= deadline)
    BY <1>4 DEF Typed, ThreadTyped
  <2>2. pc = "top" /\ pc' = "recv" /\ hosts' = hosts
    BY <1>4, <2>1 DEF Top
  <2>3. ASSUME NEW i \in Ids PROVE ~Resolved(i)' /\ (Open(i)' => Queried(i)')
    <3>1. CASE Open(i) /\ ~Late(i)
      <4>1. First(i) \in Nat
        BY FirstIs
      <4>2. inst'[i].srv = inst[i].srv /\ inst'[i].txt = inst[i].txt /\ inst'[i].first = First(i)
        BY <1>4, <3>1, TopIs
      <4>3. ~Resolved(i)
        BY <2>2 DEF Fresh
      <4>4. QED
        BY <2>2, <3>1, <4>1, <4>2, <4>3 DEF Resolved, Queried, Unasked
    <3>2. CASE Late(i)
      <4>1. inst'[i].done
        BY <1>4, <3>2, TopIs, InstsAre
      <4>2. QED
        BY <4>1 DEF Resolved, Open
    <3>3. CASE ~Open(i) /\ ~Late(i)
      <4>1. inst'[i] = inst[i]
        BY <1>4, <3>3, TopIs
      <4>2. QED
        BY <3>3, <4>1 DEF Resolved, Open
    <3>4. QED
      BY <3>1, <3>2, <3>3
  <2>4. QED
    BY <2>2, <2>3 DEF Fresh
<1>5. CASE Recv
  <2>1. pc' = "scan"
    BY <1>5 DEF Recv
  <2>2. CASE wire # <<>>
    <3>1. PICK m \in Messages : m.id \in Ids /\ Absorb(m.id, Records(m))
      BY <1>5, <2>2, RecvWire
    <3>2. ASSUME NEW i \in Ids, Open(i)', ~Queried(i)' PROVE inst'[i].lastQuery = Unasked
      <4>1. CASE i # m.id
        <5>1. inst'[i] = inst[i]
          BY <3>1, <4>1, AbsorbIs
        <5>2. QED
          BY <3>2, <5>1 DEF Fresh, Open, Queried
      <4>2. CASE i = m.id /\ Open(i)
        <5>1. inst'[i].first = inst[i].first /\ inst'[i].lastQuery = inst[i].lastQuery
          BY <3>1, <4>2, AbsorbIs
        <5>2. QED
          BY <3>2, <4>2, <5>1 DEF Fresh, Queried
      <4>3. CASE i = m.id /\ ~Open(i)
        BY <3>1, <3>2, <4>3, AbsorbIs DEF Open
      <4>4. QED
        BY <4>1, <4>2, <4>3
    <3>3. QED
      BY <2>1, <3>2 DEF Fresh
  <2>3. CASE UNCHANGED <<inst, hosts>>
    BY <1>f, <2>1, <2>3
  <2>4. QED
    BY <1>5, <2>2, <2>3, RecvIs
<1>6. CASE Tick
  BY <1>6, <1>f DEF Tick, mdnsVars, Fresh
<1>7. CASE \E i \in Ids : OnFound(i)
  <2>1. PICK i \in Ids : OnFound(i)
    BY <1>7
  <2>2. pc' \notin {"af", "afdiscover", "open", "top", "recv"}
    BY <2>1, OnFoundIs
  <2>3. ASSUME NEW j \in Ids, Open(j)', ~Queried(j)' PROVE inst'[j].lastQuery = Unasked
    <3>1. j # i
      BY <2>1, <2>3, OnFoundIs, InstsAre DEF Open
    <3>2. inst'[j] = inst[j]
      BY <2>1, <3>1, OnFoundIs
    <3>3. QED
      BY <2>3, <3>2 DEF Fresh, Open, Queried
  <2>4. QED
    BY <2>2, <2>3 DEF Fresh
<1>8. CASE \E i \in Ids : Respond(i) \/ Lose(i)
  BY <1>8, <1>f, RespondIs, LoseIs DEF mdnsVars, Fresh
<1>9. CASE \E d \in Devices : Rotate(d)
  BY <1>9, <1>f DEF Rotate, mdnsVars, Fresh
<1>10. QED
  BY <1>1, <1>2, <1>3, <1>4, <1>5, <1>6, <1>7, <1>8, <1>9, Steps

\* Service and text are asked for, sent and kept together.
LEMMA TogetherStep ==
  ASSUME Typed, Together, [Next]_vars
  PROVE  Together'
<1>t. /\ session \in [Devices -> 0 .. MaxSession] /\ MaxSession \in Nat
      /\ wire \in Seq(Messages) /\ due \subseteq Ids \X Types
  BY BrowseAssumption DEF Typed, AirTyped
<1>f. ASSUME UNCHANGED <<inst, session, wire, due>> PROVE Together'
  BY <1>f DEF Together
<1>s. ASSUME UNCHANGED <<session>>, ToSet(wire') \subseteq ToSet(wire), due' = due,
             \A i \in Ids : /\ inst'[i].srv = inst'[i].txt
                            /\ inst'[i].known => i[2] <= session[i[1]]
      PROVE  Together'
  BY <1>s DEF Together
<1>1. CASE UNCHANGED vars \/ Elsewhere \/ Start \/ Tick
  BY <1>1, <1>f, ElsewhereIs DEF vars, mdnsVars, airVars, Start, Tick
<1>2. CASE Top /\ now < deadline
  <2>1. UNCHANGED <<session, wire>>
    BY <1>2 DEF Top
  <2>2. ASSUME NEW i \in Ids
        PROVE  /\ inst'[i].srv = inst'[i].txt
               /\ inst'[i].known => i[2] <= session[i[1]]
    BY <1>2, TopIs, InstsAre DEF Together, Late, Open
  <2>3. ASSUME NEW i \in Ids, NEW t \in {"srv", "txt"}, <<i, t>> \in due'
        PROVE  /\ i[2] = session[i[1]]
               /\ \/ <<i, t>> \in due
                  \/ Asks(i) /\ ~inst[i].srv /\ ~inst[i].txt
    <3>1. i[2] = session[i[1]]
      BY <1>2, <2>3, TopDue
    <3>2. CASE \E j \in Ids : Asks(j) /\ <<i, t>> \in Lacking(j)
      <4>1. PICK j \in Ids : Asks(j) /\ <<i, t>> \in Lacking(j)
        BY <3>2
      <4>2. j = i /\ (~inst[i].srv \/ ~inst[i].txt)
        BY <4>1 DEF Lacking
      <4>3. QED
        BY <3>1, <4>1, <4>2 DEF Together
    <3>3. QED
      BY <1>2, <2>3, <3>1, <3>2, TopDue
  <2>4. ASSUME NEW i \in Ids
        PROVE  <<i, "srv">> \in due' <=> <<i, "txt">> \in due'
    <3>1. ASSUME NEW t \in {"srv", "txt"}, NEW u \in {"srv", "txt"}, <<i, t>> \in due'
          PROVE  <<i, u>> \in due'
      <4>1. i[2] = session[i[1]]
        BY <2>3, <3>1
      <4>2. CASE <<i, t>> \in due
        <5>1. <<i, u>> \in due
          BY <3>1, <4>2 DEF Together
        <5>2. QED
          BY <1>2, <4>1, <5>1, TopDue
      <4>3. CASE Asks(i) /\ ~inst[i].srv /\ ~inst[i].txt
        <5>1. <<i, u>> \in Lacking(i)
          BY <3>1, <4>3 DEF Lacking
        <5>2. QED
          BY <1>2, <4>1, <4>3, <5>1, TopDue
      <4>4. QED
        BY <2>3, <3>1, <4>2, <4>3
    <3>2. QED
      BY <3>1
  <2>5. \A q \in due' : q[1][2] = session[q[1][1]]
    BY <1>2, TopDue
  <2>6. QED
    BY <2>1, <2>2, <2>4, <2>5 DEF Together
<1>3. CASE Recv
  <2>1. UNCHANGED <<session, due>>
    BY <1>3 DEF Recv
  <2>2. CASE wire # <<>>
    <3>1. PICK m \in Messages : /\ m.id \in Ids /\ ToSet(wire) = ToSet(wire') \cup {m}
                                /\ Absorb(m.id, Records(m))
      BY <1>3, <2>2, RecvWire
    <3>2. ("srv" \in Records(m) <=> "txt" \in Records(m)) /\ m.id[2] <= session[m.id[1]]
      BY <3>1 DEF Together, Records
    <3>3. ASSUME NEW i \in Ids
          PROVE  /\ inst'[i].srv = inst'[i].txt
                 /\ inst'[i].known => i[2] <= session[i[1]]
      <4>1. CASE i # m.id
        <5>1. inst'[i] = inst[i]
          BY <3>1, <4>1, AbsorbIs
        <5>2. QED
          BY <5>1 DEF Together
      <4>2. CASE i = m.id
        <5>1. i[2] <= session[i[1]]
          BY <3>2, <4>2
        <5>2. inst[i].srv = inst[i].txt
          BY DEF Together
        <5>3. inst'[i].srv = inst'[i].txt
          <6>1. CASE inst'[i] = inst[i]
            BY <5>2, <6>1
          <6>2. CASE ~inst[i].known /\ "ptr" \in Records(m)
            BY <3>1, <3>2, <4>2, <6>2, AbsorbIs
          <6>3. CASE Open(i)
            BY <3>1, <3>2, <4>2, <5>2, <6>3, AbsorbIs
          <6>4. QED
            BY <3>1, <4>2, <6>1, <6>2, <6>3, AbsorbIs DEF Open
        <5>4. QED
          BY <5>1, <5>3
      <4>3. QED
        BY <4>1, <4>2
    <3>4. ToSet(wire') \subseteq ToSet(wire)
      BY <3>1
    <3>5. QED
      BY <1>s, <2>1, <3>3, <3>4
  <2>3. CASE UNCHANGED <<wire, inst>>
    BY <1>f, <2>1, <2>3
  <2>4. QED
    BY <1>3, <2>2, <2>3, RecvIs
<1>4. CASE \E i \in Ids : OnFound(i)
  <2>1. PICK i \in Ids : OnFound(i)
    BY <1>4
  <2>2. UNCHANGED <<session, wire, due>>
    BY <2>1 DEF OnFound, airVars
  <2>3. inst[i].known /\ inst'[i] = DoneInst /\ \A j \in Ids \ {i} : inst'[j] = inst[j]
    BY <2>1, OnFoundIs DEF Resolved, Open
  <2>4. ASSUME NEW j \in Ids
        PROVE  /\ inst'[j].srv = inst'[j].txt
               /\ inst'[j].known => j[2] <= session[j[1]]
    <3>1. CASE j = i
      BY <2>3, <3>1, InstsAre DEF Together
    <3>2. CASE j # i
      BY <2>3, <3>2 DEF Together
    <3>3. QED
      BY <3>1, <3>2
  <2>5. QED
    BY <1>s, <2>2, <2>4
<1>5. CASE \E i \in Ids : Respond(i)
  <2>1. PICK i \in Ids : Respond(i)
    BY <1>5
  <2>2. UNCHANGED <<inst, session>> /\ due' = {q \in due : q[1] # i}
    BY <2>1, RespondIs DEF mdnsVars
  <2>3. i[2] = session[i[1]]
    BY <2>1, RespondWire DEF Together
  <2>4. PICK m \in Messages : /\ ToSet(wire') = ToSet(wire) \cup {m} /\ m.id = i
                              /\ m.recs = Types \/ m.recs = {t \in Types : <<i, t>> \in due}
    BY <2>1, RespondWire
  <2>5. "srv" \in m.recs <=> "txt" \in m.recs
    BY <2>4 DEF Together, Types
  <2>6. m.id[2] <= session[m.id[1]]
    BY <1>t, <2>3, <2>4, IdsAre
  <2>7. \A j \in Ids : <<j, "srv">> \in due' <=> <<j, "txt">> \in due'
    BY <2>2 DEF Together
  <2>8. \A q \in due' : q[1][2] = session[q[1][1]]
    BY <2>2 DEF Together
  <2>9. QED
    BY <2>2, <2>4, <2>5, <2>6, <2>7, <2>8 DEF Together
<1>6. CASE \E i \in Ids : Lose(i)
  <2>1. PICK i \in Ids : Lose(i)
    BY <1>6
  <2>2. UNCHANGED <<inst, session>> /\ due' = {q \in due : q[1] # i}
    BY <2>1, LoseIs DEF mdnsVars
  <2>3. i[2] = session[i[1]]
    BY <2>1, LoseWire DEF Together
  <2>4. \A m \in ToSet(wire') : m \in ToSet(wire) \/ (m.id = i /\ m.recs = Types)
    BY <2>1, LoseWire
  <2>5. i[2] <= session[i[1]]
    BY <1>t, <2>3, IdsAre
  <2>6. \A m \in ToSet(wire') : /\ "srv" \in m.recs <=> "txt" \in m.recs
                                /\ m.id[2] <= session[m.id[1]]
    BY <2>4, <2>5 DEF Together, Types
  <2>7. \A j \in Ids : <<j, "srv">> \in due' <=> <<j, "txt">> \in due'
    BY <2>2 DEF Together
  <2>8. \A q \in due' : q[1][2] = session[q[1][1]]
    BY <2>2 DEF Together
  <2>9. QED
    BY <2>2, <2>6, <2>7, <2>8 DEF Together
<1>7. CASE \E d \in Devices : Rotate(d)
  <2>1. PICK d \in Devices : Rotate(d)
    BY <1>7
  <2>2. /\ UNCHANGED <<inst, wire>> /\ due' = {q \in due : q[1][1] # d}
        /\ session' = [session EXCEPT ![d] = @ + 1]
    BY <2>1 DEF Rotate, mdnsVars
  <2>3. \A e \in Devices : session[e] <= session'[e] /\ (e # d => session'[e] = session[e])
    BY <1>t, <2>2
  <2>4. \A e \in Devices : session[e] \in Int /\ session'[e] \in Int
    BY <1>t, <2>2
  <2>5. \A i \in Ids : i[2] <= session[i[1]] => i[2] <= session'[i[1]]
    BY <2>3, <2>4, IdsAre
  <2>6. \A m \in ToSet(wire) : m.id \in Ids
    <3>1. \A m \in ToSet(wire) : m \in Messages
      BY <1>t, SetIn
    <3>2. QED
      BY <3>1 DEF Messages
  <2>7. \A q \in due' : q[1][2] = session'[q[1][1]]
    BY <1>t, <2>2, <2>3, IdsAre DEF Together
  <2>8. \A j \in Ids : <<j, "srv">> \in due' <=> <<j, "txt">> \in due'
    BY <2>2 DEF Together
  <2>9. QED
    BY <2>2, <2>5, <2>6, <2>7, <2>8 DEF Together
<1>8. QED
  BY <1>1, <1>2, <1>3, <1>4, <1>5, <1>6, <1>7, Steps

\* Something is always needed, and what is silent is not pending.
LEMMA NotPending ==
  ASSUME NEW i \in Ids
  PROVE  Silent(i) => ~Pending(i)
<1>1. Needs(i) \subseteq Types /\ \E t \in Types : t \in Needs(i)
  BY DEF Needs, Types
<1>2. QED
  BY <1>1 DEF Silent, Pending

\* A step that changes neither the instance nor what is asked or said of it.
LEMMA PacedSame ==
  ASSUME NEW i \in Ids, Live(i) => Prompt(i) /\ Fruitful(i),
         UNCHANGED <<now, hosts, session, wire, due, lost>>, inst'[i] = inst[i],
         stalled' = stalled,
         pc' = "recv" => pc = "recv" /\ wait' = wait
  PROVE  (Live(i) => Prompt(i) /\ Fruitful(i))'
BY DEF Live, Prompt, Fruitful, Silent, Pending, Stage, Needs, Queried, Open

\* Without a change of its own an instance keeps its pace when its answer comes or is lost.
LEMMA PacedAir ==
  ASSUME NEW i \in Ids, Live(i) => Prompt(i) /\ Fruitful(i),
         Typed, lost'[i] \in Nat,
         UNCHANGED <<now, hosts, pc, wait, stalled>>, inst'[i] = inst[i],
         session'[i[1]] = session[i[1]],
         Silent(i) => Silent(i)',
         \/ lost'[i] = lost[i] /\ (Pending(i) => Pending(i)')
         \/ lost'[i] = lost[i] + 1
  PROVE  (Live(i) => Prompt(i) /\ Fruitful(i))'
<1> SUFFICES ASSUME Live(i)' PROVE Prompt(i)' /\ Fruitful(i)'
  OBVIOUS
<1>1. Live(i) /\ Stage(i)' = Stage(i)
  BY DEF Live, Queried, Open, Stage
<1>2. Prompt(i)'
  BY <1>1 DEF Prompt
<1>3. lost[i] \in Nat /\ Stage(i) \in Nat
  BY DEF Typed, AirTyped, Stage
<1>4. Fruitful(i)'
  BY <1>1, <1>3 DEF Fruitful, Prompt
<1>5. QED
  BY <1>2, <1>4

\* The top of the loop asks again, unless the second is not over.
LEMMA PacedTop ==
  ASSUME Typed, Together, Fresh, Top, now < deadline, NEW i \in Ids,
         Live(i) => Prompt(i) /\ Fruitful(i)
  PROVE  (Live(i) => Prompt(i) /\ Fruitful(i))'
<1> SUFFICES ASSUME Live(i)' PROVE Prompt(i)' /\ Fruitful(i)'
  OBVIOUS
<1>1. ~(now >= deadline) /\ now \in Nat /\ Resolve \in Nat \ {0}
  BY BrowseAssumption DEF Typed, ThreadTyped
<1>2. pc = "top" /\ pc' = "recv" /\ UNCHANGED <<now, hosts, session, wire, lost, stalled>>
  BY <1>1 DEF Top, histVars
<1>3. ~Late(i)
  <2>1. ~inst'[i].done
    BY DEF Live, Open
  <2>2. QED
    BY <2>1, TopIs, InstsAre
<1>4. Open(i)
  <2>1. ~Open(i) => inst'[i] = inst[i]
    BY <1>3, TopIs
  <2>2. QED
    BY <2>1 DEF Live, Open
<1>5. /\ inst'[i].srv = inst[i].srv /\ inst'[i].first = First(i)
      /\ inst'[i].lastQuery = IF Asks(i) THEN now ELSE inst[i].lastQuery
  BY <1>3, <1>4, TopIs
<1>6. Stage(i)' = Stage(i) /\ Needs(i)' = Needs(i)
  BY <1>2, <1>5 DEF Stage, Needs
<1>7. i \notin stalled /\ i[2] = session[i[1]]
  BY <1>2 DEF Live
<1>8. First(i) \in Nat /\ now - First(i) < Resolve
  BY <1>1, <1>3, <1>4, FirstIs DEF Late
<1>9. lost[i] \in Nat /\ Stage(i) \in Nat
  BY DEF Typed, AirTyped, Stage
<1>10. inst'[i].lastQuery \in Nat => wait' <= inst'[i].lastQuery + 1
  BY <1>3, <1>4, TopWaits
<1>11. ASSUME Asks(i) PROVE Pending(i)'
  <2>1. Needs(i) \subseteq {t \in Types : <<i, t>> \in Lacking(i)}
    <3>1. inst[i].srv = inst[i].txt /\ ~Resolved(i)
      BY <1>2 DEF Together, Fresh
    <3>2. CASE inst[i].srv
      BY <1>4, <3>1, <3>2 DEF Resolved, Lacking, Needs, Types
    <3>3. CASE ~inst[i].srv
      BY <3>1, <3>3 DEF Lacking, Needs, Types
    <3>4. QED
      BY <3>2, <3>3
  <2>2. \A t \in Needs(i) : <<i, t>> \in due'
    BY <1>7, <1>11, <2>1, TopDue
  <2>3. QED
    BY <1>6, <2>2 DEF Pending
<1>12. CASE ~Queried(i)
  <2>1. inst[i].lastQuery = Unasked
    BY <1>4, <1>12 DEF Fresh
  <2>2. Asks(i) /\ First(i) = now
    BY <1>3, <1>4, <1>12, <2>1, FirstIs DEF Asks, Queried
  <2>3. inst'[i].first = now /\ inst'[i].lastQuery = now
    BY <1>5, <2>2
  <2>4. Prompt(i)'
    BY <1>1, <1>2, <1>10, <2>3 DEF Prompt
  <2>5. Fruitful(i)'
    BY <1>1, <1>2, <1>6, <1>9, <1>11, <2>2, <2>3 DEF Fruitful
  <2>6. QED
    BY <2>4, <2>5
<1>13. CASE Queried(i)
  <2>1. Prompt(i) /\ Fruitful(i)
    BY <1>4, <1>7, <1>13 DEF Live
  <2>2. First(i) = inst[i].first
    BY <1>13, FirstIs DEF Queried
  <2>3. CASE inst[i].lastQuery = now
    <3>1. ~Asks(i)
      BY <1>1, <2>3 DEF Asks, Unasked
    <3>2. inst'[i].first = inst[i].first /\ inst'[i].lastQuery = inst[i].lastQuery
      BY <1>5, <2>2, <3>1
    <3>3. Pending(i) => Pending(i)'
      <4>1. \A t \in Needs(i) : <<i, t>> \in due => <<i, t>> \in due'
        BY <1>7, TopDue
      <4>2. QED
        BY <1>2, <1>6, <4>1 DEF Pending
    <3>4. Prompt(i)'
      BY <1>2, <1>10, <2>1, <2>3, <3>2 DEF Prompt
    <3>5. Fruitful(i)'
      BY <1>2, <1>6, <2>1, <3>2, <3>3 DEF Fruitful
    <3>6. QED
      BY <3>4, <3>5
  <2>4. CASE inst[i].lastQuery # now
    <3>1. inst[i].lastQuery \in Nat /\ inst[i].lastQuery < now /\ now = inst[i].lastQuery + 1
      BY <1>1, <2>1, <2>4 DEF Prompt
    <3>2. Asks(i)
      BY <1>1, <1>3, <1>4, <3>1 DEF Asks
    <3>3. inst'[i].first = inst[i].first /\ inst'[i].lastQuery = now
      BY <1>5, <2>2, <3>2
    <3>4. inst[i].first \in Nat /\ inst[i].lastQuery - inst[i].first + 1 <= Stage(i) + lost[i]
      BY <2>1, <3>1, NotPending DEF Prompt, Fruitful
    <3>5. Prompt(i)'
      BY <1>1, <1>2, <1>8, <1>10, <2>1, <2>2, <3>1, <3>3 DEF Prompt
    <3>6. now - inst[i].first <= Stage(i) + lost[i]
      BY <3>1, <3>4
    <3>7. Fruitful(i)'
      BY <1>2, <1>6, <1>11, <3>2, <3>3, <3>6 DEF Fruitful
    <3>8. QED
      BY <3>5, <3>7
  <2>5. QED
    BY <2>3, <2>4
<1>14. QED
  BY <1>12, <1>13

\* A message brings its instance further, or leaves it where it was.
LEMMA PacedRecv ==
  ASSUME Typed, Together, Fresh, Recv, wire # <<>>, NEW i \in Ids,
         Live(i) => Prompt(i) /\ Fruitful(i)
  PROVE  (Live(i) => Prompt(i) /\ Fruitful(i))'
<1> SUFFICES ASSUME Live(i)' PROVE Prompt(i)' /\ Fruitful(i)'
  OBVIOUS
<1>1. pc = "recv" /\ pc' = "scan" /\ UNCHANGED <<now, session, due, lost, stalled>>
  BY DEF Recv, histVars
<1>2. PICK m \in Messages : /\ m.id \in Ids /\ ToSet(wire) = ToSet(wire') \cup {m}
                            /\ Absorb(m.id, Records(m))
  BY RecvWire
<1>3. hosts' = hosts \cup IF "aaaa" \in Records(m) THEN {m.id[1]} ELSE {}
  BY <1>2, AbsorbIs
<1>4. /\ Open(i)
      /\ inst'[i].first = inst[i].first /\ inst'[i].lastQuery = inst[i].lastQuery
      /\ inst'[i].srv = (inst[i].srv \/ (i = m.id /\ "srv" \in Records(m)))
  <2>1. inst \in [Ids -> Insts] /\ inst[i].srv \in BOOLEAN
    BY DEF Typed, AirTyped, Insts
  <2>2. CASE i # m.id
    <3>1. inst'[i] = inst[i]
      BY <1>2, <2>2, AbsorbIs
    <3>2. QED
      BY <2>1, <2>2, <3>1 DEF Live, Open
  <2>3. CASE i = m.id /\ Open(i)
    BY <1>2, <2>3, AbsorbIs
  <2>4. CASE i = m.id /\ ~Open(i)
    <3>1. inst'[i] = inst[i] \/ inst'[i].first = Unasked
      BY <1>2, <2>4, AbsorbIs DEF Open
    <3>2. QED
      BY <2>4, <3>1 DEF Live, Open, Queried
  <2>5. QED
    BY <2>2, <2>3, <2>4
<1>5. Live(i)
  BY <1>1, <1>4 DEF Live, Queried
<1>6. Prompt(i) /\ Fruitful(i)
  BY <1>5
<1>7. Prompt(i)'
  <2>1. Silent(i) => Silent(i)'
    BY <1>1, <1>2 DEF Silent
  <2>2. QED
    BY <1>1, <1>4, <1>6, <2>1 DEF Prompt
<1>8. /\ inst[i].lastQuery \in Nat /\ inst[i].first \in Nat /\ lost[i] \in Nat
      /\ Stage(i) \in 0 .. 2 /\ Stage(i)' \in 0 .. 2
  BY <1>6 DEF Prompt, Typed, AirTyped, Stage
<1>9. Stage(i) <= Stage(i)'
  <2>1. hosts \subseteq hosts'
    BY <1>3
  <2>2. CASE ~inst[i].srv
    BY <1>8, <2>2 DEF Stage
  <2>3. CASE inst[i].srv
    <3>1. inst'[i].srv
      BY <1>4, <2>3
    <3>2. CASE i[1] \in hosts
      BY <2>1, <2>3, <3>1, <3>2 DEF Stage
    <3>3. CASE i[1] \notin hosts
      BY <2>3, <3>1, <3>3 DEF Stage
    <3>4. QED
      BY <3>2, <3>3
  <2>4. QED
    BY <2>2, <2>3
<1>10. ~inst[i].srv /\ inst'[i].srv => Stage(i) + 1 <= Stage(i)'
  BY <1>8 DEF Stage
<1>11. ASSUME Pending(i) PROVE Pending(i)' \/ Stage(i) + 1 <= Stage(i)'
  <2>a. inst[i].srv \in BOOLEAN
    BY DEF Typed, AirTyped, Insts
  <2>1. CASE ~inst[i].srv /\ inst'[i].srv
    BY <1>10, <2>1
  <2>2. CASE inst'[i].srv = inst[i].srv
    <3>1. Needs(i)' = Needs(i)
      BY <2>2 DEF Needs
    <3>2. CASE \A t \in Needs(i) : <<i, t>> \in due
      BY <1>1, <3>1, <3>2 DEF Pending
    <3>3. CASE \E n \in ToSet(wire) : n.id = i /\ n.counts /\ Needs(i) \subseteq n.recs
      <4>1. PICK n \in ToSet(wire) : n.id = i /\ n.counts /\ Needs(i) \subseteq n.recs
        BY <3>3
      <4>2. CASE n \in ToSet(wire')
        BY <3>1, <4>1, <4>2 DEF Pending
      <4>3. CASE n = m
        <5>1. Needs(i) \subseteq Records(m) /\ m.id = i
          BY <4>1, <4>3 DEF Records
        <5>2. inst[i].srv
          BY <1>4, <2>2, <5>1 DEF Needs
        <5>3. "aaaa" \in Records(m)
          BY <5>1, <5>2 DEF Needs
        <5>4. i[1] \notin hosts /\ i[1] \in hosts'
          <6>1. inst[i].txt /\ ~Resolved(i)
            BY <1>1, <5>2 DEF Together, Fresh
          <6>2. QED
            BY <1>3, <1>4, <5>1, <5>2, <5>3, <6>1 DEF Resolved
        <5>5. QED
          BY <2>2, <5>2, <5>4 DEF Stage
      <4>4. QED
        BY <1>2, <4>1, <4>2, <4>3
    <3>4. QED
      BY <1>11, <3>2, <3>3 DEF Pending
  <2>3. QED
    BY <1>4, <2>a, <2>1, <2>2
<1>12. Fruitful(i)'
  <2>1. CASE inst[i].lastQuery - inst[i].first + 1 <= Stage(i) + lost[i]
    <3>1. inst[i].lastQuery - inst[i].first + 1 <= Stage(i)' + lost[i]
      BY <1>8, <1>9, <2>1
    <3>2. QED
      BY <1>1, <1>4, <3>1 DEF Fruitful
  <2>2. CASE Pending(i) /\ inst[i].lastQuery - inst[i].first <= Stage(i) + lost[i]
    <3>1. CASE Pending(i)'
      <4>1. inst[i].lastQuery - inst[i].first <= Stage(i)' + lost[i]
        BY <1>8, <1>9, <2>2
      <4>2. QED
        BY <1>1, <1>4, <3>1, <4>1 DEF Fruitful
    <3>2. CASE Stage(i) + 1 <= Stage(i)'
      <4>1. inst[i].lastQuery - inst[i].first + 1 <= Stage(i)' + lost[i]
        <5>1. inst[i].lastQuery - inst[i].first + 1 <= Stage(i) + 1 + lost[i]
          BY <1>8, <2>2
        <5>2. Stage(i) + 1 + lost[i] <= Stage(i)' + lost[i]
          BY <1>8, <3>2
        <5>3. QED
          BY <1>8, <5>1, <5>2
      <4>2. QED
        BY <1>1, <1>4, <4>1 DEF Fruitful
    <3>3. QED
      BY <1>11, <2>2, <3>1, <3>2
  <2>3. QED
    BY <1>6, <2>1, <2>2 DEF Fruitful
<1>13. QED
  BY <1>7, <1>12

\* A second passes only when nothing is on its way.
LEMMA PacedTick ==
  ASSUME Typed, Fresh, Tick, NEW i \in Ids,
         Live(i) => Prompt(i) /\ Fruitful(i)
  PROVE  (Live(i) => Prompt(i) /\ Fruitful(i))'
<1> SUFFICES ASSUME Live(i)' PROVE Prompt(i)' /\ Fruitful(i)'
  OBVIOUS
<1>1. /\ Waiting /\ due = {} /\ (pc = "recv" => wire = <<>>) /\ now' = now + 1
      /\ UNCHANGED <<inst, hosts, pc, wait, session, wire, due, lost>>
      /\ stalled' = IF pc = "discover" THEN stalled \cup {j \in Ids : Open(j)} ELSE stalled
  BY DEF Tick, mdnsVars, callVars, airVars
<1>2. Open(i)
  BY <1>1 DEF Live, Open
<1>3. pc = "recv" /\ now < wait
  <2>1. pc # "discover"
    BY <1>1, <1>2 DEF Live
  <2>2. pc # "afdiscover"
    BY <1>2 DEF Fresh, Open
  <2>3. QED
    BY <1>1, <2>1, <2>2 DEF Waiting
<1>4. Live(i)
  BY <1>1, <1>2, <1>3 DEF Live, Queried
<1>5. Prompt(i) /\ Fruitful(i)
  BY <1>4
<1>6. now \in Nat /\ wait \in Nat
  BY DEF Typed, ThreadTyped
<1>7. inst[i].lastQuery = now
  BY <1>3, <1>5, <1>6 DEF Prompt
<1>8. Silent(i) /\ Silent(i)'
  BY <1>1, <1>3, EmptySet DEF Silent
<1>9. Prompt(i)'
  BY <1>1, <1>3, <1>5, <1>6, <1>7, <1>8 DEF Prompt
<1>10. Fruitful(i)'
  <2>1. inst[i].lastQuery - inst[i].first + 1 <= Stage(i) + lost[i]
    BY <1>5, <1>8, NotPending DEF Fruitful
  <2>2. QED
    BY <1>1, <2>1 DEF Fruitful, Stage
<1>11. QED
  BY <1>9, <1>10

\* An instance that is alive is asked every second and its answers are taken in.
LEMMA PacedStep ==
  ASSUME Typed, Together, Fresh, Paced, [Next]_vars
  PROVE  Paced'
<1> SUFFICES ASSUME NEW i \in Ids
             PROVE  (Live(i) => Prompt(i) /\ Fruitful(i))'
  BY DEF Paced
<1>p. Live(i) => Prompt(i) /\ Fruitful(i)
  BY DEF Paced
<1>1. CASE UNCHANGED vars
  BY <1>1, <1>p, PacedSame DEF vars, callVars, mdnsVars, airVars, histVars
<1>2. CASE Elsewhere
  <2>1. UNCHANGED <<now, inst, hosts, session, wire, due, lost, stalled>> /\ pc' # "recv"
    BY <1>2, ElsewhereIs
  <2>2. QED
    BY <1>p, <2>1, PacedSame
<1>3. CASE Start
  <2>1. ~inst[i].known /\ inst' = inst
    BY <1>3 DEF Start, Fresh, mdnsVars
  <2>2. QED
    BY <2>1 DEF Live, Open
<1>4. CASE Top /\ now < deadline
  BY <1>p, <1>4, PacedTop
<1>5. CASE Recv
  <2>1. CASE wire # <<>>
    BY <1>p, <1>5, <2>1, PacedRecv
  <2>2. CASE UNCHANGED <<wire, inst, hosts>>
    <3>1. pc' = "scan" /\ UNCHANGED <<now, session, due, lost, stalled>>
      BY <1>5 DEF Recv, histVars
    <3>2. QED
      BY <1>p, <2>2, <3>1, PacedSame
  <2>3. QED
    BY <1>5, <2>1, <2>2, RecvIs
<1>6. CASE Tick
  BY <1>p, <1>6, PacedTick
<1>7. CASE \E j \in Ids : OnFound(j)
  <2>1. PICK j \in Ids : OnFound(j)
    BY <1>7
  <2>2. CASE i = j
    BY <2>1, <2>2, OnFoundIs, InstsAre DEF Live, Open
  <2>3. CASE i # j
    <3>1. inst'[i] = inst[i] /\ pc' # "recv"
      BY <2>1, <2>3, OnFoundIs
    <3>2. UNCHANGED <<now, hosts, session, wire, due, lost, stalled>>
      BY <2>1 DEF OnFound, airVars, histVars
    <3>3. QED
      BY <1>p, <3>1, <3>2, PacedSame
  <2>4. QED
    BY <2>2, <2>3
<1>8. CASE \E j \in Ids : Respond(j)
  <2>1. PICK j \in Ids : Respond(j)
    BY <1>8
  <2>2. /\ UNCHANGED <<now, pc, wait, inst, hosts, session, lost, stalled>>
        /\ due' = {q \in due : q[1] # j}
    BY <2>1, RespondIs DEF callVars, mdnsVars, histVars
  <2>3. PICK m \in Messages : /\ ToSet(wire') = ToSet(wire) \cup {m}
                              /\ m.id = j /\ m.counts
                              /\ {t \in Types : <<j, t>> \in due} \subseteq m.recs
    BY <2>1, RespondWire
  <2>4. Silent(i) => Silent(i)'
    <3>1. Silent(i) => i # j
      BY <2>1, RespondWire DEF Silent
    <3>2. QED
      BY <2>2, <2>3, <3>1 DEF Silent
  <2>5. Pending(i) => Pending(i)'
    <3>1. Needs(i)' = Needs(i) /\ Needs(i) \subseteq Types
      BY <2>2 DEF Needs, Types
    <3>2. CASE \E n \in ToSet(wire) : n.id = i /\ n.counts /\ Needs(i) \subseteq n.recs
      BY <2>3, <3>1, <3>2 DEF Pending
    <3>3. CASE \A t \in Needs(i) : <<i, t>> \in due
      <4>1. CASE i = j
        BY <2>3, <3>1, <3>3, <4>1 DEF Pending
      <4>2. CASE i # j
        BY <2>2, <3>1, <3>3, <4>2 DEF Pending
      <4>3. QED
        BY <4>1, <4>2
    <3>4. QED
      BY <3>2, <3>3 DEF Pending
  <2>6. lost'[i] = lost[i] /\ lost'[i] \in Nat
    BY <2>2 DEF Typed, AirTyped
  <2>7. QED
    BY <1>p, <2>2, <2>4, <2>5, <2>6, PacedAir
<1>9. CASE \E j \in Ids : Lose(j)
  <2>1. PICK j \in Ids : Lose(j)
    BY <1>9
  <2>2. /\ UNCHANGED <<now, pc, wait, inst, hosts, session, stalled>>
        /\ due' = {q \in due : q[1] # j} /\ lost' = [lost EXCEPT ![j] = @ + 1]
    BY <2>1, LoseIs DEF callVars, mdnsVars
  <2>3. /\ ToSet(wire) \subseteq ToSet(wire')
        /\ \A m \in ToSet(wire') \ ToSet(wire) : m.id = j
    BY <2>1, LoseWire
  <2>4. Silent(i) => Silent(i)'
    <3>1. Silent(i) => i # j
      BY <2>1, LoseWire DEF Silent
    <3>2. QED
      BY <2>2, <2>3, <3>1 DEF Silent
  <2>5. CASE i = j
    <3>1. lost'[i] = lost[i] + 1 /\ lost'[i] \in Nat
      BY <2>2, <2>5 DEF Typed, AirTyped
    <3>2. QED
      BY <1>p, <2>2, <2>4, <3>1, PacedAir
  <2>6. CASE i # j
    <3>1. lost'[i] = lost[i] /\ lost'[i] \in Nat
      BY <2>2, <2>6 DEF Typed, AirTyped
    <3>2. Pending(i) => Pending(i)'
      BY <2>2, <2>3, <2>6 DEF Pending, Needs
    <3>3. QED
      BY <1>p, <2>2, <2>4, <3>1, <3>2, PacedAir
  <2>7. QED
    BY <2>5, <2>6
<1>10. CASE \E d \in Devices : Rotate(d)
  <2>1. PICK d \in Devices : Rotate(d)
    BY <1>10
  <2>2. /\ UNCHANGED <<now, pc, wait, inst, hosts, wire, lost, stalled>>
        /\ due' = {q \in due : q[1][1] # d} /\ session' = [session EXCEPT ![d] = @ + 1]
    BY <2>1 DEF Rotate, callVars, mdnsVars, histVars
  <2>3. session \in [Devices -> 0 .. MaxSession] /\ MaxSession \in Nat
    BY BrowseAssumption DEF Typed, AirTyped
  <2>4. CASE i[1] = d
    <3>1. session'[d] = session[d] + 1 /\ session[d] \in Nat
      BY <2>2, <2>3
    <3>2. inst[i].known => i[2] <= session[d]
      BY <2>4 DEF Together
    <3>3. i[2] \in Nat
      BY <2>3, IdsAre
    <3>4. QED
      BY <2>2, <2>4, <3>1, <3>2, <3>3 DEF Live, Open
  <2>5. CASE i[1] # d
    <3>1. session'[i[1]] = session[i[1]]
      BY <2>2, <2>3, <2>5, IdsAre
    <3>2. (Silent(i) => Silent(i)') /\ (Pending(i) => Pending(i)')
      BY <2>2, <2>5 DEF Silent, Pending, Needs
    <3>3. lost'[i] = lost[i] /\ lost'[i] \in Nat
      BY <2>2 DEF Typed, AirTyped
    <3>4. QED
      BY <1>p, <2>2, <3>1, <3>2, <3>3, PacedAir
  <2>6. QED
    BY <2>4, <2>5
<1>11. QED
  BY <1>1, <1>2, <1>3, <1>4, <1>5, <1>6, <1>7, <1>8, <1>9, <1>10, Steps

\* The invariant of the last theorem at the start.
LEMMA HeardInit == Init => HeardInv
<1> SUFFICES ASSUME Init PROVE HeardInv
  OBVIOUS
<1>1. \A i \in Ids : inst[i] = Absent
  BY DEF Init
<1>2. wire = <<>> /\ due = {}
  BY DEF Init
<1>3. \A i \in Ids : ~inst[i].known /\ inst[i].srv = inst[i].txt
  BY <1>1 DEF Absent, NewInst
<1>4. Together
  BY <1>2, <1>3, EmptySet DEF Together
<1>5. Fresh /\ Paced
  BY <1>3 DEF Fresh, Paced, Live, Open, Resolved
<1>6. QED
  BY <1>4, <1>5 DEF HeardInv

\* It is inductive beside the first.
LEMMA HeardStep == BrowseInv /\ HeardInv /\ [Next]_vars => HeardInv'
BY TogetherStep, FreshStep, PacedStep DEF BrowseInv, HeardInv

\* An instance is dropped only when two of its answers were lost, when the thread spent
\* the time in another's /Discover, or when its session is over; and of those that told
\* their names the one that --to names was chosen (browse, on_add).  RESOLVE_TIMEOUT is
\* 3 s in the code.
THEOREM AnswersAreHeardAlways ==
  ASSUME Resolve >= 3
  PROVE  Spec => []AnswersAreHeard
<1>1. ASSUME BrowseInv, HeardInv PROVE AnswersAreHeard
  <2>1. Typed /\ Together /\ Fresh /\ Paced
    BY <1>1 DEF BrowseInv, HeardInv
  <2>2. ASSUME NEW i \in Ids, Late(i), pc = "top", i \notin stalled, i[2] = session[i[1]]
        PROVE  lost[i] > 1
    <3>1. now \in Nat /\ lost[i] \in Nat /\ Resolve \in Nat /\ First(i) \in Nat
      BY <2>1, FirstIs, BrowseAssumption DEF Typed, ThreadTyped, AirTyped
    <3>2. Open(i) /\ now - First(i) >= 3
      BY <2>2, <3>1 DEF Late
    <3>3. Queried(i)
      BY <2>1, <3>1, <3>2, FirstIs DEF Queried
    <3>4. First(i) = inst[i].first
      BY <2>1, <3>3, FirstIs DEF Queried
    <3>5. Prompt(i) /\ Fruitful(i)
      BY <2>1, <2>2, <3>2, <3>3 DEF Paced, Live
    <3>6. Stage(i) \in 0 .. 1
      <4>1. inst[i].srv = inst[i].txt /\ ~Resolved(i)
        BY <2>1, <2>2 DEF Together, Fresh
      <4>2. CASE inst[i].srv
        BY <3>2, <4>1, <4>2 DEF Resolved, Stage
      <4>3. CASE ~inst[i].srv
        BY <4>3 DEF Stage
      <4>4. QED
        BY <4>2, <4>3
    <3>7. inst[i].lastQuery # now
      BY <2>2, <3>1, <3>4, <3>5 DEF Late, Prompt
    <3>8. now = inst[i].lastQuery + 1 /\ ~Pending(i)
      BY <3>1, <3>5, <3>7, NotPending DEF Prompt
    <3>9. inst[i].lastQuery - inst[i].first + 1 <= Stage(i) + lost[i]
      BY <3>5, <3>8 DEF Fruitful
    <3>10. inst[i].lastQuery \in Nat /\ inst[i].first \in Nat
      BY <3>5 DEF Prompt
    <3>11. QED
      BY <3>1, <3>2, <3>4, <3>6, <3>8, <3>9, <3>10
  <2>3. \A i \in told : to.kind # "mac" /\ Matches(i) => chosen # None
    BY <1>1 DEF BrowseInv, Asked
  <2>4. QED
    BY <2>2, <2>3 DEF AnswersAreHeard
<1>2. QED
  BY <1>1, BrowseInvInit, BrowseInvStep, HeardInit, HeardStep, PTL DEF Spec
=============================================================================
