---------------------------- MODULE OmdropWindow ----------------------------
(***************************************************************************)
(* Receiving on and off (core/crates/omdrop-cli/src/window.rs, and the       *)
(* watcher of links.rs): `omdrop on` and `omdrop off`, run by people, by the *)
(* panel, and by the transient systemd units that `on` itself arms.          *)
(*                                                                         *)
(* A window is six things that must agree: the window file, the receiver     *)
(* service, the radio, the timer that ends a timed window, the timer that     *)
(* ends a window on a cached identity, and the watcher.  `on` holds the       *)
(* identity lock from `window` to its end, `off` throughout; an `on` notices  *)
(* by the counter `seq` that an `off` ran before it got the lock.             *)
(*                                                                         *)
(* What `begin` and `window` do with the identity is IdentityCache's, what    *)
(* the radio helper does RadioWindow's; here they are one step each.          *)
(***************************************************************************)
EXTENDS Naturals, Sequences

CONSTANTS Ons,       \* runs of `omdrop on`
          Offs,      \* runs of `omdrop off` that a person asked for
          None,      \* nobody
          Scenarios  \* the sets of troubles that behaviours may show

\* What may fail: systemd-run; the receiver's start; the radio's start; a receiver
\* or radio that will not stop; a receiver that dies under an open window.  And
\* `on` may be run again while a window is open.
Troubles == {"arm", "receiver", "radio", "stop", "crash", "repeat"}

\* The services that close a window: of the two timers, and of the watcher.
Services == {"window", "expiry", "once"}

Closers == Offs \cup Services

ASSUME WindowAssumption ==
  /\ \A p \in Ons : p \notin Closers
  /\ \A p \in Offs : p \notin Services
  /\ None \notin Ons \cup Closers
  /\ Scenarios \subseteq SUBSET Troubles

VARIABLES
  seq, window, lock,       \* counter, window file, holder of the identity lock
  receiver,                \* the service: "off", "restarting" or the identity it loaded
  radio,                   \* "down", "up", or "starting" under an abandoned `start`
  armed,                   \* the timers that are armed: "window", "expiry"
  watch,                   \* the watcher: "closing" while it runs off inside its own service
  age,                     \* of the window's cached identity: "expired" past its hard expiry
  pc, mySeq, shape, undo,  \* processes; undo is what a failed `on` has left to do
  overtaken,               \* history: the ons that had begun when an off ran
  last,                    \* history: the shape of the window that was last opened
  orphan,                  \* history: an `on` gave up the receiver, and systemd has not
  may                      \* the troubles of this behaviour

fileVars == <<seq, window, lock>>
unitVars == <<receiver, radio, armed, watch, age>>
procVars == <<pc, mySeq, shape, undo>>
histVars == <<overtaken, last, orphan, may>>
vars == <<fileVars, unitVars, procVars, histVars>>

OnPcs  == {"idle", "begun", "cancel", "expiry", "watch", "first", "receiver", "radio", "arm",
           "again", "undo", "refused", "done"}
OffPcs == {"idle", "begin", "stop", "cancel", "radio", "end", "failed", "done"}
Undos  == {<<>>, <<"abort">>, <<"radio", "abort">>, <<"receiver", "radio", "abort">>,
           <<"cancel", "abort">>, <<"cancel", "radio", "abort">>,
           <<"cancel", "receiver", "radio", "abort">>}

Init ==
  /\ seq = 0 /\ window = "none" /\ lock = None
  /\ receiver = "off" /\ radio = "down" /\ armed = {} /\ watch = "none" /\ age = "fresh"
  /\ pc = [p \in Ons \cup Closers |-> "idle"]
  /\ mySeq = [p \in Ons |-> 0]
  /\ shape = [p \in Ons |-> "timed"]
  /\ undo = [p \in Ons |-> <<>>]
  /\ overtaken = {} /\ last = "none" /\ orphan = FALSE /\ may \in Scenarios

-----------------------------------------------------------------------------
(* Shared steps *)

Goto(p, l) == pc' = [pc EXCEPT ![p] = l]

\* An `off` is under way in the service that a timer or the watcher started.
Closing(c) == pc[c] \in {"begin", "stop", "cancel", "radio", "end"}

\* The watcher's `off`, run inside the watcher's own service.
Inside(c) == c = "once" /\ watch = "closing" /\ Closing("once")

\* Mutant: the expiry's timer is forgotten.
CancelWindowNoExpiry(p, l) ==
  /\ armed' = armed \ {"window"} /\ watch' = "none"
  /\ lock' = IF Inside(lock) THEN None ELSE lock
  /\ pc' = [c \in Ons \cup Closers |->
              IF Inside(c) THEN "idle"
              ELSE IF c = p THEN l
              ELSE IF c \in Services /\ pc[c] = "failed" THEN "idle"
              ELSE pc[c]]

\* cancel_window, after which p is at l: the timers and the watcher stop, with
\* whatever runs in the watcher's service, be it p itself; and a service that
\* failed no longer occupies its name.
CancelWindow(p, l) ==
  /\ armed' = {} /\ watch' = "none"
  /\ lock' = IF Inside(lock) THEN None ELSE lock
  /\ pc' = [c \in Ons \cup Closers |->
              IF Inside(c) THEN "idle"
              ELSE IF c = p THEN l
              ELSE IF c \in Services /\ pc[c] = "failed" THEN "idle"
              ELSE pc[c]]

\* systemd-run --unit=: refused while a unit of that name is loaded.
Refused(unit) == unit \in armed \/ pc[unit] # "idle" \/ "arm" \in may

\* The receiver has no process.
Down == receiver \in {"off", "restarting"}

\* What the receiver does when it is started: the identity of the window, or an
\* exit that systemd answers with a restart.
Loads ==
  IF window = "1password" /\ age = "expired" THEN "restarting"
  ELSE IF window = "none" THEN "self-signed"
  ELSE window

-----------------------------------------------------------------------------
(* omdrop on *)

\* `begin`: `seq` is read under the lock, and 1Password asked without it.
OnBegin(p) ==
  /\ pc[p] = "idle" /\ lock = None
  /\ \/ "repeat" \in may
     \/ /\ window = "none" /\ (receiver = "off" \/ orphan)
        /\ \A q \in Ons : pc[q] \in {"idle", "refused", "done"}
  /\ mySeq' = [mySeq EXCEPT ![p] = seq]
  /\ \E s \in {"timed", "forever", "once"} : shape' = [shape EXCEPT ![p] = s]
  /\ Goto(p, "begun")
  /\ UNCHANGED <<fileVars, unitVars, undo, histVars>>

\* Mutant: nobody asks whether an off ran.
OnWindowUnchecked(p) ==
  /\ pc[p] = "begun" /\ lock = None
  /\ lock' = p
  /\ \/ window # "none" /\ UNCHANGED <<window, age>>
     \/ window = "none" /\ window' = "self-signed" /\ UNCHANGED age
     \/ window = "none" /\ window' = "1password" /\ age' = "fresh"
  /\ Goto(p, "cancel")
  /\ UNCHANGED <<seq, receiver, radio, armed, watch, mySeq, shape, undo, histVars>>

\* The lock and `window`: refused, unsettled, the window there is, or a new one
\* on the self-signed (or disk) identity or on a cached one.
OnWindow(p) ==
  /\ pc[p] = "begun" /\ lock = None
  /\ \/ /\ mySeq[p] # seq
        /\ Goto(p, "refused")
        /\ UNCHANGED <<lock, window, age>>
     \/ /\ mySeq[p] = seq
        /\ Goto(p, "done")
        /\ UNCHANGED <<lock, window, age>>
     \/ /\ mySeq[p] = seq
        /\ lock' = p
        /\ \/ window # "none" /\ UNCHANGED <<window, age>>
           \/ window = "none" /\ window' = "self-signed" /\ UNCHANGED age
           \/ window = "none" /\ window' = "1password" /\ age' = "fresh"
        /\ Goto(p, "cancel")
  /\ UNCHANGED <<seq, receiver, radio, armed, watch, mySeq, shape, undo, histVars>>

OnCancel(p) ==
  /\ pc[p] = "cancel" /\ p \in Ons
  /\ CancelWindow(p, "expiry")
  /\ UNCHANGED <<seq, window, receiver, radio, age, mySeq, shape, undo, histVars>>

\* A start that fails: what is left to undo, of which the lock's release is last.
Abandon(p, steps) ==
  /\ undo' = [undo EXCEPT ![p] = steps]
  /\ Goto(p, "undo")

\* Mutant: only a new window's expiry is armed.
OnExpiryNewOnly(p) ==
  /\ pc[p] = "expiry"
  /\ \/ /\ window # "1password" \/ receiver # "off"
        /\ Goto(p, "watch")
        /\ UNCHANGED <<armed, undo>>
     \/ /\ window = "1password" /\ receiver = "off"
        /\ "expiry" \notin armed /\ pc["expiry"] = "idle"
        /\ armed' = armed \cup {"expiry"}
        /\ Goto(p, "watch")
        /\ UNCHANGED undo
     \/ /\ window = "1password" /\ receiver = "off" /\ Refused("expiry")
        /\ Abandon(p, <<"abort">>)
        /\ UNCHANGED armed
  /\ UNCHANGED <<fileVars, receiver, radio, watch, age, mySeq, shape, histVars>>

\* The hard expiry's timer, without which a window on the cache does not start.
OnExpiry(p) ==
  /\ pc[p] = "expiry"
  /\ \/ /\ window # "1password"
        /\ Goto(p, "watch")
        /\ UNCHANGED <<armed, undo>>
     \/ /\ window = "1password" /\ "expiry" \notin armed /\ pc["expiry"] = "idle"
        /\ armed' = armed \cup {"expiry"}
        /\ Goto(p, "watch")
        /\ UNCHANGED undo
     \/ /\ window = "1password" /\ Refused("expiry")
        /\ Abandon(p, <<"abort">>)
        /\ UNCHANGED armed
  /\ UNCHANGED <<fileVars, receiver, radio, watch, age, mySeq, shape, histVars>>

\* The watcher; without one the window opens all the same.
OnWatch(p) ==
  /\ pc[p] = "watch"
  /\ \/ watch' = IF shape[p] = "once" THEN "once" ELSE "watch"
     \/ "arm" \in may /\ UNCHANGED watch
  /\ Goto(p, "first")
  /\ UNCHANGED <<fileVars, receiver, radio, armed, age, mySeq, shape, undo, histVars>>

\* start_receiver: first when awdl0 has its link-local address, and else after
\* the radio.  A receiver that is up stays as it is.  `systemctl start` fails with
\* an ExecStartPre, and systemd will try again (Restart=on-failure); nothing on
\* this path stops it.
OnReceiver(p) ==
  /\ p \in Ons /\ pc[p] \in {"first", "receiver"}
  /\ \/ /\ receiver' = IF Down THEN Loads ELSE receiver
        /\ orphan' = (orphan /\ ~Down)
        /\ Goto(p, IF pc[p] = "first" THEN "radio" ELSE "arm")
        /\ UNCHANGED undo
     \/ /\ "receiver" \in may
        /\ Abandon(p, IF pc[p] = "first" THEN <<"cancel", "abort">>
                                         ELSE <<"cancel", "radio", "abort">>)
        /\ \/ UNCHANGED receiver
           \/ Down /\ receiver' = "restarting"
        /\ orphan' = (receiver' # "off")
  /\ UNCHANGED <<fileVars, radio, armed, watch, age, mySeq, shape, overtaken, last, may>>

\* Mutant: a radio that failed does not stop the receiver that is up already.
OnRadioKeepsReceiver(p) ==
  /\ p \in Ons /\ pc[p] \in {"first", "radio"}
  /\ \/ /\ radio' = "up"
        /\ Goto(p, IF pc[p] = "first" THEN "receiver" ELSE "arm")
        /\ UNCHANGED undo
     \/ /\ "radio" \in may
        /\ radio' \in {radio, "starting"}
        /\ Abandon(p, <<"cancel", "radio", "abort">>)
  /\ UNCHANGED <<fileVars, receiver, armed, watch, age, mySeq, shape, histVars>>

\* radio_up: up, or failed, timed out or cancelled by a signal; a start that was
\* given up may still finish.
OnRadio(p) ==
  /\ p \in Ons /\ pc[p] \in {"first", "radio"}
  /\ \/ /\ radio' = "up"
        /\ Goto(p, IF pc[p] = "first" THEN "receiver" ELSE "arm")
        /\ UNCHANGED undo
     \/ /\ "radio" \in may
        /\ radio' \in {radio, "starting"}
        /\ Abandon(p, IF pc[p] = "first" THEN <<"cancel", "radio", "abort">>
                                         ELSE <<"cancel", "receiver", "radio", "abort">>)
  /\ UNCHANGED <<fileVars, receiver, armed, watch, age, mySeq, shape, histVars>>

\* The window's timer, of a timed window; if it cannot be armed `on` says so
\* and leaves everything up.
OnArm(p) ==
  /\ pc[p] = "arm"
  /\ last' = shape[p]
  /\ \/ /\ shape[p] # "timed"
        /\ lock' = None /\ Goto(p, "done")
        /\ UNCHANGED armed
     \/ /\ shape[p] = "timed" /\ "window" \notin armed /\ pc["window"] = "idle"
        /\ armed' = armed \cup {"window"}
        /\ Goto(p, "again")
        /\ UNCHANGED lock
     \/ /\ shape[p] = "timed" /\ Refused("window")
        /\ lock' = None /\ Goto(p, "done")
        /\ UNCHANGED armed
  /\ UNCHANGED <<seq, window, receiver, radio, watch, age, mySeq, shape, undo, overtaken,
                 orphan, may>>

\* The radio is asked for the window again, for as long from now; the answer
\* does not matter.
OnAgain(p) ==
  /\ pc[p] = "again"
  /\ radio' \in {radio, "up"}
  /\ lock' = None
  /\ Goto(p, "done")
  /\ UNCHANGED <<seq, window, receiver, armed, watch, age, mySeq, shape, undo, histVars>>

\* A failed start is undone one step at a time; what an `off` would refuse to
\* go on without is only tried here.  Last, identity_abort.
UndoStep(p) ==
  /\ p \in Ons /\ pc[p] = "undo"
  /\ undo' = [undo EXCEPT ![p] = Tail(@)]
  /\ \/ /\ Head(undo[p]) = "cancel"
        /\ CancelWindow(p, "undo")
        /\ UNCHANGED <<seq, window, receiver, radio, orphan>>
     \/ /\ Head(undo[p]) = "receiver"
        /\ \/ receiver' = "off" /\ orphan' = FALSE
           \/ "stop" \in may /\ UNCHANGED <<receiver, orphan>>
        /\ UNCHANGED <<seq, window, lock, radio, armed, watch, pc>>
     \/ /\ Head(undo[p]) = "radio"
        /\ radio' = "down" \/ ("stop" \in may /\ UNCHANGED radio)
        /\ UNCHANGED <<seq, window, lock, receiver, armed, watch, pc, orphan>>
     \/ /\ Head(undo[p]) = "abort"
        /\ seq' = seq + 1 /\ window' = "none" /\ lock' = None
        /\ Goto(p, "done")
        /\ UNCHANGED <<receiver, radio, armed, watch, orphan>>
  /\ UNCHANGED <<age, mySeq, shape, overtaken, last, may>>

-----------------------------------------------------------------------------
(* omdrop off *)

\* A person's off; told of a send in progress, it does nothing (without --force).
OffAsked(p) ==
  /\ p \in Offs /\ pc[p] = "idle"
  /\ Goto(p, "begin") \/ Goto(p, "done")
  /\ UNCHANGED <<fileVars, unitVars, mySeq, shape, undo, histVars>>

\* The lock, and stop-begin.
OffBegin(p) ==
  /\ p \in Closers /\ pc[p] = "begin" /\ lock = None
  /\ lock' = p
  /\ seq' = seq + 1
  /\ overtaken' = overtaken \cup {q \in Ons : pc[q] = "begun"}
  /\ Goto(p, "stop")
  /\ UNCHANGED <<window, unitVars, mySeq, shape, undo, last, orphan, may>>

\* Mutant: the timers and the watcher go first.
OffReceiverCancelFirst(p) ==
  /\ pc[p] = "stop"
  /\ CancelWindow(p, "cancel")
  /\ receiver' = IF Inside(p) THEN receiver ELSE "off"
  /\ orphan' = (orphan /\ Inside(p))
  /\ UNCHANGED <<seq, window, radio, age, mySeq, shape, undo, overtaken, last, may>>

\* The receiver stops before its identity is released, or off gives up.  The
\* watcher's own unit was run with --collect, and never stays loaded.
OffReceiver(p) ==
  /\ pc[p] = "stop"
  /\ \/ receiver' = "off" /\ orphan' = FALSE /\ Goto(p, "cancel") /\ UNCHANGED lock
     \/ /\ "stop" \in may
        /\ lock' = None
        /\ Goto(p, IF p = "once" THEN "idle" ELSE "failed")
        /\ UNCHANGED <<receiver, orphan>>
  /\ UNCHANGED <<seq, window, radio, armed, watch, age, mySeq, shape, undo, overtaken, last, may>>

OffCancel(p) ==
  /\ p \in Closers /\ pc[p] = "cancel"
  /\ CancelWindow(p, "radio")
  /\ UNCHANGED <<seq, window, receiver, radio, age, mySeq, shape, undo, histVars>>

OffRadio(p) ==
  /\ p \in Closers /\ pc[p] = "radio"
  /\ radio' = "down" \/ ("stop" \in may /\ UNCHANGED radio)
  /\ Goto(p, "end")
  /\ UNCHANGED <<fileVars, receiver, armed, watch, age, mySeq, shape, undo, histVars>>

\* stop-end: the window file goes last, and then the lock.
OffEnd(p) ==
  /\ pc[p] = "end"
  /\ window' = "none" /\ lock' = None
  /\ Goto(p, IF p \in Services THEN "idle" ELSE "done")
  /\ UNCHANGED <<seq, unitVars, mySeq, shape, undo, histVars>>

-----------------------------------------------------------------------------
(* Timers, the watcher, the receiver and the radio *)

WindowEnds ==
  /\ "window" \in armed /\ pc["window"] = "idle"
  /\ armed' = armed \ {"window"}
  /\ Goto("window", "begin")
  /\ UNCHANGED <<fileVars, receiver, radio, watch, age, mySeq, shape, undo, histVars>>

HardExpires ==
  /\ window = "1password" /\ age = "fresh"
  /\ age' = "expired"
  /\ UNCHANGED <<fileVars, receiver, radio, armed, watch, procVars, histVars>>

\* The expiry's timer was set to that moment.
ExpiryEnds ==
  /\ "expiry" \in armed /\ age = "expired" /\ pc["expiry"] = "idle"
  /\ armed' = armed \ {"expiry"}
  /\ Goto("expiry", "begin")
  /\ UNCHANGED <<fileVars, receiver, radio, watch, age, mySeq, shape, undo, histVars>>

\* A file arrives in a one-file window: off in a unit of its own, or, where
\* that cannot be had, in the watcher's.
Arrive ==
  /\ watch = "once" /\ ~Down /\ pc["once"] = "idle"
  /\ watch' = "none" \/ ("arm" \in may /\ watch' = "closing")
  /\ Goto("once", "begin")
  /\ UNCHANGED <<fileVars, receiver, radio, armed, age, mySeq, shape, undo, histVars>>

ReceiverCrash ==
  /\ "crash" \in may /\ ~Down
  /\ receiver' = "restarting"
  /\ UNCHANGED <<fileVars, radio, armed, watch, age, procVars, histVars>>

\* Restart=on-failure, until the start limit.
ReceiverRestart ==
  /\ receiver = "restarting"
  /\ receiver' \in {Loads, "off"}
  /\ orphan' = (orphan /\ receiver' # "off")
  /\ UNCHANGED <<fileVars, radio, armed, watch, age, procVars, overtaken, last, may>>

\* An abandoned start finishes, or the radio's own deadline or a loss ends it.
RadioChanges ==
  /\ radio # "down"
  /\ radio' \in IF radio = "starting" THEN {"up", "down"} ELSE {"down"}
  /\ UNCHANGED <<fileVars, receiver, armed, watch, age, procVars, histVars>>

\* Nobody is at work, and nobody has to be.
Quiet ==
  /\ \A p \in Ons : pc[p] \in {"idle", "refused", "done"}
  /\ \A c \in Closers : ~Closing(c)
  /\ lock = None
  /\ UNCHANGED vars

OnStep(p) ==
  \/ OnWindow(p) \/ OnCancel(p) \/ OnExpiry(p) \/ OnWatch(p) \/ OnReceiver(p) \/ OnRadio(p)
  \/ OnArm(p) \/ OnAgain(p) \/ UndoStep(p)

OffStep(p) ==
  OffBegin(p) \/ OffReceiver(p) \/ OffCancel(p) \/ OffRadio(p) \/ OffEnd(p)

World ==
  \/ WindowEnds \/ HardExpires \/ ExpiryEnds \/ Arrive
  \/ ReceiverCrash \/ ReceiverRestart \/ RadioChanges

Next ==
  \/ \E p \in Ons : OnBegin(p) \/ OnStep(p)
  \/ \E p \in Closers : OffAsked(p) \/ OffStep(p)
  \/ World \/ Quiet

Spec == Init /\ [][Next]_vars

\* Every process that runs goes on running: each of its waits is bounded, and
\* the lock, which is polled, is free again and again until it is got.  The
\* timers elapse, and a service that is restarting is restarted or given up.
\* Nobody has to turn anything on or off, and no file has to arrive.
FairSpec ==
  /\ Spec
  /\ \A p \in Ons : SF_vars(OnStep(p))
  /\ \A p \in Closers : SF_vars(OffStep(p))
  /\ WF_vars(WindowEnds) /\ WF_vars(HardExpires) /\ WF_vars(ExpiryEnds)
  /\ WF_vars(ReceiverRestart)

-----------------------------------------------------------------------------
(* Properties *)

UnitTypes ==
  /\ seq \in Nat /\ window \in {"none", "self-signed", "1password"}
  /\ lock \in Ons \cup Closers \cup {None}
  /\ receiver \in {"off", "restarting", "self-signed", "1password"}
  /\ radio \in {"down", "starting", "up"}
  /\ armed \subseteq {"window", "expiry"}
  /\ watch \in {"none", "watch", "once", "closing"} /\ age \in {"fresh", "expired"}
  /\ overtaken \subseteq Ons /\ last \in {"none", "timed", "forever", "once"}
  /\ orphan \in BOOLEAN /\ may \in Scenarios

ProcTypes ==
  /\ pc \in [Ons \cup Closers -> OnPcs \cup OffPcs]
  /\ \A p \in Ons : pc[p] \in OnPcs
  /\ \A p \in Closers : pc[p] \in OffPcs
  /\ mySeq \in [Ons -> Nat] /\ shape \in [Ons -> {"timed", "forever", "once"}]
  /\ undo \in [Ons -> Undos]

\* Every variable has its type.
TypeOK == UnitTypes /\ ProcTypes

InSection(p) ==
  IF p \in Ons THEN pc[p] \notin {"idle", "begun", "refused", "done"}
               ELSE pc[p] \in {"stop", "cancel", "radio", "end"}

\* "`on` holds it from the check that no `off` ran ... and `off` holds it
\* throughout, so the two can never interleave."
NeverInterleave == \A p \in Ons \cup Closers : InSection(p) <=> lock = p

\* off settles it: an `on` that had begun when an off ran brings nothing up, no
\* matter how late 1Password answers it.
OffSettles == \A p \in overtaken : pc[p] \in {"begun", "refused", "done"}

\* What is up: the five units that a window consists of besides its file.
Up ==
  armed \cup (IF receiver = "off" THEN {} ELSE {"receiver"})
        \cup (IF radio = "down" THEN {} ELSE {"radio"})
        \cup (IF watch = "none" THEN {} ELSE {"watcher"})

T == INSTANCE WindowTurns WITH
       holder <- lock, asked <- {p \in Ons : pc[p] = "begun"}, stale <- overtaken, units <- Up

\* on and off take turns, whatever is killed, fails or is closed by its own watcher;
\* only an on in its turn opens a window or brings a unit up; and one that an off
\* overtook gets no turn: OmdropWindow implements WindowTurns.
TurnsKept == T!TSpec

\* Whatever is told to stop stops, and an `on` that fails had found no window open.
Orderly ==
  "stop" \notin may /\ ("repeat" \notin may \/ may \cap {"arm", "receiver", "radio"} = {})

\* "The 1Password cache's hard expiry is absolute: a window still open then is
\* turned off": whenever nobody is turning anything on or off, a receiver that
\* has loaded a cached identity has the timer armed, or its off on the way; but
\* for an orphan, which nothing bounds.
ExpiryArmed ==
  Orderly /\ lock = None /\ receiver = "1password" =>
    orphan \/ "expiry" \in armed \/ Closing("expiry")

\* A timed window has its timer, or an off on the way, whatever was open before.
TimedBounded ==
  (/\ Orderly /\ "arm" \notin may
   /\ lock = None /\ window # "none" /\ last = "timed" /\ receiver # "off") =>
    "window" \in armed \/ \E c \in Closers : Closing(c)

\* "Every way out of a failed start clears what `window` set up", and off leaves
\* nothing: with no window file, nobody at work and no off on the way, the radio,
\* the timers and the watcher are all gone, and so is the receiver, unless an `on`
\* gave up its start where systemd does not.
ClosedIsClosed ==
  Orderly /\ lock = None /\ window = "none" /\ (\A c \in Closers : ~Closing(c)) =>
    /\ receiver = "off" \/ orphan
    /\ radio = "down" /\ armed = {} /\ watch = "none"

\* "the receiver stops before the identity it loaded is released": by off, and by
\* an `on` that fails once its receiver was up.
IdentityHeld ==
  may \cap {"stop", "repeat"} = {} /\ receiver = "1password" =>
    orphan \/ window = "1password"

\* A closing service that failed does not keep the next window from being
\* bounded: an `on` that is about to arm a timer finds its name free, or taken by
\* an off that is still to come.
NameFree ==
  \A p \in Ons : pc[p] \in {"expiry", "watch", "first", "receiver", "radio", "arm"} =>
    pc["window"] # "failed" /\ pc["expiry"] # "failed"

\* Every open window is bounded: ExpiryArmed, TimedBounded and NameFree, the
\* three ways in which the timers of cmd_on could be missing.
WindowsBounded == ExpiryArmed /\ TimedBounded /\ NameFree

\* A timed window ends by itself, unless it is opened again in another shape.
TimedWindowEnds ==
  ("window" \in armed /\ last = "timed") ~> (receiver = "off" \/ last # "timed")

\* "after 24 hours Omdrop turns off": no receiver that an `on` brought up keeps an
\* identity past its hard expiry.
HardExpiryEnds ==
  (age = "expired" /\ window = "1password") ~> (receiver # "1password" \/ orphan)

\* A one-file window closes after its file, also when off has to run inside the
\* watcher it stops.
OnceCloses == (pc["once"] = "begin") ~> (receiver = "off" \/ orphan)

\* Every bounded window does end, by its timer, by the identity's expiry or by
\* its file, however often it is opened again.
WindowsEnd == TimedWindowEnds /\ HardExpiryEnds /\ OnceCloses
=============================================================================
