----------------------------- MODULE RadioWindow -----------------------------
(***************************************************************************)
(* omdrop-radio's discoverability window (core/crates/omdrop-radio/src/     *)
(* window.rs and proc.rs): `start`, the supervisor it spawns, and `stop`,   *)
(* run as separate root processes that share nothing but two flocks, the    *)
(* files of /run/awdl-discoverable and signals.                             *)
(*                                                                         *)
(* One element of Starts is one `omdrop-radio start` process; the           *)
(* supervisor it may spawn goes by the same name.  One element of Stops is   *)
(* one `omdrop-radio stop`.  A program counter names the step a process is   *)
(* about to take; steps between two accesses to shared state are merged.     *)
(* Time is abstract: a deadline is ahead or past, and a bounded wait may     *)
(* give up only while the process it waits for is in a step that the code    *)
(* itself lets last longer than the wait.                                    *)
(***************************************************************************)
EXTENDS Naturals, FiniteSets

CONSTANTS Starts,       \* omdrop-radio start processes
          Stops,        \* omdrop-radio stop processes
          Tags,         \* the window's children: mdns, peers, ble
          None,         \* no process, no lock holder, no file
          Serial,       \* callers begin no start while a stop runs (omdrop
                        \* on and off hold the identity lock over both)
          Scenarios     \* the sets of faults that behaviours may show

\* A supervisor is SIGKILLed or crashes at any step; a start gets TERM or INT
\* from someone but stop; a hook, a child or a lock holder hangs for longer than
\* the code waits for it.
Faults == {"crash", "interrupt", "hang"}

ASSUME RadioAssumption ==
  /\ None \notin Starts \cup Stops
  /\ None \notin ({"start", "sup"} \X Starts) \cup ({"stop"} \X Stops)
  /\ Starts \cap Stops = {}
  /\ Serial \in BOOLEAN
  /\ Scenarios \subseteq SUBSET Faults

VARIABLES
  (* the run directory *)
  until,     \* "absent", "zero" (until stopped), "ahead", "past"
  reason,    \* what status reports when no window is live
  supFile,   \* `supervisor`: the recorded supervisor
  tokFile,   \* `supervisor.token`: the start that wrote it
  pids,      \* `pids`: the recorded children
  hookFile,  \* `hook.pgid`: the recorded hook, named by its runner
  (* start processes *)
  pc, rc, cancelled, startLock, closing, code,
  (* supervisors *)
  spc, scancelled, ending, held, unrecorded,
  (* stop processes *)
  tpc, tstarts, tsups,
  (* the machine *)
  windowLock,  \* holder of window.lock
  children,    \* live window children, <<supervisor, tag>>
  hooks,       \* live hooks, named by the process that runs or ran them
  radio,       \* what the last finished up or down left: "up", "down"
  snapshot,    \* the list kill_children took, per process that runs it
  legacy,      \* a 0.9.x omdrop-discoverable supervisor is alive
  (* history *)
  stray,       \* children whose only record was in a process now SIGKILLed
  since,       \* starts begun since the last stop began
  may          \* the faults of this behaviour

fileVars  == <<until, reason, supFile, tokFile, pids, hookFile>>
startVars == <<pc, rc, cancelled, startLock, closing, code>>
supVars   == <<spc, scancelled, ending, held, unrecorded>>
stopVars  == <<tpc, tstarts, tsups>>
osVars    == <<windowLock, children, hooks, radio, snapshot, legacy>>
histVars  == <<stray, since, may>>
vars == <<fileVars, startVars, supVars, stopVars, osVars, histVars>>

Child == Starts \X Tags
StartProc(s) == <<"start", s>>
SupProc(s)   == <<"sup", s>>
StopProc(t)  == <<"stop", t>>
Proc == ({"start", "sup"} \X Starts) \cup ({"stop"} \X Stops)

StartPcs == {"idle", "lock", "look", "extend", "closing", "orphan", "take",
             "kill", "probe", "probekill", "up", "upkill", "identity", "idkill",
             "publish", "token", "check", "spawn", "await", "failsup", "failtake", "failkill",
             "failuntil", "faildown", "done"}
SupPcs   == {"none", "token", "record", "children", "loop", "expire",
             "recheck", "expired", "tick", "endlock", "end", "take", "kill",
             "reason", "down", "unrecord", "dead"}
StopPcs  == {"idle", "starts", "scan", "sups", "orphan", "take", "kill",
             "until", "unset", "down", "reason", "done"}

\* Mutant: the clock is not looked at.
UntilLiveNoClock == until # "absent"

\* until_live: a deadline still ahead, or 0 (until stopped).
UntilLive == until \in {"zero", "ahead"}

\* proc::running for a supervisor's argv: spawned and not yet exited.
SupRunning(s) == spc[s] \notin {"none", "dead"}

\* supervisor_alive: the recorded supervisor, still the process recorded.
SupervisorAlive(s) == supFile = s /\ SupRunning(s)

StartRunning(s) == pc[s] \notin {"idle", "done"}
StopRunning(t)  == tpc[t] \notin {"idle", "done"}

Init ==
  /\ until = "absent" /\ reason = "stopped"
  /\ supFile = None /\ tokFile = None /\ pids = {} /\ hookFile = None
  /\ pc = [s \in Starts |-> "idle"]
  /\ rc = [s \in Starts |-> 0]
  /\ cancelled = [s \in Starts |-> FALSE]
  /\ startLock = None
  /\ closing = [s \in Starts |-> None]
  /\ code = [s \in Starts |-> 0]
  /\ spc = [s \in Starts |-> "none"]
  /\ scancelled = [s \in Starts |-> FALSE]
  /\ ending = [s \in Starts |-> "none"]
  /\ held = [s \in Starts |-> {}]
  /\ unrecorded = [s \in Starts |-> {}]
  /\ tpc = [t \in Stops |-> "idle"]
  /\ tstarts = [t \in Stops |-> {}]
  /\ tsups = [t \in Stops |-> {}]
  /\ windowLock = None /\ children = {} /\ hooks = {}
  /\ radio = "down"
  /\ snapshot = [p \in Proc |-> {}]
  /\ legacy \in BOOLEAN
  /\ stray = {} /\ since = {} /\ may \in Scenarios

\* The steps of a cancelled start that may outlast stop's 5 s wait: the 5 s
\* poll for its supervisor and the undoing after it (`down` alone has 60 s).
\* No other step waits that long, unless what it waits for hangs.
SlowStart == {"await", "failsup", "failtake", "failkill", "failuntil", "faildown"}
             \cup IF "hang" \in may THEN {"lock", "probekill", "upkill", "idkill"} ELSE {}

\* The steps of a TERMed supervisor that may outlast stop's 10 s wait: a `down`
\* that was already running, for it is not cancellable.
SlowSup == {"down"} \cup IF "hang" \in may THEN {"expire", "endlock", "kill"} ELSE {}

-----------------------------------------------------------------------------
(* Steps shared by several commands *)

Goto(s, l) == pc' = [pc EXCEPT ![s] = l]

\* `start` returns c: its process exits and start.lock is released with it.
Return(s, c) ==
  /\ pc' = [pc EXCEPT ![s] = "done"]
  /\ rc' = [rc EXCEPT ![s] = c]
  /\ startLock' = IF startLock = s THEN None ELSE startLock

\* proc::run with record: the program runs in its own group, in hook.pgid.
RunHook(p, record) ==
  /\ hooks' = hooks \cup {p}
  /\ hookFile' = IF record THEN p ELSE hookFile

\* proc::run once the program has exited.
HookDone(p, record) ==
  /\ hooks' = hooks \ {p}
  /\ hookFile' = IF record THEN None ELSE hookFile

\* kill_orphaned_hook: the recorded group, TERM and then KILL; the record goes
\* whether or not its leader is still there.
KillOrphanedHook ==
  /\ hooks' = hooks \ {hookFile}
  /\ hookFile' = None

\* kill_children up to its pause: the rename takes the list from everyone
\* else, and TERM ends the children in dead, which heed it.
TakeChildren(p, dead) ==
  /\ dead \subseteq pids
  /\ snapshot' = [snapshot EXCEPT ![p] = pids]
  /\ pids' = {}
  /\ children' = children \ dead

\* kill_children after the pause: KILL for what is left of the list.
KillTaken(p) ==
  /\ children' = children \ snapshot[p]
  /\ snapshot' = [snapshot EXCEPT ![p] = {}]

\* SIGKILL (or a crash) of the supervisors in S.  Their locks and pidfds go
\* with them; their children and their running hook do not.  A child that only
\* such a process knew of is lost to every later teardown.
KillSups(S) ==
  /\ spc' = [s \in Starts |-> IF s \in S /\ SupRunning(s) THEN "dead" ELSE spc[s]]
  /\ held' = [s \in Starts |-> IF s \in S THEN {} ELSE held[s]]
  /\ unrecorded' = [s \in Starts |-> IF s \in S THEN {} ELSE unrecorded[s]]
  /\ snapshot' = [p \in Proc |-> IF p \in {SupProc(s) : s \in S} THEN {} ELSE snapshot[p]]
  /\ windowLock' = IF windowLock \in {SupProc(s) : s \in S} THEN None ELSE windowLock
  /\ stray' = stray \cup
       (children \cap UNION {unrecorded[s] \cup snapshot[SupProc(s)] : s \in S})

-----------------------------------------------------------------------------
(* start *)

\* The press: start.lock, without waiting, then the check for a 0.9.x window.
StartBegin(s) ==
  /\ pc[s] = "idle"
  /\ Serial => \A t \in Stops : ~StopRunning(t)
  /\ \/ /\ startLock # None \/ legacy
        /\ pc' = [pc EXCEPT ![s] = "done"]
        /\ rc' = [rc EXCEPT ![s] = 5]
        /\ UNCHANGED startLock
     \/ /\ startLock = None /\ ~legacy
        /\ startLock' = s
        /\ Goto(s, "lock")
        /\ UNCHANGED rc
  /\ since' = since \cup {s}
  /\ UNCHANGED <<fileVars, cancelled, closing, code, supVars, stopVars, osVars, stray, may>>

StartWindowLock(s) ==
  /\ pc[s] = "lock"
  /\ \/ /\ windowLock = None
        /\ windowLock' = StartProc(s)
        /\ Goto(s, "look")
        /\ UNCHANGED <<rc, startLock>>
     \/ /\ "hang" \in may /\ windowLock # None
        /\ Return(s, 3)
        /\ UNCHANGED windowLock
  /\ UNCHANGED <<fileVars, cancelled, closing, code, supVars, stopVars, children, hooks,
                 radio, snapshot, legacy, histVars>>

\* Under window.lock: a live supervisor with a deadline is extended, one
\* without is closing, and with none a new window is opened.
StartLook(s) ==
  /\ pc[s] = "look"
  /\ IF \E r \in Starts : SupervisorAlive(r)
     THEN IF until = "absent"
          THEN /\ Goto(s, "closing")
               /\ closing' = [closing EXCEPT ![s] = supFile]
               /\ windowLock' = None
          ELSE Goto(s, "extend") /\ UNCHANGED <<closing, windowLock>>
     ELSE Goto(s, "orphan") /\ windowLock' = None /\ UNCHANGED closing
  /\ UNCHANGED <<fileVars, rc, cancelled, startLock, code, supVars, stopVars, children,
                 hooks, radio, snapshot, legacy, histVars>>

StartExtend(s) ==
  /\ pc[s] = "extend"
  /\ until' \in {"zero", "ahead"}
  /\ reason' = "ok"
  /\ windowLock' = None
  /\ Return(s, 5)
  /\ UNCHANGED <<supFile, tokFile, pids, hookFile, cancelled, closing, code, supVars,
                 stopVars, children, hooks, radio, snapshot, legacy, histVars>>

\* Mutant: the closing supervisor is not waited for.
StartClosingNoWait(s) ==
  /\ pc[s] = "closing"
  /\ Goto(s, "orphan")
  /\ UNCHANGED <<fileVars, rc, cancelled, startLock, closing, code, supVars, stopVars, osVars,
                 histVars>>

\* The wait for a closing supervisor: it exits, or 90 s pass, or a cancel.
StartClosing(s) ==
  /\ pc[s] = "closing"
  /\ \/ ~SupRunning(closing[s]) /\ Goto(s, "orphan") /\ UNCHANGED <<rc, startLock>>
     \/ SupRunning(closing[s]) /\ Return(s, 3)
  /\ UNCHANGED <<fileVars, cancelled, closing, code, supVars, stopVars, osVars, histVars>>

StartOrphan(s) ==
  /\ pc[s] = "orphan"
  /\ KillOrphanedHook
  /\ Goto(s, "take")
  /\ UNCHANGED <<until, reason, supFile, tokFile, pids, rc, cancelled, startLock, closing,
                 code, supVars, stopVars, windowLock, children, radio, snapshot, legacy,
                 histVars>>

StartTake(s) ==
  /\ pc[s] \in {"take", "failtake"}
  /\ \E dead \in SUBSET pids : TakeChildren(StartProc(s), dead)
  /\ Goto(s, IF pc[s] = "take" THEN "kill" ELSE "failkill")
  /\ UNCHANGED <<until, reason, supFile, tokFile, hookFile, rc, cancelled, startLock,
                 closing, code, supVars, stopVars, windowLock, hooks, radio, legacy,
                 histVars>>

StartKill(s) ==
  /\ pc[s] \in {"kill", "failkill"}
  /\ KillTaken(StartProc(s))
  /\ Goto(s, IF pc[s] = "kill" THEN "probe" ELSE "failuntil")
  /\ UNCHANGED <<fileVars, rc, cancelled, startLock, closing, code, supVars, stopVars,
                 windowLock, hooks, radio, legacy, histVars>>

\* check_backend: an answer or a refusal (exit 4, reason no_awdl0).  Then `up`
\* is started, with its group recorded.
StartProbe(s) ==
  /\ pc[s] = "probe"
  /\ \/ /\ RunHook(StartProc(s), TRUE)
        /\ Goto(s, "up")
        /\ UNCHANGED <<reason, rc, startLock>>
     \/ /\ Return(s, 4)
        /\ reason' = "no_awdl0"
        /\ UNCHANGED <<hooks, hookFile>>
  /\ UNCHANGED <<until, supFile, tokFile, pids, cancelled, closing, code, supVars,
                 stopVars, windowLock, children, radio, snapshot, legacy, histVars>>

\* `up` ends: 0 with an address on awdl0; "no radio" (4, or no address);
\* "not now" (3, any other code, a signal, the timeout); or the hook is missing
\* or not trusted, never ran, and nothing is undone.  `identity` and the `down`
\* of fail_start start where `up` ends.
StartUp(s) ==
  /\ pc[s] = "up"
  /\ \/ /\ StartProc(s) \in hooks
        /\ RunHook(StartProc(s), TRUE)
        /\ radio' = "up"
        /\ Goto(s, "identity")
        /\ UNCHANGED <<reason, rc, startLock, code>>
     \/ /\ RunHook(StartProc(s), TRUE)
        /\ \E c \in {3, 4} :
             /\ code' = [code EXCEPT ![s] = c]
             /\ reason' = IF c = 4 THEN "no_awdl0" ELSE "parked"
        /\ radio' \in {"up", "down"}
        /\ Goto(s, "faildown")
        /\ UNCHANGED <<rc, startLock>>
     \/ /\ HookDone(StartProc(s), TRUE)
        /\ reason' = "no_awdl0"
        /\ Return(s, 4)
        /\ UNCHANGED <<code, radio>>
  /\ UNCHANGED <<until, supFile, tokFile, pids, cancelled, closing, supVars, stopVars,
                 windowLock, children, snapshot, legacy, histVars>>

\* The poll of proc::run sees the cancel while the program still runs: TERM.
StartCancelHook(s) ==
  /\ cancelled[s]
  /\ \/ pc[s] = "probe" /\ Goto(s, "probekill")
     \/ pc[s] = "up" /\ Goto(s, "upkill")
     \/ pc[s] = "identity" /\ Goto(s, "idkill")
  /\ UNCHANGED <<fileVars, rc, cancelled, startLock, closing, code, supVars, stopVars,
                 osVars, histVars>>

\* The cancelled program has ended.  An `up` cut short leaves the radio either
\* way; the stop that cancelled us is to tear it down.
StartHookKilled(s) ==
  /\ pc[s] \in {"probekill", "upkill", "idkill"}
  /\ IF pc[s] = "probekill"
     THEN UNCHANGED <<hooks, hookFile>>
     ELSE HookDone(StartProc(s), TRUE)
  /\ IF pc[s] = "upkill" THEN radio' \in {"up", "down"} ELSE UNCHANGED radio
  /\ Return(s, 3)
  /\ UNCHANGED <<until, reason, supFile, tokFile, pids, cancelled, closing, code, supVars,
                 stopVars, windowLock, children, snapshot, legacy, histVars>>

\* `identity` has ended, whatever it said; a cancel that came meanwhile.
StartIdentity(s) ==
  /\ pc[s] = "identity"
  /\ HookDone(StartProc(s), TRUE)
  /\ IF cancelled[s]
     THEN Return(s, 3)
     ELSE Goto(s, "publish") /\ UNCHANGED <<rc, startLock>>
  /\ UNCHANGED <<until, reason, supFile, tokFile, pids, cancelled, closing, code, supVars,
                 stopVars, windowLock, children, radio, snapshot, legacy, histVars>>

StartPublish(s) ==
  /\ pc[s] = "publish"
  /\ until' \in {"zero", "ahead"}
  /\ reason' = "ok"
  /\ Goto(s, "token")
  /\ UNCHANGED <<supFile, tokFile, pids, hookFile, rc, cancelled, startLock, closing, code,
                 supVars, stopVars, osVars, histVars>>

\* fail_start("stopped", 3, ...) up to the end of its `down`.
FailStart(s) ==
  /\ reason' = "stopped"
  /\ code' = [code EXCEPT ![s] = 3]
  /\ RunHook(StartProc(s), TRUE)
  /\ Goto(s, "faildown")

StartToken(s) ==
  /\ pc[s] = "token"
  /\ \/ /\ tokFile' = s
        /\ Goto(s, "check")
        /\ UNCHANGED <<until, reason, code, hooks, hookFile>>
     \/ /\ until' = "absent"
        /\ FailStart(s)
        /\ UNCHANGED tokFile
  /\ UNCHANGED <<supFile, pids, rc, cancelled, startLock, closing, supVars, stopVars,
                 windowLock, children, radio, snapshot, legacy, histVars>>

\* The last look at the cancel flag before the supervisor is forked.
StartCheck(s) ==
  /\ pc[s] = "check"
  /\ IF cancelled[s]
     THEN tokFile' = None /\ Return(s, 3)
     ELSE Goto(s, "spawn") /\ UNCHANGED <<tokFile, rc, startLock>>
  /\ UNCHANGED <<until, reason, supFile, pids, hookFile, cancelled, closing, code, supVars,
                 stopVars, osVars, histVars>>

StartSpawn(s) ==
  /\ pc[s] = "spawn"
  /\ \/ /\ spc' = [spc EXCEPT ![s] = "token"]
        /\ Goto(s, "await")
        /\ UNCHANGED <<until, reason, tokFile, code, hooks, hookFile>>
     \/ /\ tokFile' = None
        /\ until' = "absent"
        /\ FailStart(s)
        /\ UNCHANGED spc
  /\ UNCHANGED <<supFile, pids, rc, cancelled, startLock, closing, scancelled, ending, held,
                 unrecorded, stopVars, windowLock, children, radio, snapshot, legacy,
                 histVars>>

\* Ten looks for a live supervisor, and one more.
StartAwait(s) ==
  /\ pc[s] = "await"
  /\ \/ (\E r \in Starts : SupervisorAlive(r)) /\ Return(s, 0)
     \/ (\A r \in Starts : ~SupervisorAlive(r)) /\ Goto(s, "failsup")
          /\ UNCHANGED <<rc, startLock>>
  /\ UNCHANGED <<fileVars, cancelled, closing, code, supVars, stopVars, osVars, histVars>>

\* Mutant: the supervisor that did not show up is not killed.
StartFailSupNoKill(s) ==
  /\ pc[s] = "failsup"
  /\ tokFile' = None
  /\ Goto(s, "failtake")
  /\ UNCHANGED <<until, reason, supFile, pids, hookFile, rc, cancelled, startLock, closing,
                 code, supVars, stopVars, osVars, histVars>>

StartFailSup(s) ==
  /\ pc[s] = "failsup"
  /\ tokFile' = None
  /\ KillSups({s})
  /\ Goto(s, "failtake")
  /\ UNCHANGED <<until, reason, supFile, pids, hookFile, rc, cancelled, startLock, closing,
                 code, scancelled, ending, stopVars, children, hooks, radio, legacy, since,
                 may>>

StartFailUntil(s) ==
  /\ pc[s] = "failuntil"
  /\ until' = "absent"
  /\ FailStart(s)
  /\ UNCHANGED <<supFile, tokFile, pids, rc, cancelled, startLock, closing, supVars,
                 stopVars, windowLock, children, radio, snapshot, legacy, histVars>>

StartFailDown(s) ==
  /\ pc[s] = "faildown"
  /\ HookDone(StartProc(s), TRUE)
  /\ radio' = "down"
  /\ Return(s, code[s])
  /\ UNCHANGED <<until, reason, supFile, tokFile, pids, cancelled, closing, code, supVars,
                 stopVars, windowLock, children, snapshot, legacy, histVars>>

StartStep(s) ==
  \/ StartWindowLock(s) \/ StartLook(s) \/ StartExtend(s) \/ StartClosing(s)
  \/ StartOrphan(s) \/ StartTake(s) \/ StartKill(s) \/ StartProbe(s) \/ StartUp(s)
  \/ StartCancelHook(s) \/ StartHookKilled(s) \/ StartIdentity(s) \/ StartPublish(s)
  \/ StartToken(s) \/ StartCheck(s) \/ StartSpawn(s) \/ StartAwait(s) \/ StartFailSup(s)
  \/ StartFailUntil(s) \/ StartFailDown(s)

-----------------------------------------------------------------------------
(* The supervisor *)

SupGoto(s, l) == spc' = [spc EXCEPT ![s] = l]

\* supervise_entry: the token in the environment against the one on disk.
SupToken(s) ==
  /\ spc[s] = "token"
  /\ IF tokFile = s
     THEN tokFile' = None /\ SupGoto(s, "record")
     ELSE SupGoto(s, "dead") /\ UNCHANGED tokFile
  /\ UNCHANGED <<until, reason, supFile, pids, hookFile, startVars, scancelled, ending, held,
                 unrecorded, stopVars, osVars, histVars>>

SupRecord(s) ==
  /\ spc[s] = "record"
  /\ supFile' = s
  /\ SupGoto(s, "children")
  /\ UNCHANGED <<until, reason, tokFile, pids, hookFile, startVars, scancelled, ending, held,
                 unrecorded, stopVars, osVars, histVars>>

\* A child is spawned, and only then recorded; which children a window has is
\* the backend's and the user's choice.
SupSpawn(s) ==
  /\ spc[s] = "children" /\ unrecorded[s] = {}
  /\ \E g \in Tags :
       /\ <<s, g>> \notin held[s]
       /\ children' = children \cup {<<s, g>>}
       /\ unrecorded' = [unrecorded EXCEPT ![s] = {<<s, g>>}]
  /\ UNCHANGED <<fileVars, startVars, spc, scancelled, ending, held, stopVars, windowLock,
                 hooks, radio, snapshot, legacy, histVars>>

\* The line in `pids`; a child that cannot be recorded is killed at once (tags
\* come in any order here, so a failed one may as well be the last tried).
SupRecordChild(s) ==
  /\ spc[s] = "children" /\ unrecorded[s] # {}
  /\ \/ /\ pids' = pids \cup unrecorded[s]
        /\ held' = [held EXCEPT ![s] = @ \cup unrecorded[s]]
        /\ UNCHANGED <<spc, children>>
     \/ /\ children' = children \ unrecorded[s]
        /\ SupGoto(s, "loop")
        /\ UNCHANGED <<pids, held>>
  /\ unrecorded' = [unrecorded EXCEPT ![s] = {}]
  /\ UNCHANGED <<until, reason, supFile, tokFile, hookFile, startVars, scancelled, ending,
                 stopVars, windowLock, hooks, radio, snapshot, legacy, histVars>>

SupEnterLoop(s) ==
  /\ spc[s] = "children" /\ unrecorded[s] = {}
  /\ SupGoto(s, "loop")
  /\ UNCHANGED <<fileVars, startVars, scancelled, ending, held, unrecorded, stopVars, osVars,
                 histVars>>

\* Mutant: the top of an interval does not look at the cancel flag.
SupLoopDeaf(s) ==
  /\ spc[s] = "loop"
  /\ \/ /\ ~UntilLive
        /\ SupGoto(s, "expire")
        /\ UNCHANGED <<hooks, hookFile>>
     \/ /\ UntilLive
        /\ RunHook(SupProc(s), TRUE)
        /\ SupGoto(s, "tick")
  /\ UNCHANGED <<until, reason, supFile, tokFile, pids, startVars, scancelled, ending, held,
                 unrecorded, stopVars, windowLock, children, radio, snapshot, legacy, histVars>>

\* The top of an interval: the cancel flag, the deadline, and else `tick`.
SupLoop(s) ==
  /\ spc[s] = "loop"
  /\ \/ /\ scancelled[s]
        /\ ending' = [ending EXCEPT ![s] = "stopped"]
        /\ SupGoto(s, "endlock")
        /\ UNCHANGED <<hooks, hookFile>>
     \/ /\ ~scancelled[s] /\ ~UntilLive
        /\ SupGoto(s, "expire")
        /\ UNCHANGED <<ending, hooks, hookFile>>
     \/ /\ ~scancelled[s] /\ UntilLive
        /\ RunHook(SupProc(s), TRUE)
        /\ SupGoto(s, "tick")
        /\ UNCHANGED ending
  /\ UNCHANGED <<until, reason, supFile, tokFile, pids, startVars, scancelled, held, unrecorded,
                 stopVars, windowLock, children, radio, snapshot, legacy, histVars>>

\* end_window takes window.lock; after 10 s it goes on without it.
SupWindowLock(s) ==
  /\ spc[s] \in {"expire", "endlock"}
  /\ \/ windowLock = None /\ windowLock' = SupProc(s)
     \/ "hang" \in may /\ windowLock # None /\ UNCHANGED windowLock
  /\ SupGoto(s, IF spc[s] = "expire" THEN "recheck" ELSE "end")
  /\ UNCHANGED <<fileVars, startVars, scancelled, ending, held, unrecorded, stopVars, children,
                 hooks, radio, snapshot, legacy, histVars>>

Unlocked(p) == IF windowLock = p THEN None ELSE windowLock

\* Mutant: the deadline found past before the lock is trusted under it.
SupRecheckTrusting(s) ==
  /\ spc[s] = "recheck"
  /\ SupGoto(s, "expired")
  /\ UNCHANGED <<fileVars, startVars, scancelled, ending, held, unrecorded, stopVars, osVars,
                 histVars>>

\* end_window(true): `until` is read again under the lock.
SupRecheck(s) ==
  /\ spc[s] = "recheck"
  /\ IF UntilLive
     THEN /\ windowLock' = Unlocked(SupProc(s))
          /\ RunHook(SupProc(s), TRUE)
          /\ SupGoto(s, "tick")
     ELSE SupGoto(s, "expired") /\ UNCHANGED <<windowLock, hooks, hookFile>>
  /\ UNCHANGED <<until, reason, supFile, tokFile, pids, startVars, scancelled, ending, held,
                 unrecorded, stopVars, children, radio, snapshot, legacy, histVars>>

SupExpired(s) ==
  /\ spc[s] = "expired"
  /\ until' = "absent"
  /\ windowLock' = Unlocked(SupProc(s))
  /\ ending' = [ending EXCEPT ![s] = "expired"]
  /\ SupGoto(s, "take")
  /\ UNCHANGED <<reason, supFile, tokFile, pids, hookFile, startVars, scancelled, held,
                 unrecorded, stopVars, children, hooks, radio, snapshot, legacy, histVars>>

\* `tick`, the announce burst and the pause: a cancel ends any of the three, a
\* tick that exits 4 ends the window, and children that exited are let go.
SupTick(s) ==
  /\ spc[s] = "tick"
  /\ HookDone(SupProc(s), TRUE)
  /\ \/ SupGoto(s, "loop") /\ UNCHANGED ending
     \/ \E e \in {"stopped", "no_awdl0"} :
          /\ e = "stopped" => scancelled[s]
          /\ ending' = [ending EXCEPT ![s] = e]
          /\ SupGoto(s, "endlock")
  /\ held' = [held EXCEPT ![s] = @ \cap children]
  /\ UNCHANGED <<until, reason, supFile, tokFile, pids, startVars, scancelled, unrecorded,
                 stopVars, windowLock, children, radio, snapshot, legacy, histVars>>

\* end_window(false): stopped, or the radio is gone.
SupEnd(s) ==
  /\ spc[s] = "end"
  /\ until' = "absent"
  /\ windowLock' = Unlocked(SupProc(s))
  /\ SupGoto(s, "take")
  /\ UNCHANGED <<reason, supFile, tokFile, pids, hookFile, startVars, scancelled, ending, held,
                 unrecorded, stopVars, children, hooks, radio, snapshot, legacy, histVars>>

SupTake(s) ==
  /\ spc[s] = "take"
  /\ \E dead \in SUBSET pids : TakeChildren(SupProc(s), dead)
  /\ SupGoto(s, "kill")
  /\ UNCHANGED <<until, reason, supFile, tokFile, hookFile, startVars, scancelled, ending, held,
                 unrecorded, stopVars, windowLock, hooks, radio, legacy, histVars>>

\* KILL for what is left of the list, then for every child still held; reap.
SupKill(s) ==
  /\ spc[s] = "kill"
  /\ children' = children \ (snapshot[SupProc(s)] \cup held[s])
  /\ snapshot' = [snapshot EXCEPT ![SupProc(s)] = {}]
  /\ held' = [held EXCEPT ![s] = {}]
  /\ SupGoto(s, "reason")
  /\ UNCHANGED <<fileVars, startVars, scancelled, ending, unrecorded, stopVars, windowLock,
                 hooks, radio, legacy, histVars>>

\* `down` is the supervisor's own to run unless stop ended the window.
SupReason(s) ==
  /\ spc[s] = "reason"
  /\ reason' = ending[s]
  /\ IF ending[s] = "stopped"
     THEN SupGoto(s, "unrecord") /\ UNCHANGED <<hooks, hookFile>>
     ELSE SupGoto(s, "down") /\ RunHook(SupProc(s), TRUE)
  /\ UNCHANGED <<until, supFile, tokFile, pids, startVars, scancelled, ending, held, unrecorded,
                 stopVars, windowLock, children, radio, snapshot, legacy, histVars>>

SupDown(s) ==
  /\ spc[s] = "down"
  /\ HookDone(SupProc(s), TRUE)
  /\ radio' = "down"
  /\ SupGoto(s, "unrecord")
  /\ UNCHANGED <<until, reason, supFile, tokFile, pids, startVars, scancelled, ending, held,
                 unrecorded, stopVars, windowLock, children, snapshot, legacy, histVars>>

SupUnrecord(s) ==
  /\ spc[s] = "unrecord"
  /\ supFile' = IF supFile = s THEN None ELSE supFile
  /\ SupGoto(s, "dead")
  /\ UNCHANGED <<until, reason, tokFile, pids, hookFile, startVars, scancelled, ending, held,
                 unrecorded, stopVars, osVars, histVars>>

SupStep(s) ==
  \/ SupToken(s) \/ SupRecord(s) \/ SupSpawn(s) \/ SupRecordChild(s) \/ SupEnterLoop(s)
  \/ SupLoop(s) \/ SupWindowLock(s) \/ SupRecheck(s) \/ SupExpired(s) \/ SupTick(s)
  \/ SupEnd(s) \/ SupTake(s) \/ SupKill(s) \/ SupReason(s) \/ SupDown(s) \/ SupUnrecord(s)

-----------------------------------------------------------------------------
(* stop *)

StopGoto(t, l) == tpc' = [tpc EXCEPT ![t] = l]

\* TERM to every start there is, its own handler taking note.
StopBegin(t) ==
  /\ tpc[t] = "idle"
  /\ tstarts' = [tstarts EXCEPT ![t] = {s \in Starts : StartRunning(s)}]
  /\ cancelled' = [s \in Starts |-> cancelled[s] \/ StartRunning(s)]
  /\ since' = {}
  /\ StopGoto(t, "starts")
  /\ UNCHANGED <<fileVars, pc, rc, startLock, closing, code, supVars, tsups, osVars, stray,
                 may>>

\* Mutant: the cancelled starts are not waited for.
StopWaitStartsNoWait(t) ==
  /\ tpc[t] = "starts"
  /\ StopGoto(t, "scan")
  /\ UNCHANGED <<fileVars, startVars, supVars, tstarts, tsups, osVars, histVars>>

\* They have exited, or 5 s have passed.
StopWaitStarts(t) ==
  /\ tpc[t] = "starts"
  /\ \A s \in tstarts[t] : StartRunning(s) => pc[s] \in SlowStart
  /\ StopGoto(t, "scan")
  /\ UNCHANGED <<fileVars, startVars, supVars, tstarts, tsups, osVars, histVars>>

\* Mutant: only the recorded supervisor is ended.
StopScanRecorded(t) ==
  /\ tpc[t] = "scan"
  /\ tsups' = [tsups EXCEPT ![t] = {s \in Starts : SupervisorAlive(s)}]
  /\ scancelled' = [s \in Starts |-> scancelled[s] \/ SupervisorAlive(s)]
  /\ legacy' = FALSE
  /\ StopGoto(t, "sups")
  /\ UNCHANGED <<fileVars, startVars, spc, ending, held, unrecorded, tstarts, windowLock,
                 children, hooks, radio, snapshot, histVars>>

\* TERM to every supervisor, recorded or not; one that has not caught the
\* signal yet dies of it, and so does a 0.9.x one.
StopScan(t) ==
  /\ tpc[t] = "scan"
  /\ tsups' = [tsups EXCEPT ![t] = {s \in Starts : SupRunning(s)}]
  /\ spc' = [s \in Starts |-> IF spc[s] = "token" THEN "dead" ELSE spc[s]]
  /\ scancelled' = [s \in Starts |-> scancelled[s] \/ SupRunning(s)]
  /\ legacy' = FALSE
  /\ StopGoto(t, "sups")
  /\ UNCHANGED <<fileVars, startVars, ending, held, unrecorded, tstarts, windowLock, children,
                 hooks, radio, snapshot, histVars>>

\* They have exited, or 10 s have passed and the rest is SIGKILLed.
StopWaitSups(t) ==
  /\ tpc[t] = "sups"
  /\ \A s \in tsups[t] : SupRunning(s) => spc[s] \in SlowSup
  /\ KillSups(tsups[t])
  /\ StopGoto(t, "orphan")
  /\ UNCHANGED <<fileVars, startVars, scancelled, ending, tstarts, tsups, children, hooks, radio,
                 legacy, since, may>>

StopOrphan(t) ==
  /\ tpc[t] = "orphan"
  /\ KillOrphanedHook
  /\ StopGoto(t, "take")
  /\ UNCHANGED <<until, reason, supFile, tokFile, pids, startVars, supVars, tstarts, tsups,
                 windowLock, children, radio, snapshot, legacy, histVars>>

StopTake(t) ==
  /\ tpc[t] = "take"
  /\ \E dead \in SUBSET pids : TakeChildren(StopProc(t), dead)
  /\ StopGoto(t, "kill")
  /\ UNCHANGED <<until, reason, supFile, tokFile, hookFile, startVars, supVars, tstarts, tsups,
                 windowLock, hooks, radio, legacy, histVars>>

StopKill(t) ==
  /\ tpc[t] = "kill"
  /\ KillTaken(StopProc(t))
  /\ StopGoto(t, "until")
  /\ UNCHANGED <<fileVars, startVars, supVars, tstarts, tsups, windowLock, hooks, radio, legacy,
                 histVars>>

\* `until`, `supervisor` and `supervisor.token` go, one after the other.
StopUntil(t) ==
  /\ tpc[t] = "until"
  /\ until' = "absent"
  /\ StopGoto(t, "unset")
  /\ UNCHANGED <<reason, supFile, tokFile, pids, hookFile, startVars, supVars, tstarts, tsups,
                 osVars, histVars>>

\* The last two of them; then `down stopped`, whose group is not recorded.
StopUnset(t) ==
  /\ tpc[t] = "unset"
  /\ supFile' = None
  /\ tokFile' = None
  /\ RunHook(StopProc(t), FALSE)
  /\ StopGoto(t, "down")
  /\ UNCHANGED <<until, reason, pids, startVars, supVars, tstarts, tsups, windowLock, children,
                 radio, snapshot, legacy, histVars>>

StopDown(t) ==
  /\ tpc[t] = "down"
  /\ HookDone(StopProc(t), FALSE)
  /\ radio' = "down"
  /\ StopGoto(t, "reason")
  /\ UNCHANGED <<until, reason, supFile, tokFile, pids, startVars, supVars, tstarts, tsups,
                 windowLock, children, snapshot, legacy, histVars>>

StopReason(t) ==
  /\ tpc[t] = "reason"
  /\ reason' = "stopped"
  /\ StopGoto(t, "done")
  /\ UNCHANGED <<until, supFile, tokFile, pids, hookFile, startVars, supVars, tstarts, tsups,
                 osVars, histVars>>

StopStep(t) ==
  \/ StopWaitStarts(t) \/ StopScan(t) \/ StopWaitSups(t) \/ StopOrphan(t) \/ StopTake(t)
  \/ StopKill(t) \/ StopUntil(t) \/ StopUnset(t) \/ StopDown(t) \/ StopReason(t)

-----------------------------------------------------------------------------
(* The world around them *)

DeadlinePasses ==
  /\ until = "ahead"
  /\ until' = "past"
  /\ UNCHANGED <<reason, supFile, tokFile, pids, hookFile, startVars, supVars, stopVars, osVars,
                 histVars>>

\* A child exits by itself.
ChildExits ==
  /\ \E c \in children : children' = children \ {c}
  /\ UNCHANGED <<fileVars, startVars, supVars, stopVars, windowLock, hooks, radio, snapshot,
                 legacy, histVars>>

LegacyEnds ==
  /\ legacy
  /\ legacy' = FALSE
  /\ UNCHANGED <<fileVars, startVars, supVars, stopVars, windowLock, children, hooks, radio,
                 snapshot, histVars>>

SupCrash(s) ==
  /\ "crash" \in may /\ SupRunning(s)
  /\ KillSups({s})
  /\ UNCHANGED <<fileVars, startVars, scancelled, ending, stopVars, children, hooks, radio,
                 legacy, since, may>>

Interrupt(s) ==
  /\ "interrupt" \in may /\ StartRunning(s) /\ ~cancelled[s]
  /\ cancelled' = [cancelled EXCEPT ![s] = TRUE]
  /\ UNCHANGED <<fileVars, pc, rc, startLock, closing, code, supVars, stopVars, osVars, histVars>>

\* Every start and stop has run, and nothing of the window is left to move.
Quiet ==
  /\ \A s \in Starts : pc[s] = "done" /\ ~SupRunning(s)
  /\ \A t \in Stops : tpc[t] = "done"
  /\ UNCHANGED vars

Next ==
  \/ \E s \in Starts : StartBegin(s) \/ StartStep(s) \/ SupStep(s) \/ SupCrash(s) \/ Interrupt(s)
  \/ \E t \in Stops : StopBegin(t) \/ StopStep(t)
  \/ DeadlinePasses \/ ChildExits \/ LegacyEnds \/ Quiet

Spec == Init /\ [][Next]_vars

\* Every process that runs goes on: its waits are bounded and its hooks are
\* killed at their timeouts.  Presses, deadlines, crashes and signals from
\* outside need not happen.
Fairness ==
  /\ \A s \in Starts : WF_vars(StartStep(s)) /\ WF_vars(SupStep(s))
  /\ \A t \in Stops : WF_vars(StopStep(t))

FairSpec == Spec /\ Fairness

-----------------------------------------------------------------------------
(* Properties *)

\* Every variable has its type.
TypeOK ==
  /\ until \in {"absent", "zero", "ahead", "past"}
  /\ reason \in {"ok", "parked", "no_awdl0", "stopped", "expired"}
  /\ supFile \in Starts \cup {None} /\ tokFile \in Starts \cup {None}
  /\ pids \subseteq Child /\ hookFile \in Proc \cup {None}
  /\ pc \in [Starts -> StartPcs] /\ rc \in [Starts -> {0, 3, 4, 5}]
  /\ cancelled \in [Starts -> BOOLEAN] /\ startLock \in Starts \cup {None}
  /\ closing \in [Starts -> Starts \cup {None}] /\ code \in [Starts -> {0, 3, 4}]
  /\ spc \in [Starts -> SupPcs] /\ scancelled \in [Starts -> BOOLEAN]
  /\ ending \in [Starts -> {"none", "stopped", "expired", "no_awdl0"}]
  /\ held \in [Starts -> SUBSET Child] /\ unrecorded \in [Starts -> SUBSET Child]
  /\ tpc \in [Stops -> StopPcs]
  /\ tstarts \in [Stops -> SUBSET Starts] /\ tsups \in [Stops -> SUBSET Starts]
  /\ windowLock \in Proc \cup {None} /\ children \subseteq Child /\ hooks \subseteq Proc
  /\ radio \in {"up", "down"} /\ snapshot \in [Proc -> SUBSET Child] /\ legacy \in BOOLEAN
  /\ stray \subseteq Child /\ since \subseteq Starts /\ may \in Scenarios

\* The reason a supervisor gives is set before it is written.
EndingGiven ==
  \A s \in Starts :
    spc[s] \in {"endlock", "end", "take", "kill", "reason"} => ending[s] # "none"

\* One supervisor: no two __supervise processes are ever alive at once, whatever
\* crashes, hangs and interrupts there are, as long as no start begins under a
\* stop (start.lock, window.lock, the closing wait and stop's waits together).
OneSupervisor ==
  \A r, s \in Starts : SupRunning(r) /\ SupRunning(s) => r = s

\* The steps of a start that found no supervisor, up to the spawn of its own.
Opening == {"orphan", "take", "kill", "probe", "probekill", "up", "upkill", "identity",
            "idkill", "publish", "token", "check", "spawn"}
\* The steps of a stop after its wait for the starts, and for the supervisors.
PastStarts == {"scan", "sups", "orphan", "take", "kill", "until", "unset", "down", "reason"}
PastSups   == {"orphan", "take", "kill", "until", "unset", "down", "reason"}

\* Why there is only one: a start runs only under start.lock; a supervisor
\* belongs to a start that still watches it or, once that start has returned,
\* is the recorded one, which the next start finds; a start that opens a window
\* has seen the last supervisor go; and a stop, once it has waited for the
\* starts, meets none that can still fork.
SupervisorInv ==
  /\ OneSupervisor
  /\ \A s \in Starts :
       /\ StartRunning(s) => startLock = s
       /\ SupRunning(s) => pc[s] \in {"await", "failsup", "done"}
       /\ SupRunning(s) /\ pc[s] = "done" => supFile = s
       /\ pc[s] \in Opening => \A r \in Starts : ~SupRunning(r)
       /\ pc[s] = "closing" => \A r \in Starts : SupRunning(r) => r = closing[s]
  /\ \A t \in Stops, s \in Starts :
       /\ StopRunning(t) /\ StartRunning(s) => cancelled[s]
       /\ tpc[t] = "starts" /\ StartRunning(s) => s \in tstarts[t]
       /\ tpc[t] \in PastStarts => pc[s] # "spawn"
       /\ tpc[t] = "sups" /\ SupRunning(s) => s \in tsups[t]
       /\ tpc[t] \in PastSups => ~SupRunning(s)

\* The processes now in a hook that works the radio, and those in a `down`.
Working == {StartProc(s) : s \in {r \in Starts : pc[r] \in {"up", "upkill", "identity", "idkill"}}}
           \cup {SupProc(s) : s \in {r \in Starts : spc[r] = "tick"}}
Undoing == {StartProc(s) : s \in {r \in Starts : pc[r] = "faildown"}}
           \cup {SupProc(s) : s \in {r \in Starts : spc[r] = "down"}}
           \cup {StopProc(t) : t \in {u \in Stops : tpc[u] = "down"}}

\* up, identity and tick have the radio to themselves: no other hook that a live
\* start, supervisor or stop is running runs beside one of them, as long as every
\* wait ends before the code gives it up.
RadioAlone ==
  "hang" \notin may => \A p \in hooks \cap Working : hooks \cap (Working \cup Undoing) = {p}

NothingRuns ==
  /\ \A s \in Starts : ~StartRunning(s) /\ ~SupRunning(s)
  /\ \A t \in Stops : ~StopRunning(t)

\* The children that a start left behind which returned 3 because its supervisor did not
\* show up in 5 s: it killed the supervisor while that was between spawning a child and
\* recording it, or between taking the list of children and killing them.
LeftByFailing == {c \in stray : pc[c[1]] = "done" /\ rc[c[1]] = 3}

\* When no start, supervisor or stop is left, nothing of a window is: no deadline,
\* token or child (but for LeftByFailing), and the last word the radio got is down.  Where a
\* supervisor was killed or a start interrupted the rest is left to the next
\* stop: once one has returned, and no start began after it did, the machine is
\* off and says so, whatever starts and supervisors the stop ran into.
AllQuiet ==
  NothingRuns =>
    /\ may = {} =>
         /\ until = "absent" /\ tokFile = None
         /\ children \subseteq LeftByFailing /\ radio = "down"
    /\ ("hang" \notin may /\ since = {} /\ \E t \in Stops : tpc[t] = "done") =>
         /\ until = "absent" /\ reason = "stopped" /\ supFile = None /\ tokFile = None
         /\ children \subseteq stray /\ radio = "down" /\ ~legacy

\* A live deadline is removed only by stop, by a supervisor told to end or
\* without a radio, or by a start undoing its own: never by an expiry, though a
\* second press may have moved the deadline after the supervisor found it past.
\* (A supervisor that waited 10 s for window.lock goes on without it.)
NoLostExtension ==
  []["hang" \notin may /\ UntilLive /\ until' = "absent" =>
       \/ \E t \in Stops : tpc[t] = "until"
       \/ \E s \in Starts : spc[s] = "end" \/ pc[s] \in {"token", "spawn", "failuntil"}]_vars

\* When a start that nobody cancelled returns 3 or 4, other than for a window that is
\* still closing, there is no deadline, token or supervisor, `down` was the radio's last
\* word, and no child runs, but for those that this start, or an earlier one that also
\* failed, lost by killing a supervisor that was slow to show up.
FailedStartCleans ==
  [][\A s \in Starts :
       (/\ may = {} /\ StartRunning(s) /\ pc'[s] = "done" /\ rc'[s] \in {3, 4}
        /\ pc[s] # "closing" /\ \A t \in Stops : ~StopRunning(t))
       => /\ until' = "absent" /\ tokFile' = None /\ radio' = "down"
          /\ ~SupRunning(s)' /\ children' \subseteq LeftByFailing']_vars

\* Every start and every stop returns.
CommandsReturn ==
  /\ \A s \in Starts : StartRunning(s) ~> pc[s] = "done"
  /\ \A t \in Stops : StopRunning(t) ~> tpc[t] = "done"

\* A deadline that has passed is removed or moved: no window outlives it.
DeadlineEnds == until = "past" ~> until # "past"
=============================================================================
