---------------------------- MODULE IdentityCache ----------------------------
(***************************************************************************)
(* The identity commands (core/crates/omdrop-identity/src/lifecycle.rs,     *)
(* keyring.rs, op.rs): the part of `omdrop on` and `omdrop off` that settles *)
(* a window's identity, and `identity lock`, `unlock`, `1password import`,  *)
(* `1password use` and `1password off`, run as separate processes.          *)
(*                                                                         *)
(* They share the settings, the window file, the counters `seq` and `gen`,   *)
(* the kernel keyring's one cache entry, the file fetch.pid, and the         *)
(* identity lock.  A 1Password request runs without the lock and takes as    *)
(* long as a person takes; whatever it fetched is published only if `gen`    *)
(* has not moved since.                                                      *)
(*                                                                         *)
(* An identity (certificate, key and record) is one element of Contents, a    *)
(* 1Password item one element of Items.  A fetch goes by the name of its       *)
(* process, which stands for the random fetch_id.  A section under the lock   *)
(* is one step; `lock` is only the lock that omdrop itself holds over         *)
(* several of them.                                                           *)
(***************************************************************************)
EXTENDS Naturals

CONSTANTS Cmds,      \* processes, each running one command
          Items,     \* 1Password items, made or yet to be made
          Contents,  \* identities
          None       \* no item, no identity, no file, no process

ASSUME IdentityAssumption ==
  None \notin Cmds \cup Items \cup Contents

VARIABLES
  (* settings and files *)
  mode,      \* identity_source
  item,      \* identity_op_item (with its account and vault)
  disk,      \* the Apple identity in ~/.omdrop/keys
  window,    \* the window file: its source and fetch_id, or None
  seq, gen,  \* the counters of the state file
  fetchPid,  \* fetch.pid: the process whose `op` it names
  lock,      \* the identity lock, while an omdrop process holds it
  (* outside: the keyring and 1Password *)
  cache,     \* the keyring's entry: its fetch and identity, or None
  timeout,   \* when the kernel drops it: "period" or "hard"
  ended,     \* fetches whose cache period is over
  expired,   \* fetches whose hard expiry has passed
  store,     \* what each 1Password item holds
  (* processes *)
  kind, pc, then, mySeq, myGen, ref, got, present, sawMode,
  killed,    \* processes whose `op` was sent TERM
  (* history *)
  barred,    \* fetches that were in flight when gen moved
  adopted,   \* the item that was last committed to
  torn       \* a commit failed, or died, between two of its writes

filesVars == <<mode, item, disk, window, seq, gen, fetchPid, lock>>
worldVars == <<cache, timeout, ended, expired, store>>
procVars  == <<kind, pc, then, mySeq, myGen, ref, got, present, sawMode, killed>>
vars == <<filesVars, worldVars, procVars, barred, adopted, torn>>

Kinds == {"none", "on", "off", "unlock", "lock", "use", "import", "onepassword_off"}
Pcs   == {"idle", "begun", "gen", "ref", "spawn", "op", "publish", "window",
          "starting", "stop", "settings", "compare", "save", "verify", "adopt", "delete",
          "done"}

\* current_cache, and usable_for_new_window of it.  The kernel has dropped the
\* entry by its hard expiry.
CacheUsable == cache # None /\ cache.fetch \notin ended

WindowOpen == window # None

Init ==
  /\ mode \in {"disk", "self-signed", "1password"}
  /\ store \in [Items -> Contents \cup {None}]
  /\ item \in Items \cup {None}
  /\ mode = "1password" => item # None
  /\ item # None => store[item] # None
  /\ disk \in Contents \cup {None}
  /\ window = None /\ seq = 0 /\ gen = 0 /\ fetchPid = None /\ lock = None
  /\ cache = None /\ timeout = "period" /\ ended = {} /\ expired = {}
  /\ kind = [p \in Cmds |-> "none"]
  /\ pc = [p \in Cmds |-> "idle"]
  /\ then = [p \in Cmds |-> "done"]
  /\ mySeq = [p \in Cmds |-> 0]
  /\ myGen = [p \in Cmds |-> 0]
  /\ ref = [p \in Cmds |-> None]
  /\ got = [p \in Cmds |-> None]
  /\ present = [p \in Cmds |-> None]
  /\ sawMode = [p \in Cmds |-> "disk"]
  /\ killed = {} /\ barred = {} /\ adopted = item /\ torn = FALSE

-----------------------------------------------------------------------------
(* Shared steps *)

Goto(p, l) == pc' = [pc EXCEPT ![p] = l]

Begin(p, k) ==
  /\ pc[p] = "idle"
  /\ kind' = [kind EXCEPT ![p] = k]

\* Where a fetch goes when it is over: `on` opens its window in any case.
AfterFetch(p) == IF kind[p] = "on" THEN "window" ELSE "done"

\* The fetches of on and unlock that have read the generation.
Fetching(p) ==
  kind[p] \in {"on", "unlock"} /\ pc[p] \in {"ref", "spawn", "op", "publish"}

\* bump(gen): everything in flight is overtaken.
BumpGen ==
  /\ gen' = gen + 1
  /\ barred' = barred \cup {q \in Cmds : Fetching(q)}

\* kill_fetch: TERM to the `op` that fetch.pid names, and the file goes.
KillFetch ==
  /\ killed' = killed \cup {q \in Cmds : fetchPid = q /\ pc[q] = "op"}
  /\ fetchPid' = None

\* stop-end: the window file goes, and the cache is kept to its period only:
\* dropped at once when that is over.  A failure is only warned about.
StopEnd ==
  /\ window' = None
  /\ IF cache # None /\ cache.fetch \in ended
     THEN cache' \in {None, cache} /\ UNCHANGED timeout
     ELSE timeout' \in {timeout, "period"} /\ UNCHANGED cache

-----------------------------------------------------------------------------
(* op: run without the lock *)

\* op_run: the request is started and recorded (between the two it is as out of
\* kill_fetch's reach as before).
OpSpawn(p) ==
  /\ pc[p] = "spawn"
  /\ fetchPid' = p
  /\ Goto(p, "op")
  /\ UNCHANGED <<mode, item, disk, window, seq, gen, lock, worldVars, kind, then, mySeq, myGen,
                 ref, got, present, sawMode, killed, barred, adopted, torn>>

\* The request is over and fetch.pid goes, whosever it is: not installed,
\* dismissed, timed out, killed or unusable; or answered, with another request
\* to follow or as the last one of its kind.  `item create` makes an item,
\* which holds the files on disk or, if 1Password garbled them, others.
OpEnd(p) ==
  /\ pc[p] = "op"
  /\ fetchPid' = None
  /\ killed' = killed \ {p}
  /\ \/ /\ Goto(p, AfterFetch(p))
        /\ UNCHANGED <<ref, got, store>>
     \/ /\ p \notin killed
        /\ Goto(p, "spawn")
        /\ UNCHANGED <<ref, got, store>>
     \/ /\ p \notin killed /\ then[p] # "save" /\ store[ref[p]] # None
        /\ got' = [got EXCEPT ![p] = store[ref[p]]]
        /\ Goto(p, then[p])
        /\ UNCHANGED <<ref, store>>
     \/ /\ p \notin killed /\ then[p] = "save"
        /\ \E i \in Items, c \in Contents :
             /\ store[i] = None
             /\ store' = [store EXCEPT ![i] = c]
             /\ ref' = [ref EXCEPT ![p] = i]
        /\ Goto(p, "save")
        /\ UNCHANGED got
  /\ UNCHANGED <<mode, item, disk, window, seq, gen, lock, cache, timeout, ended, expired, kind,
                 then, mySeq, myGen, present, sawMode, barred, adopted, torn>>

-----------------------------------------------------------------------------
(* fill_cache *)

FillGen(p) ==
  /\ pc[p] = "gen" /\ lock = None
  /\ myGen' = [myGen EXCEPT ![p] = gen]
  /\ Goto(p, "ref")
  /\ UNCHANGED <<filesVars, worldVars, kind, then, mySeq, ref, got, present, sawMode, killed,
                 barred, adopted, torn>>

\* item_ref: which item, read without the lock.
FillRef(p) ==
  /\ pc[p] = "ref"
  /\ ref' = [ref EXCEPT ![p] = item]
  /\ then' = [then EXCEPT ![p] = "publish"]
  /\ Goto(p, IF item = None THEN AfterFetch(p) ELSE "spawn")
  /\ UNCHANGED <<filesVars, worldVars, kind, mySeq, myGen, got, present, sawMode, killed,
                 barred, adopted, torn>>

\* Mutant: a live window's cache is replaced.
PublishOverWindow(p) ==
  /\ pc[p] = "publish" /\ lock = None
  /\ \/ UNCHANGED <<cache, timeout>>
     \/ /\ gen = myGen[p]
        /\ cache' = [fetch |-> p, content |-> got[p]]
        /\ timeout' = "period"
  /\ Goto(p, AfterFetch(p))
  /\ UNCHANGED <<filesVars, ended, expired, store, kind, then, mySeq, myGen, ref, got, present,
                 sawMode, killed, barred, adopted, torn>>

\* publish_if_current: superseded, or under a 1Password window, or the keyring
\* refuses, and nothing changes; else the new entry displaces the old one.
PublishIfCurrent(p) ==
  /\ pc[p] = "publish" /\ lock = None
  /\ \/ UNCHANGED <<cache, timeout>>
     \/ /\ gen = myGen[p]
        /\ ~(WindowOpen /\ window.source = "1password")
        /\ cache' = [fetch |-> p, content |-> got[p]]
        /\ timeout' = "period"
  /\ Goto(p, AfterFetch(p))
  /\ UNCHANGED <<filesVars, ended, expired, store, kind, then, mySeq, myGen, ref, got, present,
                 sawMode, killed, barred, adopted, torn>>

-----------------------------------------------------------------------------
(* on and off *)

\* begin: the self-signed pair, then `seq` under the lock.
OnBegin(p) ==
  /\ Begin(p, "on") /\ lock = None
  /\ mySeq' = [mySeq EXCEPT ![p] = seq]
  /\ Goto(p, "begun")
  /\ UNCHANGED <<filesVars, worldVars, then, myGen, ref, got, present, sawMode, killed, barred,
                 adopted, torn>>

\* begin: whether 1Password has to be asked, decided without the lock.
OnDecide(p) ==
  /\ pc[p] = "begun"
  /\ Goto(p, IF mode # "1password" \/ CacheUsable \/ WindowOpen THEN "window" ELSE "gen")
  /\ UNCHANGED <<filesVars, worldVars, kind, then, mySeq, myGen, ref, got, present, sawMode,
                 killed, barred, adopted, torn>>

\* The window file for a new window, and what becomes of the cache's timeout.
OpenWindow ==
  IF mode = "1password" /\ CacheUsable
  THEN window' = [source |-> "1password", fetch |-> cache.fetch] /\ timeout' = "hard"
  ELSE /\ \/ window' = [source |-> "self-signed", fetch |-> None]
          \/ /\ mode = "disk" /\ disk # None
             /\ window' = [source |-> "disk", fetch |-> None]
       /\ UNCHANGED timeout

\* window, under omdrop's lock: refused after an off; a repeated on keeps the
\* window there is; the files on disk, or a timeout the kernel would not set,
\* may turn out unusable.  The lock stays held while the rest starts.
OnWindow(p) ==
  /\ pc[p] = "window" /\ lock = None
  /\ \/ /\ mySeq[p] # seq
        /\ Goto(p, "done")
        /\ UNCHANGED <<window, timeout, lock>>
     \/ /\ mySeq[p] = seq
        /\ IF WindowOpen THEN UNCHANGED <<window, timeout>> ELSE OpenWindow
        /\ lock' = p
        /\ Goto(p, "starting")
     \/ /\ mySeq[p] = seq /\ ~WindowOpen /\ mode = "1password" /\ CacheUsable
        /\ Goto(p, "done")
        /\ UNCHANGED <<window, timeout, lock>>
  /\ UNCHANGED <<mode, item, disk, seq, gen, fetchPid, cache, ended, expired, store, kind, then,
                 mySeq, myGen, ref, got, present, sawMode, killed, barred, adopted, torn>>

\* Receiver and radio are up (or omdrop was killed): the lock goes.
OnStarted(p) ==
  /\ pc[p] = "starting"
  /\ lock' = None
  /\ Goto(p, "done")
  /\ UNCHANGED <<mode, item, disk, window, seq, gen, fetchPid, worldVars, kind, then, mySeq,
                 myGen, ref, got, present, sawMode, killed, barred, adopted, torn>>

\* identity_abort, as `off` without an off: stop-begin, then stop-end.
OnAbort(p) ==
  /\ pc[p] = "starting"
  /\ seq' = seq + 1
  /\ StopEnd
  /\ lock' = None
  /\ Goto(p, "done")
  /\ UNCHANGED <<mode, item, disk, gen, fetchPid, ended, expired, store, kind, then, mySeq,
                 myGen, ref, got, present, sawMode, killed, barred, adopted, torn>>

\* off: stop-begin.
OffBegin(p) ==
  /\ Begin(p, "off") /\ lock = None
  /\ seq' = seq + 1
  /\ lock' = p
  /\ Goto(p, "stop")
  /\ UNCHANGED <<mode, item, disk, window, gen, fetchPid, worldVars, then, mySeq, myGen, ref,
                 got, present, sawMode, killed, barred, adopted, torn>>

\* off: the receiver has stopped, and stop-end; or it would not, and off died.
OffEnd(p) ==
  /\ pc[p] = "stop"
  /\ \/ StopEnd
     \/ UNCHANGED <<window, cache, timeout>>
  /\ lock' = None
  /\ Goto(p, "done")
  /\ UNCHANGED <<mode, item, disk, seq, gen, fetchPid, ended, expired, store, kind, then, mySeq,
                 myGen, ref, got, present, sawMode, killed, barred, adopted, torn>>

-----------------------------------------------------------------------------
(* The identity commands *)

Unlock(p) ==
  /\ Begin(p, "unlock")
  /\ Goto(p, IF mode # "1password" \/ cache # None THEN "done" ELSE "gen")
  /\ UNCHANGED <<filesVars, worldVars, then, mySeq, myGen, ref, got, present, sawMode, killed,
                 barred, adopted, torn>>

\* Mutant: the cache goes, and the fetches in flight are left alone.
LockNoBump(p) ==
  /\ Begin(p, "lock") /\ lock = None
  /\ IF WindowOpen
     THEN UNCHANGED <<barred, killed, fetchPid, cache>>
     ELSE /\ barred' = barred \cup {q \in Cmds : Fetching(q)}
          /\ KillFetch
          /\ cache' \in {None, cache}
  /\ Goto(p, "done")
  /\ UNCHANGED <<mode, item, disk, window, seq, gen, lock, timeout, ended, expired, store, then,
                 mySeq, myGen, ref, got, present, sawMode, adopted, torn>>

Lock(p) ==
  /\ Begin(p, "lock") /\ lock = None
  /\ IF WindowOpen
     THEN UNCHANGED <<gen, barred, killed, fetchPid, cache>>
     ELSE BumpGen /\ KillFetch /\ cache' \in {None, cache}
  /\ Goto(p, "done")
  /\ UNCHANGED <<mode, item, disk, window, seq, lock, timeout, ended, expired, store, then, mySeq,
                 myGen, ref, got, present, sawMode, adopted, torn>>

\* 1password off: an entry that would not go is ignored.
OnePasswordOff(p) ==
  /\ Begin(p, "onepassword_off") /\ lock = None
  /\ IF WindowOpen
     THEN UNCHANGED <<mode, gen, barred, killed, fetchPid, cache>>
     ELSE /\ BumpGen /\ KillFetch
          /\ cache' \in {None, cache}
          /\ mode' \in {"self-signed", mode}
  /\ Goto(p, "done")
  /\ UNCHANGED <<item, disk, window, seq, lock, timeout, ended, expired, store, then, mySeq,
                 myGen, ref, got, present, sawMode, adopted, torn>>

\* 1password use: the generation moves at once, and then the item is fetched.
UseBegin(p) ==
  /\ Begin(p, "use") /\ lock = None
  /\ IF WindowOpen
     THEN Goto(p, "done") /\ UNCHANGED <<gen, barred, killed, fetchPid, myGen, ref, then>>
     ELSE /\ BumpGen /\ KillFetch
          /\ myGen' = [myGen EXCEPT ![p] = gen + 1]
          /\ \E i \in Items : ref' = [ref EXCEPT ![p] = i]
          /\ then' = [then EXCEPT ![p] = "adopt"]
          /\ Goto(p, "spawn")
  /\ UNCHANGED <<mode, item, disk, window, seq, lock, worldVars, mySeq, got, present, sawMode,
                 adopted, torn>>

ImportBegin(p) ==
  /\ Begin(p, "import") /\ lock = None
  /\ myGen' = [myGen EXCEPT ![p] = gen]
  /\ Goto(p, IF WindowOpen THEN "done" ELSE "settings")
  /\ UNCHANGED <<filesVars, worldVars, then, mySeq, ref, got, present, sawMode, killed, barred,
                 adopted, torn>>

\* The files and the settings, read without the lock: with an item already
\* there this is a rerun, and else the files are sent off, if they pass.
ImportRead(p) ==
  /\ pc[p] = "settings"
  /\ present' = [present EXCEPT ![p] = disk]
  /\ sawMode' = [sawMode EXCEPT ![p] = mode]
  /\ ref' = [ref EXCEPT ![p] = item]
  /\ then' = [then EXCEPT ![p] = IF item # None THEN "compare" ELSE "save"]
  /\ \/ (item # None \/ disk # None) /\ Goto(p, "spawn")
     \/ item = None /\ Goto(p, "done")
  /\ UNCHANGED <<filesVars, worldVars, kind, mySeq, myGen, got, killed, barred, adopted, torn>>

\* A rerun: what is left on disk against the item, then the commit, unless it
\* was done already.
ImportCompare(p) ==
  /\ pc[p] = "compare"
  /\ Goto(p, IF present[p] \notin {None, got[p]} THEN "done"
             ELSE IF sawMode[p] # "1password" THEN "adopt" ELSE "delete")
  /\ UNCHANGED <<filesVars, worldVars, kind, then, mySeq, myGen, ref, got, present, sawMode,
                 killed, barred, adopted, torn>>

\* check_current: no window, and no other identity command since.
Current(p) == ~WindowOpen /\ gen = myGen[p]

\* Mutant: the new item's ids are saved whatever happened meanwhile.
SaveItemIdsAlways(p) ==
  /\ pc[p] = "save" /\ lock = None
  /\ item' = ref[p]
  /\ then' = [then EXCEPT ![p] = "verify"]
  /\ Goto(p, "spawn")
  /\ UNCHANGED <<mode, disk, window, seq, gen, fetchPid, lock, worldVars, kind, mySeq, myGen, ref,
                 got, present, sawMode, killed, barred, adopted, torn>>

\* save_item_ids: so that a rerun finds the item; the mode is not changed.  Refused
\* when overtaken, and a write that fails ends the import too.
SaveItemIds(p) ==
  /\ pc[p] = "save" /\ lock = None
  /\ \/ /\ Current(p)
        /\ item' = ref[p]
        /\ then' = [then EXCEPT ![p] = "verify"]
        /\ Goto(p, "spawn")
     \/ /\ Goto(p, "done")
        /\ UNCHANGED <<item, then>>
  /\ UNCHANGED <<mode, disk, window, seq, gen, fetchPid, lock, worldVars, kind, mySeq, myGen, ref,
                 got, present, sawMode, killed, barred, adopted, torn>>

\* Mutant: the item is not read back.
ImportVerifyBlind(p) ==
  /\ pc[p] = "verify"
  /\ Goto(p, "adopt")
  /\ UNCHANGED <<filesVars, worldVars, kind, then, mySeq, myGen, ref, got, present, sawMode,
                 killed, barred, adopted, torn>>

ImportVerify(p) ==
  /\ pc[p] = "verify"
  /\ Goto(p, IF got[p] = present[p] THEN "adopt" ELSE "done")
  /\ UNCHANGED <<filesVars, worldVars, kind, then, mySeq, myGen, ref, got, present, sawMode,
                 killed, barred, adopted, torn>>

\* Mutant: the settings are committed without clearing the old cache.
AdoptKeepsCache(p) ==
  /\ pc[p] = "adopt" /\ lock = None
  /\ \/ /\ Current(p)
        /\ item' = ref[p] /\ mode' = "1password" /\ adopted' = ref[p] /\ UNCHANGED torn
        /\ BumpGen /\ KillFetch
        /\ Goto(p, IF kind[p] = "import" THEN "delete" ELSE "done")
     \/ /\ Goto(p, "done")
        /\ UNCHANGED <<item, mode, gen, killed, fetchPid, barred, adopted, torn>>
  /\ UNCHANGED <<disk, window, seq, lock, worldVars, kind, then, mySeq, myGen, ref, got, present,
                 sawMode>>

\* adopt: the old cache goes first, then the ids, the mode and the generation;
\* refused when overtaken, or when the cache would not go.  A write that fails
\* leaves the ones before it.
Adopt(p) ==
  /\ pc[p] = "adopt" /\ lock = None
  /\ \/ /\ Current(p)
        /\ cache' = None
        /\ item' = ref[p] /\ mode' = "1password" /\ adopted' = ref[p] /\ UNCHANGED torn
        /\ BumpGen /\ KillFetch
        /\ Goto(p, IF kind[p] = "import" THEN "delete" ELSE "done")
     \/ /\ Goto(p, "done")
        /\ UNCHANGED <<cache, item, mode, gen, killed, fetchPid, barred, adopted, torn>>
     \/ /\ Current(p)
        /\ cache' = None /\ torn' = TRUE
        /\ item' = ref[p] /\ mode' \in {mode, "1password"}
        /\ Goto(p, "done")
        /\ UNCHANGED <<gen, killed, fetchPid, barred, adopted>>
  /\ UNCHANGED <<disk, window, seq, lock, timeout, ended, expired, store, kind, then, mySeq,
                 myGen, ref, got, present, sawMode>>

\* Committed: the files on disk go.
ImportDelete(p) ==
  /\ pc[p] = "delete"
  /\ disk' = None
  /\ Goto(p, "done")
  /\ UNCHANGED <<mode, item, window, seq, gen, fetchPid, lock, worldVars, kind, then, mySeq,
                 myGen, ref, got, present, sawMode, killed, barred, adopted, torn>>

-----------------------------------------------------------------------------
(* Time *)

\* A fetch's cache period ends, and with it an entry kept no longer than that.
PeriodEnds(f) ==
  /\ f \notin ended
  /\ (cache # None /\ cache.fetch = f) \/ (WindowOpen /\ window.fetch = f)
  /\ ended' = ended \cup {f}
  /\ cache' = IF cache # None /\ cache.fetch = f /\ timeout = "period" THEN None ELSE cache
  /\ UNCHANGED <<filesVars, timeout, expired, store, procVars, barred, adopted, torn>>

HardExpires(f) ==
  /\ f \in ended \ expired
  /\ expired' = expired \cup {f}
  /\ cache' = IF cache # None /\ cache.fetch = f THEN None ELSE cache
  /\ UNCHANGED <<filesVars, timeout, ended, store, procVars, barred, adopted, torn>>

Quiet == (\A p \in Cmds : pc[p] = "done") /\ UNCHANGED vars

Command(p) ==
  \/ OnBegin(p) \/ OffBegin(p) \/ Unlock(p) \/ Lock(p) \/ OnePasswordOff(p) \/ UseBegin(p)
  \/ ImportBegin(p)

Step(p) ==
  \/ OpSpawn(p) \/ OpEnd(p) \/ FillGen(p) \/ FillRef(p) \/ PublishIfCurrent(p)
  \/ OnDecide(p) \/ OnWindow(p) \/ OnStarted(p) \/ OnAbort(p) \/ OffEnd(p)
  \/ ImportRead(p) \/ ImportCompare(p) \/ SaveItemIds(p) \/ ImportVerify(p) \/ Adopt(p)
  \/ ImportDelete(p)

Next ==
  \/ \E p \in Cmds : Command(p) \/ Step(p) \/ PeriodEnds(p) \/ HardExpires(p)
  \/ Quiet

Spec == Init /\ [][Next]_vars

-----------------------------------------------------------------------------
(* Properties *)

Cached   == {None} \cup [fetch : Cmds, content : Contents]
Windows  == {None} \cup [source : {"1password", "disk", "self-signed"}, fetch : Cmds \cup {None}]

FileTypes ==
  /\ mode \in {"disk", "self-signed", "1password"} /\ item \in Items \cup {None}
  /\ disk \in Contents \cup {None} /\ window \in Windows
  /\ seq \in Nat /\ gen \in Nat /\ fetchPid \in Cmds \cup {None} /\ lock \in Cmds \cup {None}
  /\ cache \in Cached /\ timeout \in {"period", "hard"}
  /\ ended \subseteq Cmds /\ expired \subseteq Cmds
  /\ store \in [Items -> Contents \cup {None}]
  /\ barred \subseteq Cmds /\ adopted \in Items \cup {None} /\ torn \in BOOLEAN

ProcTypes ==
  /\ kind \in [Cmds -> Kinds] /\ pc \in [Cmds -> Pcs] /\ then \in [Cmds -> Pcs]
  /\ mySeq \in [Cmds -> Nat] /\ myGen \in [Cmds -> Nat]
  /\ ref \in [Cmds -> Items \cup {None}] /\ got \in [Cmds -> Contents \cup {None}]
  /\ present \in [Cmds -> Contents \cup {None}]
  /\ sawMode \in [Cmds -> {"disk", "self-signed", "1password"}]
  /\ killed \subseteq Cmds

\* Every variable has its type.
TypeOK == FileTypes /\ ProcTypes

\* The next window never presents another identity than the one chosen: in
\* 1Password mode the cache holds what the configured item holds, whatever
\* fetches, imports and uses overtook one another, as long as no commit was torn.
CacheIsChosen ==
  ~torn /\ cache # None /\ mode = "1password" => item # None /\ cache.content = store[item]

\* A window on the cache can load its identity to its hard expiry: while it is
\* open nothing replaces, revokes or times out the entry that it names.
WindowResolves ==
  WindowOpen /\ window.source = "1password" /\ window.fetch \notin expired =>
    cache # None /\ cache.fetch = window.fetch

\* `identity lock`, `use` and `1password off` discard the fetches in flight:
\* what one of those answers later is never cached.
NoBarredCache == cache # None => cache.fetch \notin barred

\* import "deletes the files only when 1Password holds an identical copy": the
\* identity that was on disk is never only in nobody's hands.
FilesKept == [][disk' # disk => \E i \in Items : store[i] = disk]_vars

\* In 1Password mode the item is one that was committed to: an import that was
\* overtaken, or that never finished, leaves no item there that nobody checked.
ChoiceStands == ~torn /\ mode = "1password" => item = adopted
=============================================================================
