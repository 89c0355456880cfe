# Formal model of Omdrop

TLA+ specifications of Omdrop (omdrop-core, the Rust programs under `core/crates`):
the window commands, the radio, the identity, the receiver and its archive reader,
the sender, the discovery, the advertiser and what follows a delivery. TLC checks
them on small instances; TLAPS proves every safety property of the passing runs for every
instance. `PROJECT.json` says which definition stands for which lines, which run
checks what, and which hazards and findings go with it.

## 1. The system

Omdrop makes a Linux machine an AirDrop receiver and sender. Most of it is a set of
short-lived commands that share files, locks and systemd units; the long-lived
processes are the radio's supervisor, the receiver, the watcher and the advertisers.

| Part | State it keeps | Operations | Meets others through |
|---|---|---|---|
| Radio window (`omdrop-radio`) | `until`, `supervisor`, `token`, `pids`, `hook.pgid`, `reason`; two flocks; the radio itself | `start`, the supervisor it forks, `stop`, `status` | signals, flocks, hooks of the backend; called by `omdrop on/off` and `omdrop send` |
| Identity (`omdrop-identity`) | settings (mode, item), `~/.omdrop/keys`, window file, counters `seq` and `gen`, `fetch.pid`, one kernel-keyring entry | `begin`, `window`, `stop-begin`, `stop-end`, `lock`, `unlock`, `1password import/use/off`, `resolve` | the identity lock, the keyring, `op` (1Password's CLI) |
| Window (`omdrop-cli` window) | the receiver unit, two transient timers, the watcher unit, the window file | `on`, `off`, `toggle` | all of the above, systemd |
| Receiver (`omdrop-receiver`) | connection table, upload slots, what each connection proved, visibility | accept, Discover, Ask, Upload, stop | TLS, contacts, the download folder, systemd |
| Archive (`omdrop-proto`) | staged files, the registry of partials | read, stage, publish, roll back, sweep | the receiver's threads, its stop, the download folder |
| Arrivals (`omdrop-cli` links) | previews, the watcher's handlers | `watch`, `handle` | the receiver's log, the folder, notifications; `off` kills the watcher |
| Send (`omdrop-cli` send, `omdrop-send`) | process groups, the wake advert, the sender's pid, rows in a pipe | `send`, `peers`; send-to-peer; airdrop-send | signals, pipes, the peers, the advertiser |
| Discovery (`omdrop-send` mdns, aflog) | instances, hosts, attempts | browse, /Discover | mDNS, the frame log, the peers |
| Advertiser (`omdrop-adv`) | the BLE registration, the responder's gap | `ble`, `mdns`, `announce` | BlueZ, raw sockets |
| Status, config, driver, setup | settings files, installed packages | reports and installation | systemd, pacman |
| Panel, bash and Python programs | none of their own, or the same files | the same commands | |

What is hard here:

* **Interleaving.** Any command may be run twice, at once, by a person, by the
  panel and by a timer. `start` may extend a window that its supervisor is just
  ending; `on` waits for minutes on a 1Password prompt while `off`, `lock` or
  another import runs; uploads look for free names together; handlers prune one
  directory; a signal lands between a spawn and the record of the child.
* **Failure half-way.** A start has five to ten steps with outside effects, an archive
  is published one link at a time, a commit of the identity is four writes; each step
  can fail, and what came before has to be undone.
* **Crashes.** A killed supervisor leaves children, a hook and files behind; a killed
  receiver leaves hidden files.
* **Time.** Deadlines move, timers fire while their window is being reopened, the
  kernel drops a key by itself, senders trickle, mDNS answers get lost.

What makes the parts correct:

* radio: at most one supervisor; one hook at the radio at a time; a `stop` that says so
  leaves it off; a failed `start` undoes what it did; no extension is lost;
* identity: the identity presented is the one chosen; an open window keeps what it was
  opened with; a key is deleted only when 1Password has it; what was overtaken changes
  nothing;
* window: off wins over an `on` that began before it; whatever is open is bounded; what
  is closed is closed in all its six parts;
* receiver: nothing is stored that was not let in, nothing is acknowledged that is not
  stored, caps hold and never cost an upload under way;
* archive: all of an upload's files or none, only of a whole body, over nobody's file,
  and no debris;
* send: the right person is asked, once; success is said only of what was delivered; a
  signal always ends everything;
* discovery: the receiver named, found if it answers, in the time allowed;
* advertiser: only true hashes, only while wanted;
* arrivals: the stored files are the ones announced, a slow photo holds nothing up, and a
  preview is there for as long as its notification needs it.

The complete list of components, with those left out, is in `PROJECT.json`.

## 2. Modules

| Module | Models | Kind |
|---|---|---|
| `RadioWindow` | `omdrop-radio/src/window.rs`, `proc.rs` | specification, properties |
| `IdentityCache` | `omdrop-identity/src/lifecycle.rs`, `op.rs`, `keyring.rs` | specification, properties |
| `OmdropWindow` | `omdrop-cli/src/window.rs`, the watcher's close, the receiver's unit | specification, properties, refinement of `WindowTurns` |
| `WindowTurns` | what the identity lock and `seq` promise about a window | abstract specification |
| `Archive` | `omdrop-proto/src/archive.rs`, the body readers of `http.rs` | specification, properties |
| `Delivery` | what the receiver promises about a transfer | abstract specification |
| `ReceiverServer` | `omdrop-receiver/src/server.rs`, `main.rs`, the policy of `contacts.rs` | specification, properties, refinement of `Delivery` |
| `PeerSend` | `omdrop-send`: `send_to_peer.rs`, `peer_env.rs`, `airdrop_send.rs`, `client.rs`, `http.rs` | component of `CliSend` |
| `CliSend` | `omdrop-cli`: `send.rs`, `pick.rs`, `proc.rs` | composition with `PeerSend`, properties |
| `Browse` | `omdrop-send`: the search of `airdrop_send.rs`, `mdns.rs`, `aflog.rs`, `http.rs` | specification, properties |
| `Advertiser` | `omdrop-adv`: `ble.rs`, `cli.rs`, `mdns.rs` | specification, properties |
| `Arrivals` | `omdrop-cli/src/links.rs`: `watch`, `handle`, previews | specification, properties |
| `RadioWindowProofs`, `IdentityCacheProofs`, `OmdropWindowProofs`, `ArchiveProofs`, `ReceiverServerProofs`, `CliSendProofs`, `BrowseProofs` | | theorems and proofs about the module each is named after |
| `ReceptionProofs` | | the same about `Arrivals` and `Advertiser`, the two ends of a reception |
| `MC*`, `*.cfg` | | TLC instances |

The definitions whose comment begins with "Mutant" are not part of any
specification: each is a plausible bug in the definition after it, and replacing
that definition by it breaks the property it is listed with.

`RadioWindow` and `OmdropWindow` have a constant `Scenarios`, a set of sets of faults.
A behaviour picks one at the start and keeps it in the variable `may`: the faults that
can happen in it. Properties that a fault does break say so in terms of `may`.

### RadioWindow

Starts, supervisors (one per start) and stops are processes with program counters;
`start.lock` and `window.lock` are variables with a holder. Files are variables
of their own (`until`, `supervisor`, `token`, `pids`, `hook.pgid`, `reason`), because
the protocol is about which of them exists when. A hook is a process group with an
owner: it runs, is killed with its caller's TERM, or survives it. A child is a tag;
its line in `pids` appears one step after the child does. A deadline is "live",
"past" or absent: the code compares it with the clock and never with another
deadline, so the clock is the action that makes it pass.

`Serial` says that no start begins while a stop runs, which is what the identity lock
of `omdrop on` and `off` gives them; all runs set it. A stop may still run into a start.
The faults: "crash" (a supervisor is SIGKILLed anywhere), "interrupt" (a start gets TERM
from somebody else than stop), "hang" (every bounded wait runs out).

A child whose spawner was killed before it had recorded it is lost to everybody: `stray`
keeps it with its supervisor. In a world without faults that spawner can only be a slow
supervisor which a failing start has killed (`LeftByFailing`), and `AllQuiet` and
`FailedStartCleans` allow that child and no other (section 4).

Assumed: a hook dies on SIGKILL unless "hang" says otherwise, and a scan of
`/proc` is one step. Signal numbers, log lines and the exact waits are left out.

### IdentityCache

One process per command. A section under the identity lock is one step, because
nothing that a section reads or writes is touched outside of one, except where the
code itself does so (the mode in `begin` and `unlock`, the item in `item_ref`, the
files in `import`): those reads are steps of their own. The lock is a variable only
for `omdrop on` and `off`, which hold it over several sections. A 1Password request
is `OpSpawn` and `OpEnd`, with `fetch.pid` between; the several requests of one
fetch are repetitions of the two. An identity (certificate, key, record) is one
model value, so "the copy is identical" is equality; `item create` may store
something else than it was given, which is what the read-back in `import` is for.

The cache entry has a timeout that is either its cache period or its hard expiry;
`PeriodEnds` and `HardExpires` are the kernel's clock. `ended` and `expired` hold the
fetches whose times are over. A write between two writes of one commit may fail (or the
process die there); `torn` remembers that it did.

`barred`, `adopted` and `torn` are history: the fetches that were in flight when the
generation moved, the item last committed to, a torn commit. No action reads them.

### OmdropWindow

`on` is split at every call with an outside effect: `begin`, the lock and `window`,
cancel, expiry timer, watcher, receiver and radio in either order, window
timer, the second radio start. A failure at any of them sets `undo`, the list of the
undoing steps that the code runs on that path, and `UndoStep` takes them one at a
time. `off` is run by people (`Offs`) and by three services (`Services`): of the
window's timer, of the expiry's, and of the watcher of a one-file window. A timer that
fires while its service still waits for the lock keeps its unit's name loaded,
and a `systemd-run` under that name is refused. The watcher falls back to
running `off` inside its own service, and then `cancel_window` kills it there.

The faults: "arm", "receiver", "radio", "stop" (that step fails), "crash" (of the
receiver) and "repeat" (`on` may be run while a window is open or being opened). The
time that commands wait for each other (810 s for the lock) is not modelled: the
lock's holder is bounded by the radio's own limit, so the waits do not run out before
it is free. `on` after a kill signal outside of `radio_up`, and a signal inside the
`untrap_signals` of `radio_up`, are not modelled here (`CliSend` has the latter).

`systemctl start` fails when an ExecStartPre does, and systemd then retries the unit. The
ways out of `on` do not stop it, so a receiver that was down may be left "restarting" and
come up with no window, on whatever identity it finds. `orphan` says that there is such a
receiver: it is set by the failing start and cleared when the receiver is stopped, gives up,
or is taken over by a later `on`. `Down` is a receiver without a process. The properties
of windows speak of every receiver but an orphan, which nothing bounds (section 4).

`WindowTurns` is what all this promises, without the steps: commands take turns, only an
on in its turn opens a window or brings one of its five units up, anything may end at any
time, and an on that was asking for its identity when an off got its turn never gets one.
`TurnsKept` maps `lock` to whose turn it is, the ons at "begun" to those that ask, and the
receiver, the radio, the timers and the watcher to what is up. It covers the ways out that
are easy to overlook: a failed `off`, an `off` that its own watcher's stop kills, a failed
`on`, and the radio's second start, which is made in the step that ends the turn.

### Archive

An upload is a thread that reads tokens (a DVZip block opens or closes, a member's
header, its data, the trailer, garbage), as they arrive in bursts and in the framing of
the body; a quiet sender costs steps of `PatienceSteps`, after which the body ends if it
may, or fails. A member is created hidden, registered, written; when the archive is
whole the files are linked to their names one by one, and unlinked again if one
cannot be. `SafeName` and `Candidate` are the naming rules over one-byte characters; `Numeral`
gives the digits of a number.
The process is stopped by a signal, which takes the registry and exits, or killed, and
started again with its sweep (`Restart`).

### ReceiverServer and Delivery

One step of a connection's thread per lock section, read or reply of `session` and its
handlers: handshake, first byte, request, then Discover, Ask, links or Upload, with a
panic possible in each. `Accept` is `admit` with the caps and the eviction of the
connection that waited longest; the evicted thread runs on until its next read. The
upload's slot is taken, released early before a drain, and released on every way out.
The visibility may change at any moment and causes the restart; who is a known sender
(`Known`) does not change in a behaviour, though the code reads that list at every Ask. An
Ask of links counts as stored once each of its items was stored or ignored. `Delivery` is what a
sender may rely on: a transfer is let in, then stored, then told. `DeliveryRefined` maps
the receiver's state to it and checks its specification as a property, so every
order the threads come in is an order `Delivery` has.

### PeerSend and CliSend

`PeerSend` is one run of send-to-peer: main thread, lookup threads against their slots,
the signal thread, and the two children, with the moments between a spawn and the
record of its pid kept apart. Peers answer whatever they like at every step; the room
(who has which name) is picked at the start. `CliSend` starts such runs in a process
group, reads their rows from the pipe, chooses, and stops the group in the three steps
of `stop_group_within`. A signal may come at every step, also while the picker is up.
`untrap_signals` is two steps, its look at the flag and the default action; a signal
between the two (`Untrapping`) is stored where nobody looks, and `lost` remembers that it
came. `StatusIsTrue` and `CommandEnds` speak of all other signals.
The files may be edited while a send waits for its answer.

### Browse

One thread with a clock in seconds that moves only while it waits. Answers travel in
`wire` (sent, late or lost) and queue in the socket while the thread is in a /Discover;
ids rotate, the log grows. `Responses` enumerates what a response to /Discover can be
like, `Framing` and `Body` what the client makes of it.

### Advertiser

`ble` from its options to the end of the advert, with BlueZ and TERM in any order;
`mdns` with the frames of its own host in its socket; `announce` with its 16-bit
sequence numbers (modulo `SeqSpace`). `--hashes` may be absent, empty, which advertises zeros
and asks for no identity, or a value, zeros or a bad one among them; what the user gave is
sent as it is, and `AdvertHonest` says so. A burst is one step per frame, of which there
are none with `--burst 0`; it ends whole or fails. `gap` is what the code computes from
`last`; `owed` and `recent` are the history that `RepliesOwed` compares it with: a burst
is under way exactly when a peer's query, read no sooner than `--min-gap` after the last
whole burst began, has had neither a whole burst nor one that failed.

### Arrivals

The watcher resolves the comma-joined names of a log record against the folder, starts
a handler per file, and in a one-file window closes; a handler copies, decodes, writes,
shrinks, renames and prunes, and shows its notification. Names are sequences of pieces.
A handler may not start at all (neither systemd-run nor the child), a rename may fail, and
a notification too ("unshown").

### How they fit together

`OmdropWindow` takes one step for what `IdentityCache` splits (`begin`, `window`,
`stop-begin`, `stop-end`) and for what `RadioWindow` splits (`start`, `stop`). The lock
section of `on` and `off` that `OmdropWindow` shows exclusive is `RadioWindow`'s `Serial`
and `IdentityCache`'s `lock`. `ReceiverServer` takes one step, with every outcome, for
what `Archive` splits; `Arrivals` starts where an upload is logged; the advertiser that
`PeerSend` starts is `Advertiser`'s `ble`; the search that `PeerSend` leaves to
airdrop-send when no address is given is `Browse`.

## 3. Runs

| Run | Instance | Shows |
|---|---|---|
| `radio_window` | 2 starts, 1 stop, 1 child; no fault / crash, interrupt / crash, interrupt, hang | one supervisor, hooks alone, quiet after stop, no lost extension, failed starts clean up, but for unrecorded children |
| `radio_live` | the same, fair, no child, no fault | commands return, a past deadline ends or moves |
| `identity_cache` | any 3 commands, 2 items, 2 identities; commits may be torn | the cache is the chosen identity, windows resolve, overtaken work stays out, no identity is lost |
| `window` | 3 ons, 1 off, the services; repeats and crashes / failing starts / everything | refinement of `WindowTurns` (off settles); windows are bounded, closed is closed, the identity is held, but for an orphan |
| `window_live` | fair, 2 ons; repeats and crashes / failing starts | windows end |
| `archive` | 2 uploads of 5 bodies, 2 processes | all or nothing, whole, no clobbering, no debris, an end |
| `receiver` | 3 connections from 3 addresses, caps 2/1/1, one change of visibility | caps, eviction, proof, refinement of `Delivery` |
| `send` | 1 command, 2 addresses, 4 rooms, 5 argument lists, 2 passes, 1 edit | right peer, once; no survivor; true status; an end; but for a lost signal |
| `browse` | 2 devices, 4 kinds of `--to`, 2 lost answers, one rotation | right receiver, none missed, in time |
| `browse_mac` | the same, `--to` a MAC, no log | refutes a sentence of the help (section 4) |
| `advertiser` | up to 4 emails and 2 phones, 2 frames in the socket | honest adverts, replies exactly when owed, an end on TERM |
| `arrivals` | 6 names, 3 log records, 3 handlers, 1 preview kept | files found, previews kept, nothing lost by closing, slow photos hold nothing up |

**Bounds.** A start against a start needs two of them, and a stop against both needs
one more; a supervisor that outlives its start comes with every start. In
`IdentityCache` the longest chain that matters is three commands: one in flight, one
that overtakes it and one that opens a window or commits again; two items and
two identities tell "the same" from "another". In `OmdropWindow` two ons make
a repetition, the third meets an off and a timer in between. Two uploads contend for
a name, one of them with two members so that the second can fail; some body exceeds
each of the limits on bytes, members and the length of a name. Three
connections exceed a table of two, two of them share a peer address, and each cap is
met. Two devices are what a name can be ambiguous between. Four seconds of browsing hold
a query, its two repetitions and the end of `Resolve`. Counters are bounded by the
number of commands, each of which runs once.

**Reductions.** Symmetry is used only in runs without temporal properties that need
fairness. The VIEWs of `MCIdentityCache` and `MCOmdropWindow` leave out what finished
commands hold, the value of a counter where only equality with a remembered one is
read, and history where nothing in the run reads it.

**Fairness.** A process that was started keeps running: weak fairness of its steps in
`RadioWindow`, where each wait is for another process that is itself running,
and strong fairness in `OmdropWindow`, where the identity lock is polled every
100 ms against finitely many competitors. Timers elapse and systemd restarts or
gives up a unit (weak fairness). `Archive`: each upload's thread (its reads time out, so
it is never blocked for good). `CliSend`: omdrop's own steps and its deadline, and
nothing of the children or the peers. `Advertiser`: its own steps, and BlueZ
answering a call and noticing a client that is gone. `Arrivals`: `heic_preview`
alone, whose decode and shrink OMDROP_PREVIEW_TIMEOUT bounds (unless it is 0); the clipboard's
and the notification's programs have no limit, so `Copy` and `Toast` are given no fairness.
Nothing is assumed of people, peers or senders.

Deadlock is checked except in `archive`, `receiver` and `send`, whose instances end (every
upload, connection and command is used once); elsewhere a quiet system stutters by
`Quiet` or `Over`.

## 4. Findings

`browse_mac`: `--to` may be a MAC according to the help of airdrop-send. The browse
compares the name that a device gives with `--to` unless `--to` is an id, so a device
named by its MAC is found, asked for its name and skipped; `PROJECT.json` has the lines.

Other places where the models show behaviour that a comment or document does not
expect. They are in the models, and in the notes of the hazards:

* when `tick` loses the radio, the supervisor decides to end before it takes
  `window.lock`; a start in between reports an extension that is then undone;
* a start interrupted by a signal that is not `stop`'s leaves the radio up;
* exit 5 of a start can stand for another one that is already failing;
* the first tick of a supervisor that its start gave up can go unrecorded;
* a start that gives up a slow supervisor kills it (window.rs:901); a child that
  supervisor had spawned and not yet recorded runs on and nobody knows it, although
  backend-contract.md:397 says that a failed `start` leaves nothing behind: "no
  supervisor, token, `until`, or children";
* an `on` whose receiver does not start (omdrop-cli window.rs:288-292, 317-322) cancels the
  timers and releases the identity, and leaves the unit to systemd's retries
  (airdrop-receiver.service:49-50): a receiver may come up with no window and nothing
  to end it, although the comment at line 16 of that file has `on` and `off` keep
  visibility "a bounded state"; a receiver that was up already runs on likewise
  when a repeated `on` fails before it gets to systemd;
* a signal between the look of `untrap_signals` and its return to the default action
  (proc.rs:264-269) is seen by nobody: the command exits 0, or, after `find_by_name`, the
  send goes on; the comment above it says that a signal after the last check "still
  gets the trap". `radio_up` ends with the same call;
* a connection that has just taken an upload slot can be evicted (server.rs:1210-1213),
  although the comment at line 746 makes it evictable "until it holds an upload slot";
* a file that the watcher has announced (links.rs:663) may get no handler (683) or no
  notification (609), and only a line in the log says so; a program that the
  clipboard or the notification waits for has no limit, and in a one-file window whose
  handler is the watcher's child, the window then waits with it;
* `--burst 0` is accepted: it sends nothing and logs each query as answered;
* a commit torn in 1Password mode takes effect without moving the generation, and an
  older fetch may then be cached;
* `fetch.pid` is shared, so `lock` may miss a request, and `off` signals none;
* the mode is read before the generation, so a fetch may fill the cache that
  `1password off` has just cleared;
* a repeated `on` that cannot arm the expiry leaves the receiver of the open window
  running with its cached identity and no timer;
* a failed `on` makes another one believe that it was turned off;
* a receiver stopped between two links of one upload leaves the first ones, although the
  comment at main.rs:60-61 has a stop remove unfinished uploads;
* send-to-peer signalled alone, between a spawn and its record, leaves the child;
* a file edited while the Ask waits is uploaded with a size the Ask did not announce;
* an `--af-log` attempt is bounded operation by operation, not as a whole;
* instances age, and are dropped, while the browse waits for another one's /Discover;
* of names with commas, a file whose name is a shorter prefix is announced in place of
  the one that was stored.

## 5. Proofs

All proofs are for any number of processes and values. Each theorem is the usual
triple: the invariant holds at first, every step keeps it, it implies the property.
A proof module has, for each invariant, one lemma per process or group of
actions, with one case per action. Invariants are conjunctions of named parts.

### RadioWindowProofs

`Typing` needs that the reason a supervisor is about to write is one it was given. The
rest is a chain, in which each invariant uses those before it:

* `SupervisorInv` (`OneSupervisorAlways`): one supervisor alone is not inductive, since
  a new start forks one on the strength of having waited; the invariant ties the
  holder of `start.lock`, the recorded supervisor, the closing wait and stop's waits to
  the supervisors alive.
* `AloneInv` (`RadioAloneAlways`): a start that waits for its supervisor meets no other
  one, a start that undoes its own meets none, and a stop that has waited for the
  starts meets only those that wait or undo.
* `LockInv` (`NoLostExtensionAlways`): a start between its look and its extension has
  `window.lock`, and so has a supervisor that decides to end; one that decided so for
  an expiry sees no live deadline.
* `QuietInv` (`AllQuietAlways`, `FailedStartCleansAlways`): whatever of a window is
  there has somebody who will still remove it. `HandInv` says what a process
  has in hand at each step, `ChildInv` that every child is recorded, in somebody's hand
  or stray. `OwnedInv`, for behaviours without faults, names for each of `pids`,
  `until`, `token` and the radio who that is: a start that undoes, a supervisor,
  or a stop that has not come to it yet. `StoppedInv` is the same, with crashes and
  interruptions, for what is left once a stop has begun and no start since. `LostInv`
  says of a lost child, where nothing crashes, that its supervisor was killed by a
  start which gives up, is still undoing, or has failed.

All but `Typing` assume `Serial`, that no start begins while a stop runs: that is what
the identity lock of `on` and `off` gives (`NeverInterleaveAlways`). Without it a
start can fork a supervisor that the stop does not look for any more.

### IdentityCacheProofs

`CacheIsChosen` alone is not inductive: a fetch in flight will publish later.
`ChoiceInv` adds what it will publish (`Flow`), that the settings name an item
which 1Password holds (`Settled`), and that the generation orders readers and committers
(`Ordered`): in 1Password mode a fetch that is still current has read the item there
is, and no current import has an unverified item to save. `CacheIsChosenAlways` and
`ChoiceStandsAlways` speak of behaviours as long as no commit was torn, and have to:
see section 4. `NoBarredCacheAlways` (with `Overtaken`) and `WindowResolvesAlways`
(with `Kept`: the entry of an open window was given its hard expiry) need no such
condition. `FilesKeptAlways` (with `Handed`: what an import presents is the pair on disk, what it compares is what
1Password holds, and at the deletion some item is identical to the pair on disk) needs
none either: no deletion destroys the only copy, whatever overtakes the import or tears
its commit.

### OmdropWindowProofs

`WindowInv` (`WindowTyping`, `NeverInterleaveAlways`, `OffSettlesAlways`): whoever is in
its section holds the lock, and an overtaken on which has not yet got it has read a
smaller `seq` than there is. It holds whatever fails and however windows are repeated.
From it alone follows the refinement `TurnsKeptAlways`, action by action: a step of an on
is `Ask`, `GiveUp`, `Open`, `Work` or `Leave`, one of an off `Overtake`, `Drop` or
`Leave`, all others `Drop`. `cancel_window` may release the lock only when the watcher's
own off holds it, which `NeverInterleave` makes that off's own step; `Open` needs that a
matching `seq` means not overtaken.

`WindowsBounded` and `ClosedIsClosed` are about moments when nobody is at work, and
the invariant has to say how far everybody is at all others: `OffInv` what an off has
closed by each of its steps, `OnInv` that an on at work has a window and by which step
which timer; `FreshInv` that without repetitions at most one on is at work, found
nothing, and has still to undo everything it has set up; `AgainInv` that a repeated on
whose starts all succeed gives up only for an expiry's off that is to come; `BoundInv` the
consequence between commands: an open 1Password receiver has the expiry's timer, and an
absent window means that an off is on the way or everything is gone. The lemmas `OnCancelFacts`, `OffCancelFacts` and
`UndoFacts` say once what `cancel_window` and a step of undoing do. No assumption
but `WindowAssumption`; where a property needs a fault absent, it says so itself.

### ArchiveProofs

`ArchiveInv` (`ArchiveInvariant`) says for each upload, given the point its thread is
at: how its extraction and its body agree (`Shape`); that every wanted member decoded so
far is being written, pending or stored (`Counted`); that its visible files are the names
it stored and the one it just gave (`Shows`); and that its hidden files, on disk or
registered, are those it holds (`Keeps`). From it: `AllOrNothingAlways`,
`NothingLeftAlways` and, as an action property, `NoClobberAlways`.
`StoredIsWholeAlways` has two halves. `TakenWholeAlways` follows from `ArchiveInv`. That
every visible file of an upload is safely named is an invariant of its own, since only
`Place` gives a name; it rests on lemmas about the naming rules, one per rule:
`AfterLastIs`, `WithoutIs`, `TrimIs`, `SplitIs`, `ShortenIs` and `JoinIs` say that each
leaves a name free of separators and control characters (`Clean`), `SafeNameIs` and
`CandidateIs` put them together, and `LastIs` that the member whose data is written was
sent. `Without` filters a name by position, a definition the provers can follow, where
`SelectSeq` is not; the digits of a number are the constant `Numeral`. A file name keeps
fitting `NameBytes` because publication refuses a longer one, not because
`candidate_names` shortens it: with a long extension it does not. The bodies, paths and
limits are arbitrary.

### ReceiverServerProofs

`ServerInv` has four parts: types, the connection tables (`live`, `waiting` and the
threads agree, `waiting` has no repetition), the upload slots (the counter is the
number of connections holding one, which needs the cardinality of a set that
gains or loses one element), and, for each connection, that what its thread holds is
sound (who was let in, what was stored, what it will answer). It gives
`ProvenIsKnownAlways`, `CapsHoldAlways`, `EvictsOnlyUnmarkedAlways` (an action property)
and the refinement `DeliveryRefinedAlways`: the initial state maps to `Delivery`'s, and
every action to one of its steps or to none.

The refinement then hands to the receiver what `Delivery` alone implies:
`ToldIsStoredAlways` (a 200 is read only of what is stored, and nothing stored is still
open) needs no more than an invariant of `Delivery`'s own steps, and `StoredStaysAlways`
that none of them takes anything back, whichever eviction, panic, stop or restart it is.

### ReceptionProofs

Arrivals. `ArrivalsFound` is a fact about an operator, proved for records of any length
(`EveryRecordIsFound`). `FlattenCuts` says where each sequence ends in what a sequence of
sequences makes together; `ResolveIs` that the recursion of `resolve_arrivals`, each
position of which goes on at a later one, has a solution, and that it is a sequence of
names; `ResolveFinds` then goes through the names from the last to the first. All three
argue by the greatest counterexample (`EndsOf`), as the provers cannot instantiate the
library's induction theorems. `ArrivalsFoundAlways` is the case the runs check.

`ArrivalsInv` is types, `Watching` (nobody is killed before the watcher is gone, and when it
is about to close no child runs), `Ordered` (modification times tell the order in which
previews were complete; without the touch after a failed shrink they would not),
`Placed` (a handler has a preview in its notification only once it completed one) and
`Pruned`. The last is why `BurstKeepsPreviews` is not inductive alone: a prune removes
what it chose some steps earlier, so what it *chose* must already have had `Keep` previews
completed after it, or be a killed handler's. That stays true because the set of
previews completed later only grows (`LaterGrows`), and was true when it chose because, by
`Ordered`, newer means later (`NewerIsLater`).

Advertiser. The module extends both components, which share nothing; the initial states,
steps and specification of the advertiser are `AdvInit`, `AdvNext` and `AdvSpec` for that
reason. `AdvertHonestAlways` has two halves. `SlotsTellAll` computes, for any number of
emails and phones, how many different identifiers `Slots` puts into the four slots; and
`BleInv` says that what BlueZ holds was chosen before it was asked, and stays. For
`RepliesOwedAlways`, `ReplyInv` adds the kinds of frames there are in the socket, and that
`gap` and `recent` agree.

### CliSendProofs

`SendInv` covers the command, the run it waits for and that run's two children. Its parts:
types; `Course`, the points at which a run of each mode can be; `Waits`, which run the
command at each of its steps waits for; `WakeOwned`, an advertiser that is alive is
in the slot, in the hands of the main thread, or left to the run's signal handler; `Signals`,
when a signal is still deferred by the command and when it has been seen; `AskedOnce`, one question for one person;
`RowsTrue` and `RowsKept`, that each answer of a lookup is in one place, the thread, the
pipe or the rows, until the run has taken it; and `ChosenAlone`, that whoever was chosen
answers to the name best of the rows that were finished. It gives
`NothingOutlivesAlways`, `StatusIsTrueAlways` and `AsksRightAlways`. The set
of addresses must be finite (`IsFiniteSet(Addrs)`, as any room of devices is): a choice
that is not ambiguous is a set of one.

### BrowseProofs

`BrowseInv` is types, `InTime` (a wait of the browse never passes its deadline) and
`Asked` (whoever is asked is not ruled out by `--to`; of those who told a name and are
what it names, none was passed over). It gives `EndsInTimeAlways` and
`RightReceiverAlways`; that the log's freshest endpoint is not ruled out is
`FreshestIs`, which rests on a bounded set of numbers having a greatest.

`AnswersAreHeardAlways` is an argument about pace. `HeardInv` says of every live
instance that it is asked once a second and never later (`Prompt`), and that the
number of its queries is at most the number of steps it has come forward (its service,
then its address) plus the number of its answers that were lost, plus one if its last
answer is still asked for or in the socket (`Fruitful`). A second passes only when nothing is on its
way, so after three seconds three queries were made, at most one step was taken, and
two answers were lost. `Together` (a service and its text come together, and
no session answers that is over) and `Fresh` (nothing has resolved while the loop asks
or listens) are what makes a message bring an instance forward. The theorem assumes
`Resolve >= 3`, the value of RESOLVE_TIMEOUT; with 2 it would be false, as one lost
answer would be enough.

`Freshest` selects positions of the log, and what the top of the loop asks for is the operator
`Queries`, so that both can be reasoned about.

### Assumptions, and what is only model-checked

The assumptions on constants (`RadioAssumption`, `IdentityAssumption`,
`WindowAssumption` and their like in the other modules) say that names are distinct,
that bounds are natural numbers, that switches are Boolean, and of `Archive` what
shape a body has: tokens, with members whose sizes are natural numbers and whose paths
are strings of characters, and that the digits of a number are safe characters. TLC evaluates them in every run.

Only model-checked: all liveness (`CommandsReturn`, `DeadlineEnds`, `WindowsEnd`,
`UploadEnds`, `CommandEnds`, `StopsOnSignal`, `SlowPhotoHoldsNothing`), which the
provers cannot reach. Every safety property of a passing run has its theorem.
No module declares a RECURSIVE operator.

## 6. Not modelled, and the plan

Left out for good: the panel, the bash and Python predecessors, package and
driver installation, setup and unit rendering, X.509, CMS and hashing, TLS, byte
grammars (plist, DNS, CPIO and frame layouts, NFC), argument tables, log, status and
notification wording, image decoding. They are parsing, cryptography or I/O without
state that two actors share; where a modelled part uses one, its results are choices.

Left for later:

* The selection table of `contract.rs` as an operator over all its inputs.
