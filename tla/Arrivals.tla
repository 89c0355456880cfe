------------------------------ MODULE Arrivals ------------------------------
(***************************************************************************)
(* What follows a delivery (core/crates/omdrop-cli/src/links.rs): the        *)
(* watcher, which reads the receiver's log and starts one `omdrop handle`     *)
(* per file, and the handlers, which put the file on the clipboard, make the   *)
(* preview of a HEIC photo and show the notification, whose click opens the    *)
(* file.  Handlers run in parallel and share the directory of previews; the    *)
(* watcher, and what runs inside its service, is killed by `omdrop off`.       *)
(*                                                                         *)
(* A file name is the sequence of its pieces between occurrences of ", ",      *)
(* which also separates the names of one log record.                           *)
(***************************************************************************)
EXTENDS Naturals, FiniteSets, SequencesExt

CONSTANTS Names,     \* file names, as sequences of pieces
          Records,   \* what the receiver may log, each once: see Record
          Kind,      \* of each name: "image", "heif", "link" or "other"
          Dotted,    \* the pieces that begin a name no arrival has (., /, control)
          Handlers,  \* runs of `omdrop handle`, 1 .. N in the order they start
          Keep,      \* PREVIEW_KEEP
          Slow,      \* names of photos that decode for longer than anyone waits
          None

\* Records are lines of the log: the whole `upload TID: stored NAME, NAME` or
\* `link stored as NAME.url -> URL` of the receiver, or a line with other text,
\* be it a sender's.
Record == [kind : {"stored", "link", "other"}, names : Seq(Names)]

ASSUME ArrivalsAssumption ==
  /\ \A n \in Names : n # <<>> /\ n \in Seq(Range(n))
  /\ Records \subseteq Record /\ Kind \in [Names -> {"image", "heif", "link", "other"}]
  /\ IsFiniteSet(Handlers) /\ Handlers = 1 .. Cardinality(Handlers)
  /\ Keep \in Nat \ {0} /\ Slow \subseteq Names
  /\ None \notin Names

VARIABLES
  once,      \* --once: the window closes after its first file
  read,      \* the records of the log that were read
  watch,     \* the watcher: "read", "spawn", "wait", "off", or "gone"
  found,     \* the files of the record in hand that have no handler yet
  closed,    \* the watcher has asked for `off`
  hpc, file, \* handlers: where each is, and the file it has
  unit,      \* whether it runs in a unit of its own
  image,     \* the image of its notification: "none", "own" or "preview"
  preview,   \* its preview: "none", "working", "finished" or "gone"
  mtime,     \* the modification time of its preview
  clock,     \* the time, counted in writes to previews
  doomed,    \* the previews its prune has chosen
  finishing  \* history: handlers in the order they touched their previews

watchVars == <<once, read, watch, found, closed>>
procVars == <<hpc, file, unit, image>>
viewVars == <<preview, mtime, clock, doomed, finishing>>
vars == <<watchVars, procVars, viewVars>>

HPcs == {"idle", "clip", "work", "decode", "shrink", "rename", "list", "prune", "toast",
         "done", "unshown", "killed"}

Init ==
  /\ once \in BOOLEAN /\ read = {}
  /\ watch = "read" /\ found = <<>> /\ closed = FALSE
  /\ hpc = [h \in Handlers |-> "idle"] /\ file = [h \in Handlers |-> None]
  /\ unit = [h \in Handlers |-> FALSE] /\ image = [h \in Handlers |-> "none"]
  /\ preview = [h \in Handlers |-> "none"] /\ mtime = [h \in Handlers |-> 0]
  /\ clock = 0 /\ doomed = [h \in Handlers |-> {}] /\ finishing = <<>>

-----------------------------------------------------------------------------
(* The watcher *)

\* What the download folder may hold under each name, at any moment: a file, of an
\* upload or unrelated; or a link or a directory that someone put there, or nothing.
Folders == [Names -> {"file", "other"}]

\* arrived_file: a plain name, and a regular file by lstat.
ArrivedFile(dir, n) == n \in Names /\ n[1] \notin Dotted /\ dir[n] = "file"

\* Mutant: a name that took several pieces is passed over by one.
ResolveSkipsOne(dir, joined) ==
  LET n == Len(joined)
      Hits(i) == {j \in i .. n : ArrivedFile(dir, SubSeq(joined, i, j))}
      at[i \in 1 .. n + 1] ==
        IF i > n THEN <<>>
        ELSE IF Hits(i) = {} THEN at[i + 1]
        ELSE LET j == Min(Hits(i)) IN <<SubSeq(joined, i, j)>> \o at[i + 1]
  IN at[1]

\* resolve_arrivals: a piece that is not a file is joined with the pieces after
\* it until one is; a piece that leads to none is passed over.
ResolveArrivals(dir, joined) ==
  LET n == Len(joined)
      Hits(i) == {j \in i .. n : ArrivedFile(dir, SubSeq(joined, i, j))}
      at[i \in 1 .. n + 1] ==
        IF i > n THEN <<>>
        ELSE IF Hits(i) = {} THEN at[i + 1]
        ELSE LET j == Min(Hits(i)) IN <<SubSeq(joined, i, j)>> \o at[j + 1]
  IN at[1]

\* arrivals: only the receiver's two records count.
Arrived(dir, r) == IF r.kind = "other" THEN <<>> ELSE ResolveArrivals(dir, FlattenSeq(r.names))

\* The next record of the log, and the folder as it is then.
WatchRead ==
  /\ watch = "read"
  /\ \E r \in Records \ read, dir \in Folders :
       /\ read' = read \cup {r}
       /\ found' = Arrived(dir, r)
  /\ watch' = IF found' = <<>> THEN "read" ELSE "spawn"
  /\ UNCHANGED <<once, closed, procVars, viewVars>>

\* Mutant: the last handler is started, and the window closes.
WatchSpawnNoWait ==
  /\ watch = "spawn"
  /\ \/ \E h \in Handlers, own \in BOOLEAN :
          /\ hpc[h] = "idle" /\ \A g \in 1 .. h - 1 : hpc[g] # "idle"
          /\ hpc' = [hpc EXCEPT ![h] = "clip"]
          /\ file' = [file EXCEPT ![h] = Head(found)]
          /\ unit' = [unit EXCEPT ![h] = own]
     \/ UNCHANGED <<hpc, file, unit>>
  /\ found' = Tail(found)
  /\ watch' = IF found' # <<>> THEN "spawn" ELSE IF once THEN "off" ELSE "read"
  /\ UNCHANGED <<once, read, closed, image, viewVars>>

\* One `omdrop handle` per file: in a transient unit of its own, or, when
\* systemd-run fails, as a child; and when that cannot be spawned either, none.
WatchSpawn ==
  /\ watch = "spawn"
  /\ \/ \E h \in Handlers, own \in BOOLEAN :
          /\ hpc[h] = "idle" /\ \A g \in 1 .. h - 1 : hpc[g] # "idle"
          /\ hpc' = [hpc EXCEPT ![h] = "clip"]
          /\ file' = [file EXCEPT ![h] = Head(found)]
          /\ unit' = [unit EXCEPT ![h] = own]
     \/ UNCHANGED <<hpc, file, unit>>
  /\ found' = Tail(found)
  /\ watch' = IF found' # <<>> THEN "spawn" ELSE IF once THEN "wait" ELSE "read"
  /\ UNCHANGED <<once, read, closed, image, viewVars>>

Ended(h) == hpc[h] \in {"idle", "done", "unshown", "killed"}

\* --once: the children first, and then the window.
WatchWait ==
  /\ watch = "wait" /\ \A h \in Handlers : unit[h] \/ Ended(h)
  /\ watch' = "off"
  /\ UNCHANGED <<once, read, found, closed, procVars, viewVars>>

\* The watcher is over, and with it what runs inside its service.
Gone ==
  /\ watch' = "gone" /\ found' = <<>>
  /\ hpc' = [h \in Handlers |-> IF unit[h] \/ Ended(h) THEN hpc[h] ELSE "killed"]
  /\ UNCHANGED <<once, read, file, unit, image, viewVars>>

\* `off --force` for the file that came: in a unit of its own, or here.
WatchOff == watch = "off" /\ closed' = TRUE /\ Gone

\* The service is stopped (off, or the timer's), or the log ends.
WatchStopped == watch # "gone" /\ Gone /\ UNCHANGED closed

-----------------------------------------------------------------------------
(* A handler *)

\* copy_to_clipboard, whose own decode has a limit too (what the clipboard holds
\* is left out), and the choice of the notification's image.  Without heif-convert
\* there is no preview.
Copy(h) ==
  /\ hpc[h] = "clip"
  /\ image' = [image EXCEPT ![h] = IF Kind[file[h]] = "image" THEN "own" ELSE "none"]
  /\ \/ Kind[file[h]] = "heif" /\ hpc' = [hpc EXCEPT ![h] = "work"]
     \/ hpc' = [hpc EXCEPT ![h] = "toast"]
  /\ UNCHANGED <<watchVars, file, unit, viewVars>>

Write(h) == mtime' = [mtime EXCEPT ![h] = clock] /\ clock' = clock + 1

\* A unique working.*, empty.
Work(h) ==
  /\ hpc[h] = "work"
  /\ preview' = [preview EXCEPT ![h] = "working"]
  /\ hpc' = [hpc EXCEPT ![h] = "decode"]
  /\ UNCHANGED <<watchVars, file, unit, image, mtime, clock, doomed, finishing>>

\* Mutant: the decode is not bounded.
DecodePatient(h) ==
  /\ hpc[h] = "decode"
  /\ file[h] \notin Slow
  /\ \/ /\ Write(h) /\ hpc' = [hpc EXCEPT ![h] = "shrink"]
        /\ UNCHANGED preview
     \/ /\ preview' = [preview EXCEPT ![h] = "gone"] /\ hpc' = [hpc EXCEPT ![h] = "toast"]
        /\ UNCHANGED <<mtime, clock>>
  /\ UNCHANGED <<watchVars, file, unit, image, doomed, finishing>>

\* heif-convert, killed at its limit: decoded into working.*, or else working.*
\* and whatever lies beside it goes and the notification has no image.
Decode(h) ==
  /\ hpc[h] = "decode"
  /\ \/ /\ file[h] \notin Slow
        /\ Write(h) /\ hpc' = [hpc EXCEPT ![h] = "shrink"]
        /\ UNCHANGED preview
     \/ /\ preview' = [preview EXCEPT ![h] = "gone"] /\ hpc' = [hpc EXCEPT ![h] = "toast"]
        /\ UNCHANGED <<mtime, clock>>
  /\ UNCHANGED <<watchVars, file, unit, image, doomed, finishing>>

\* Mutant: a shrink that failed leaves the decode's time.
ShrinkUntouched(h) ==
  /\ hpc[h] = "shrink"
  /\ Write(h) \/ UNCHANGED <<mtime, clock>>
  /\ finishing' = Append(finishing, h)
  /\ hpc' = [hpc EXCEPT ![h] = "rename"]
  /\ UNCHANGED <<watchVars, file, unit, image, preview, doomed>>

\* shrink_preview, which may fail and is bounded too; and in either case the
\* file is touched.
Shrink(h) ==
  /\ hpc[h] = "shrink"
  /\ Write(h)
  /\ finishing' = Append(finishing, h)
  /\ hpc' = [hpc EXCEPT ![h] = "rename"]
  /\ UNCHANGED <<watchVars, file, unit, image, preview, doomed>>

\* working.* becomes preview.*, or else goes, and the notification has no image.
Rename(h) ==
  /\ hpc[h] = "rename"
  /\ \/ /\ preview' = [preview EXCEPT ![h] = "finished"]
        /\ image' = [image EXCEPT ![h] = "preview"]
        /\ hpc' = [hpc EXCEPT ![h] = "list"]
     \/ /\ preview' = [preview EXCEPT ![h] = "gone"] /\ hpc' = [hpc EXCEPT ![h] = "toast"]
        /\ UNCHANGED image
  /\ UNCHANGED <<watchVars, file, unit, mtime, clock, doomed, finishing>>

Finished == {g \in Handlers : preview[g] = "finished"}
Newer(g) == {f \in Finished : mtime[f] > mtime[g]}

\* prune_previews reads the directory: the finished previews beyond the newest
\* Keep, and any working.* that is old enough to have been left behind.
PruneList(h) ==
  /\ hpc[h] = "list"
  /\ \E left \in SUBSET {g \in Handlers : preview[g] = "working" /\ hpc[g] = "killed"} :
       doomed' = [doomed EXCEPT
                    ![h] = left \cup {g \in Finished : Cardinality(Newer(g)) >= Keep}]
  /\ hpc' = [hpc EXCEPT ![h] = "prune"]
  /\ UNCHANGED <<watchVars, file, unit, image, preview, mtime, clock, finishing>>

\* And then removes what it chose.
PruneRemove(h) ==
  /\ hpc[h] = "prune"
  /\ preview' = [g \in Handlers |-> IF g \in doomed[h] THEN "gone" ELSE preview[g]]
  /\ doomed' = [doomed EXCEPT ![h] = {}]
  /\ hpc' = [hpc EXCEPT ![h] = "toast"]
  /\ UNCHANGED <<watchVars, file, unit, image, mtime, clock, finishing>>

\* The notification, or a line in the log that it failed.
Toast(h) ==
  /\ hpc[h] = "toast"
  /\ \E p \in {"done", "unshown"} : hpc' = [hpc EXCEPT ![h] = p]
  /\ UNCHANGED <<watchVars, file, unit, image, viewVars>>

\* heic_preview.
PreviewStep(h) ==
  \/ Work(h) \/ Decode(h) \/ Shrink(h) \/ Rename(h) \/ PruneList(h) \/ PruneRemove(h)

HandlerStep(h) == Copy(h) \/ PreviewStep(h) \/ Toast(h)

WatchStep == WatchSpawn \/ WatchWait \/ WatchOff

\* There is nobody left to announce anything.
Quiet == watch = "gone" /\ UNCHANGED vars

Next ==
  \/ WatchRead \/ WatchStep \/ WatchStopped
  \/ \E h \in Handlers : HandlerStep(h)
  \/ Quiet

Spec == Init /\ [][Next]_vars

\* The preview's decode and shrink are bounded by OMDROP_PREVIEW_TIMEOUT (unless that
\* is 0), and the rest of heic_preview is the handler's own.  The programs that the
\* clipboard, the notification and the handler's unit take have no limit; files need
\* not come, and nobody has to stop the watcher.
FairSpec == Spec /\ \A h \in Handlers : WF_vars(PreviewStep(h))

-----------------------------------------------------------------------------
(* Properties *)

\* Every variable has its type.
TypeOK ==
  /\ once \in BOOLEAN /\ read \subseteq Records
  /\ watch \in {"read", "spawn", "wait", "off", "gone"} /\ closed \in BOOLEAN
  /\ found \in Seq(Names)
  /\ hpc \in [Handlers -> HPcs] /\ file \in [Handlers -> Names \cup {None}]
  /\ unit \in [Handlers -> BOOLEAN] /\ image \in [Handlers -> {"none", "own", "preview"}]
  /\ preview \in [Handlers -> {"none", "working", "finished", "gone"}]
  /\ mtime \in [Handlers -> Nat] /\ clock \in Nat /\ doomed \in [Handlers -> SUBSET Handlers]
  /\ finishing \in Seq(Handlers)

\* The files of a record are all there, and none is there whose name is the
\* beginning of one of theirs, up to a comma.
Plain(dir, names) ==
  \A k \in DOMAIN names, m \in 1 .. Len(FlattenSeq(names)) :
    m <= Len(names[k]) => (ArrivedFile(dir, SubSeq(names[k], 1, m)) <=> m = Len(names[k]))

\* "a piece that is not a file is joined with the pieces after it until one is":
\* of a record with no such beginnings among the files, the watcher finds the files that
\* the receiver stored, each once and in order, whatever commas they hold.  (It is a
\* function's fact, and looked at once.)
ArrivalsFound ==
  read = {} =>
    \A dir \in Folders, names \in BoundedSeq(Names, 3) :
      Plain(dir, names) => ResolveArrivals(dir, FlattenSeq(names)) = names

\* Previews that were completed after h's: touched after it, and renamed.
Later(h) == {g \in Handlers : image[g] = "preview" /\ \E i, j \in DOMAIN finishing :
               i < j /\ finishing[i] = h /\ finishing[j] = g}

\* A notification's preview is there as long as it is among the newest Keep: one
\* that was pruned had Keep previews completed after it, however the decodes of a
\* burst overtook one another.
BurstKeepsPreviews ==
  \A h \in Handlers :
    image[h] = "preview" /\ preview[h] = "gone" => Cardinality(Later(h)) >= Keep

\* "a one-file window waits for it before closing": the off that a file's arrival
\* brings about kills no handler, though it kills the watcher's whole service.
ClosingLosesNothing == closed => \A h \in Handlers : hpc[h] # "killed"

\* "A failed or timed-out decode only costs the toast its thumbnail": a handler that
\* begins a preview comes to its notification, however slowly the photo decodes and
\* whatever becomes of the preview, unless it is killed with the watcher.
SlowPhotoHoldsNothing ==
  \A h \in Handlers :
    hpc[h] = "work" ~> hpc[h] \in {"toast", "done", "unshown", "killed"}
=============================================================================
