------------------------------ MODULE Archive ------------------------------
(***************************************************************************)
(* How an /Upload body becomes files: omdrop-proto/src/archive.rs (DVZip   *)
(* blocks, CPIO members, safe names, staging, publication, roll-back,      *)
(* PARTIALS) read through the body reader of omdrop-proto/src/http.rs      *)
(* (chunked framing, Patience, the two clocks).                            *)
(*                                                                         *)
(* Several uploads run at once in one receiver process, which can be       *)
(* stopped by a signal (main.rs handle_stop_signals), killed, and started  *)
(* again.  A body is a sequence of tokens: a DVZip block opens and closes, *)
(* a CPIO member's header and its data, the trailer.  Names are sequences  *)
(* of one-byte characters; NFC normalisation is left out.                  *)
(***************************************************************************)
EXTENDS Naturals, Sequences, FiniteSets, SequencesExt

CONSTANTS
    Uploads,        \* uploads, each handled once, by its connection's thread
    Bodies,         \* per upload: the bodies its sender may send: the tokens, the
                    \* framing, how many tokens may arrive together
    Existing,       \* names already in the download directory
    ByteLimit,      \* ExtractLimits.byte_limit, in units of member size
    MaxMembers,     \* MAX_ARCHIVE_MEMBERS
    NameBytes,      \* MAX_FILE_NAME_BYTES
    Candidates,     \* how many names candidate_names offers (10000)
    Numeral,        \* the digits of each number, as characters
    PatienceSteps,  \* idle_timeout / upload_step: quiet steps at a boundary
    MaxRuns         \* receiver processes started, one after the other

Separators == {"/", "\\"}
Unsafe     == Separators \union {"~"}     \* "~": every control and format character

ASSUME ArchiveConstants ==
    /\ ByteLimit \in Nat /\ MaxMembers \in Nat /\ NameBytes \in Nat \ {0}
    /\ Candidates \in Nat \ {0} /\ PatienceSteps \in Nat \ {0} /\ MaxRuns \in Nat \ {0}
    /\ "user" \notin Uploads
    /\ \A u \in Uploads : \A b \in Bodies[u] :
          /\ Len(b.script) \in Nat /\ b.plan \in {"chunked", "length"} /\ b.bursts \subseteq Nat
          /\ \A i \in 1..Len(b.script) : b.script[i].t = "member" =>
                b.script[i].size \in Nat /\ b.script[i].path \in Seq(STRING)
    /\ \A k \in 1..Candidates : Numeral[k] \in Seq(STRING \ Unsafe)

VARIABLES
    proc,       \* "run", "removing" (remove_all under way), "dead"
    runs,       \* processes started so far
    dest,       \* visible files of the download directory: name -> who put it
    temps,      \* .omdrop-partial-* files on disk
    registry,   \* PARTIALS
    doomed,     \* what remove_all took out of the registry and still unlinks
    body,       \* per upload: what the sender sends and how much was read
    ext         \* per upload: the state of extract()

diskVars == <<dest, temps, registry>>
procVars == <<proc, runs, doomed>>
vars     == <<procVars, diskVars, body, ext>>

NoTemp == <<"none", 0>>

-----------------------------------------------------------------------------
(* Names. *)

Fallback == <<"f">>

LastIn(s, S) == {i \in 1..Len(s) : s[i] \in S}

\* split_ext: the extension starts at the last dot that has a non-dot before it.
SplitExt(s) ==
    LET dots == LastIn(s, {"."})
        dot  == CHOOSE i \in dots : \A j \in dots : j <= i
    IN  IF dots # {} /\ \E i \in 1..(dot - 1) : s[i] # "."
        THEN <<SubSeq(s, 1, dot - 1), SubSeq(s, dot, Len(s))>>
        ELSE <<s, <<>> >>

\* Everything after the last character of s that is in S; what is left of s
\* once the characters in S are taken off its front, or off both its ends.
AfterLast(s, S) ==
    LET at == LastIn(s, S) IN
    IF at = {} THEN s
    ELSE SubSeq(s, 1 + CHOOSE i \in at : \A j \in at : j <= i, Len(s))
TrimFront(s, S) ==
    LET kept == {i \in 1..Len(s) : s[i] \notin S} IN
    IF kept = {} THEN <<>> ELSE SubSeq(s, CHOOSE i \in kept : \A j \in kept : i <= j, Len(s))
Trim(s, S) ==
    LET kept == {i \in 1..Len(s) : s[i] \notin S} IN
    IF kept = {} THEN <<>>
    ELSE SubSeq(s, CHOOSE i \in kept : \A j \in kept : i <= j,
                   CHOOSE i \in kept : \A j \in kept : j <= i)

\* s without the characters in S.
Without(s, S) ==
    LET kept    == {i \in 1..Len(s) : s[i] \notin S}
        upto(i) == Cardinality({j \in kept : j <= i})
    IN  [k \in 1..Cardinality(kept) |-> s[CHOOSE i \in kept : upto(i) = k]]

\* The stem shortened, as far as it goes, until stem and tail fit a file name.
Shorten(stem, tail) ==
    LET room == IF Len(tail) < NameBytes THEN NameBytes - Len(tail) ELSE 0 IN
    IF Len(stem) > room THEN SubSeq(stem, 1, room) ELSE stem

\* safe_name(name, "file")
SafeName(name) ==
    LET cleaned == Without(AfterLast(name, Separators), Unsafe)
        parts   == SplitExt(TrimFront(Trim(cleaned, {" "}), {"."}))
        stem    == Shorten(parts[1], parts[2])
        out     == stem \o parts[2]
    IN  IF stem = <<>> \/ Len(out) > NameBytes \/ out[1] = "." THEN Fallback ELSE out

\* candidate_names(name): the k-th, counted from 0.
Candidate(name, k) ==
    IF k = 0 THEN name
    ELSE LET parts  == SplitExt(name)
             suffix == <<"-">> \o Numeral[k] \o parts[2]
         IN  Shorten(parts[1], suffix) \o suffix

-----------------------------------------------------------------------------
(* The body: tokens, framing and the archive's progress. *)

Member(path, kind, size) == [t |-> "member", path |-> path, kind |-> kind, size |-> size]
Tok(t) == [t |-> t]

\* The names of the bodies at hand, worked out once.
MembersOf(script) == {i \in 1..Len(script) : script[i].t = "member"}
Paths == UNION {{b.script[i].path : i \in MembersOf(b.script)} : b \in UNION {Bodies[u] : u \in Uploads}}
SafeNames  == [p \in Paths |-> SafeName(p)]
CandidateNames == [n \in {SafeNames[p] : p \in Paths} |-> [k \in 0..Candidates |-> Candidate(n, k)]]

\* A fresh ReadDeadline, BodyReader, DvzipDecoder and ExtractProgress for body
\* b; a body with a Content-Length is one long chunk that ends by itself.
NewBody(b) ==
    [script |-> b.script, plan |-> b.plan, bursts |-> b.bursts,
     chunk |-> IF b.plan = "chunked" THEN "size" ELSE "data",
     got |-> 0, pos |-> 0, idle |-> 0, block |-> "header", clean |-> FALSE, trailer |-> FALSE]

NewExt == [pc |-> "new", count |-> 0, bytes |-> 0, cur |-> NoTemp, pending |-> <<>>,
           cand |-> 0, stored |-> <<>>, unterminated |-> FALSE, result |-> "none"]

\* CpioEntry::is_file and the AppleDouble test of extract.
Wanted(m) ==
    /\ m.kind = "file"
    /\ LET last == AfterLast(m.path, {"/"})
       IN  ~(Len(last) >= 2 /\ last[1] = "." /\ last[2] = "_")

ReadingPc == {"entry", "skip", "write", "rest"}
Reading(u) == proc # "dead" /\ ext[u].pc \in ReadingPc

\* The thread is blocked in a read of the body: everything that arrived is
\* decoded and the request has not ended.
Waiting(u) == Reading(u) /\ body[u].pos = body[u].got /\ body[u].chunk # "done"

\* Mutant: the trailer alone makes an archive whole.
WholeAtTrailer(u) == body[u].trailer

\* ExtractProgress::whole
Whole(u) == body[u].trailer /\ body[u].clean

\* extract returns early with an error: what it staged is dropped first.
Fail(u, why) == ext' = [ext EXCEPT ![u].pc = "drop", ![u].result = why]

-----------------------------------------------------------------------------
Init ==
    /\ proc = "run" /\ runs = 1 /\ doomed = {}
    /\ dest = [n \in Existing |-> "user"]
    /\ temps = {} /\ registry = {}
    /\ body \in {f \in [Uploads -> {NewBody(b) : b \in UNION {Bodies[u] : u \in Uploads}}] :
                  \A u \in Uploads : f[u] \in {NewBody(b) : b \in Bodies[u]}}
    /\ ext = [u \in Uploads |-> NewExt]

\* The upload handler calls extract.
Begin(u) ==
    /\ proc # "dead" /\ ext[u].pc = "new"
    /\ ext' = [ext EXCEPT ![u].pc = "entry"]
    /\ UNCHANGED <<procVars, diskVars, body>>

\* Some tokens arrive together, the last of them ending its chunk or not.
\* Source::read clears clean_end on any byte.
Arrive(u) ==
    /\ Waiting(u)
    /\ \E n \in body[u].bursts, chunkEnds \in BOOLEAN :
          LET got == body[u].got + n IN
          /\ got <= Len(body[u].script)
          /\ body[u].plan = "length" => ~chunkEnds
          /\ body' = [body EXCEPT
                ![u].got = got, ![u].clean = FALSE, ![u].idle = 0,
                ![u].chunk = IF chunkEnds THEN "size"
                              ELSE IF body[u].plan = "length" /\ got = Len(body[u].script) THEN "done"
                              ELSE "data"]
    /\ UNCHANGED <<procVars, diskVars, ext>>

\* The zero chunk and its trailers: BodyReader::chunked reaches Chunk::Done.
LastChunk(u) ==
    /\ Waiting(u) /\ body[u].plan = "chunked" /\ body[u].chunk = "size"
    /\ body' = [body EXCEPT ![u].chunk = "done", ![u].idle = 0]
    /\ UNCHANGED <<procVars, diskVars, ext>>

\* await_boundary: a quiet step between two chunks.  A whole archive ends the
\* body there (BodyError::Complete, which extract takes for the end).
QuietStep(u) ==
    /\ Waiting(u) /\ body[u].chunk = "size"
    /\ IF Whole(u)
       THEN /\ ext' = [ext EXCEPT ![u].pc = "place", ![u].unterminated = TRUE]
            /\ body' = [body EXCEPT ![u].idle = 0]
       ELSE IF body[u].idle + 1 >= PatienceSteps
       THEN Fail(u, "body") /\ body' = [body EXCEPT ![u].idle = 0]
       ELSE body' = [body EXCEPT ![u].idle = @ + 1] /\ UNCHANGED ext
    /\ UNCHANGED <<procVars, diskVars>>

\* Mutant: no clock guards the body.
BodyFailsNever(u) ==
    /\ Waiting(u) /\ FALSE
    /\ UNCHANGED vars

\* The body read fails: quiet inside a chunk or behind the minimum rate, malformed
\* framing, the connection's end inside the body, a chunk past the limit.
BodyFails(u) ==
    /\ Waiting(u)
    /\ Fail(u, "body") /\ body' = [body EXCEPT ![u].idle = 0]
    /\ UNCHANGED <<procVars, diskVars>>

\* The body ends.  Only a decoder between two blocks may end there, and only
\* past the trailer; a stream without a single CPIO byte is an empty archive.
BodyEnds(u) ==
    /\ Reading(u) /\ body[u].pos = body[u].got /\ body[u].chunk = "done"
    /\ LET empty == \A i \in 1..body[u].pos : body[u].script[i].t \in {"open", "close"} IN
       IF body[u].block = "header" /\ (ext[u].pc = "rest" \/ (ext[u].pc = "entry" /\ empty))
       THEN /\ ext' = [ext EXCEPT ![u].pc = "place"]
            /\ body' = [body EXCEPT ![u].trailer = TRUE]
       ELSE Fail(u, "invalid") /\ UNCHANGED body
    /\ UNCHANGED <<procVars, diskVars>>

-----------------------------------------------------------------------------
(* Decoding one token. *)

HasToken(u) == Reading(u) /\ body[u].pos < body[u].got
Token(u)    == body[u].script[body[u].pos + 1]

\* read_blocks: a header starts a block; after a block's last byte the decoder is
\* between blocks, and the body may end there unless more of it is buffered.
DecodeBlock(u) ==
    /\ HasToken(u)
    /\ LET b == body[u] IN
       \/ /\ Token(u).t = "open" /\ b.block = "header"
          /\ body' = [body EXCEPT ![u].pos = @ + 1, ![u].block = "inside"]
       \/ /\ Token(u).t = "close" /\ b.block = "inside"
          /\ body' = [body EXCEPT ![u].pos = @ + 1, ![u].block = "header",
                                  ![u].clean = (b.pos + 1 = b.got)]
    /\ UNCHANGED <<procVars, diskVars, ext>>

\* The member whose data comes next: the last one before position pos.
LastMember(u) ==
    LET seen == {i \in 1..body[u].pos : body[u].script[i].t = "member"}
    IN  body[u].script[CHOOSE i \in seen : \A j \in seen : j <= i]

\* The limits extract applies to member m, in its order; "ok" or the first broken.
MemberCheck(u, m) ==
    IF ext[u].count + 1 > MaxMembers THEN "limit"
    ELSE IF ~Wanted(m) THEN "skip"
    ELSE IF m.size > ByteLimit \/ ext[u].bytes + m.size > ByteLimit THEN "limit"
    ELSE "ok"

\* next_entry returns a member.
DecodeMember(u) ==
    /\ HasToken(u) /\ ext[u].pc = "entry"
    /\ body[u].block = "inside" /\ Token(u).t = "member"
    /\ body' = [body EXCEPT ![u].pos = @ + 1]
    /\ LET check == MemberCheck(u, Token(u)) IN
       CASE check = "limit" -> Fail(u, "limit")
         [] check = "skip"  -> ext' = [ext EXCEPT ![u].pc = "skip", ![u].count = @ + 1]
         [] OTHER           -> ext' = [ext EXCEPT ![u].pc = "create", ![u].count = @ + 1,
                                                  ![u].bytes = @ + Token(u).size]
    /\ UNCHANGED <<procVars, diskVars>>

\* The member's temporary file is created (tempfile_in), and only then entered
\* in PARTIALS.
CreateTemp(u) ==
    /\ proc # "dead" /\ ext[u].pc = "create"
    /\ \/ LET t == <<u, ext[u].count>> IN
          /\ temps' = temps \union {t}
          /\ ext' = [ext EXCEPT ![u].pc = "register", ![u].cur = t]
       \/ Fail(u, "io") /\ UNCHANGED temps
    /\ UNCHANGED <<procVars, dest, registry, body>>

RegisterTemp(u) ==
    /\ proc # "dead" /\ ext[u].pc = "register"
    /\ registry' = registry \union {ext[u].cur}
    /\ ext' = [ext EXCEPT ![u].pc = "write"]
    /\ UNCHANGED <<procVars, dest, temps, body>>

\* The member's data: write_member stores it, next_entry skips it.  A member
\* of the script always has its data next; the disk may be low or fail.
DecodeData(u) ==
    /\ HasToken(u) /\ ext[u].pc \in {"write", "skip"}
    /\ Token(u).t = "data" /\ body[u].block = "inside"
    /\ body' = [body EXCEPT ![u].pos = @ + 1]
    /\ \/ /\ ext[u].pc = "skip"
          /\ ext' = [ext EXCEPT ![u].pc = "entry"]
       \/ /\ ext[u].pc = "write"
          /\ ext' = [ext EXCEPT ![u].pc = "entry", ![u].cur = NoTemp,
                       ![u].pending = Append(@, [name |-> SafeNames[LastMember(u).path],
                                                 temp |-> ext[u].cur])]
       \/ /\ ext[u].pc = "write"
          /\ \E why \in {"limit", "io"} : Fail(u, why)
    /\ UNCHANGED <<procVars, diskVars>>

\* TRAILER!!! ends the CPIO archive; anything else that is no member is invalid.
DecodeTrailer(u) ==
    /\ HasToken(u) /\ ext[u].pc = "entry" /\ Token(u).t = "trailer" /\ body[u].block = "inside"
    /\ body' = [body EXCEPT ![u].pos = @ + 1, ![u].trailer = TRUE]
    /\ ext' = [ext EXCEPT ![u].pc = "rest"]
    /\ UNCHANGED <<procVars, diskVars>>

DecodePadding(u) ==
    /\ HasToken(u) /\ ext[u].pc = "rest" /\ Token(u).t = "data" /\ body[u].block = "inside"
    /\ body' = [body EXCEPT ![u].pos = @ + 1]
    /\ UNCHANGED <<procVars, diskVars, ext>>

\* Not a CPIO header, not a zlib stream, bytes after a gzip member.
DecodeGarbage(u) ==
    /\ HasToken(u) /\ Token(u).t = "garbage"
    /\ body' = [body EXCEPT ![u].pos = @ + 1]
    /\ Fail(u, "invalid")
    /\ UNCHANGED <<procVars, diskVars>>

-----------------------------------------------------------------------------
(* Publication, roll-back and clean-up. *)

\* Mutant: a file of that name is replaced.
PlaceReplacing(u) ==
    /\ proc # "dead" /\ ext[u].pc = "place"
    /\ IF ext[u].pending = <<>>
       THEN ext' = [ext EXCEPT ![u].pc = "over", ![u].result = "ok"] /\ UNCHANGED <<dest, temps>>
       ELSE LET p == Head(ext[u].pending) IN
            /\ dest' = [m \in DOMAIN dest \union {p.name} |-> IF m = p.name THEN u ELSE dest[m]]
            /\ temps' = temps \ {p.temp}
            /\ ext' = [ext EXCEPT ![u].pc = "forget"]
    /\ UNCHANGED <<procVars, registry, body>>

\* persist_noclobber over candidate_names for the next pending file.
Place(u) ==
    /\ proc # "dead" /\ ext[u].pc = "place"
    /\ IF ext[u].pending = <<>>
       THEN ext' = [ext EXCEPT ![u].pc = "over", ![u].result = "ok"] /\ UNCHANGED <<dest, temps>>
       ELSE LET p == Head(ext[u].pending)
                n == CandidateNames[p.name][ext[u].cand]
            IN  IF ext[u].cand = Candidates \/ p.temp \notin temps \/ Len(n) > NameBytes
                THEN Fail(u, "io") /\ UNCHANGED <<dest, temps>>
                ELSE IF n \in DOMAIN dest
                THEN ext' = [ext EXCEPT ![u].cand = @ + 1] /\ UNCHANGED <<dest, temps>>
                ELSE \/ /\ dest' = [m \in DOMAIN dest \union {n} |-> IF m = n THEN u ELSE dest[m]]
                        /\ temps' = temps \ {p.temp}
                        /\ ext' = [ext EXCEPT ![u].pc = "forget"]
                     \/ Fail(u, "io") /\ UNCHANGED <<dest, temps>>
    /\ UNCHANGED <<procVars, registry, body>>

\* drop(partial), then stored.push(candidate).
Forget(u) ==
    /\ proc # "dead" /\ ext[u].pc = "forget"
    /\ LET p == Head(ext[u].pending) IN
       /\ registry' = registry \ {p.temp}
       /\ ext' = [ext EXCEPT ![u].pc = "place", ![u].pending = Tail(@), ![u].cand = 0,
                             ![u].stored = Append(@, CandidateNames[p.name][ext[u].cand])]
    /\ UNCHANGED <<procVars, dest, temps, body>>

\* Destructors of a failed extract: the file being written leaves the registry
\* before it is unlinked; a pending file is unlinked, then forgotten.
DropCurrent(u) ==
    /\ proc # "dead" /\ ext[u].pc = "drop" /\ ext[u].cur # NoTemp
    /\ LET t == ext[u].cur IN
       IF t \in registry
       THEN registry' = registry \ {t} /\ UNCHANGED <<temps, ext>>
       ELSE temps' = temps \ {t} /\ ext' = [ext EXCEPT ![u].cur = NoTemp] /\ UNCHANGED registry
    /\ UNCHANGED <<procVars, dest, body>>

DropPending(u) ==
    /\ proc # "dead" /\ ext[u].pc = "drop" /\ ext[u].cur = NoTemp /\ ext[u].pending # <<>>
    /\ LET t == Head(ext[u].pending).temp IN
       /\ temps' = temps \ {t}
       /\ registry' = registry \ {t}
       /\ ext' = [ext EXCEPT ![u].pending = Tail(@)]
    /\ UNCHANGED <<procVars, dest, body>>

\* Mutant: files stored before the error stay.
UndoNothing(u) ==
    /\ proc # "dead" /\ ext[u].pc = "drop" /\ ext[u].cur = NoTemp /\ ext[u].pending = <<>>
    /\ ext' = [ext EXCEPT ![u].pc = "over"]
    /\ UNCHANGED <<procVars, diskVars, body>>

\* The names already given are taken back, in reverse, and extract returns.
Undo(u) ==
    /\ proc # "dead" /\ ext[u].pc = "drop" /\ ext[u].cur = NoTemp /\ ext[u].pending = <<>>
    /\ IF ext[u].stored = <<>>
       THEN ext' = [ext EXCEPT ![u].pc = "over"] /\ UNCHANGED dest
       ELSE LET n == Last(ext[u].stored) IN
            /\ dest' = [m \in DOMAIN dest \ {n} |-> dest[m]]
            /\ ext' = [ext EXCEPT ![u].stored = Front(@)]
    /\ UNCHANGED <<procVars, temps, registry, body>>

-----------------------------------------------------------------------------
(* The process. *)

\* The signal thread: remove_all takes the registry, unlinks, then exit(0).
StopTake ==
    /\ proc = "run"
    /\ proc' = "removing" /\ doomed' = registry /\ registry' = {}
    /\ UNCHANGED <<runs, dest, temps, body, ext>>

StopRemove ==
    /\ proc = "removing"
    /\ \E t \in doomed : temps' = temps \ {t} /\ doomed' = doomed \ {t}
    /\ UNCHANGED <<proc, runs, dest, registry, body, ext>>

StopExit ==
    /\ proc = "removing" /\ doomed = {}
    /\ proc' = "dead"
    /\ UNCHANGED <<runs, doomed, diskVars, body, ext>>

Kill ==
    /\ proc \in {"run", "removing"}
    /\ proc' = "dead"
    /\ UNCHANGED <<runs, doomed, diskVars, body, ext>>

\* Mutant: nothing is swept at the start.
RestartUnswept ==
    /\ proc = "dead" /\ runs < MaxRuns
    /\ proc' = "run" /\ runs' = runs + 1
    /\ registry' = {} /\ doomed' = {}
    /\ ext' = [u \in Uploads |-> IF ext[u].pc \in {"new", "over"} THEN ext[u]
                                 ELSE [NewExt EXCEPT !.pc = "gone"]]
    /\ UNCHANGED <<dest, temps, body>>

\* The next process sweeps what the last one left before it listens.
Restart ==
    /\ proc = "dead" /\ runs < MaxRuns
    /\ proc' = "run" /\ runs' = runs + 1
    /\ temps' = {} /\ registry' = {} /\ doomed' = {}
    /\ ext' = [u \in Uploads |-> IF ext[u].pc \in {"new", "over"} THEN ext[u]
                                 ELSE [NewExt EXCEPT !.pc = "gone"]]
    /\ body' = [u \in Uploads |-> IF ext[u].pc \in {"new", "over"} THEN body[u]
                                  ELSE NewBody(body[u])]
    /\ UNCHANGED dest

Thread(u) ==
    \/ Begin(u) \/ QuietStep(u) \/ BodyFails(u) \/ BodyEnds(u)
    \/ DecodeBlock(u) \/ DecodeMember(u) \/ CreateTemp(u) \/ RegisterTemp(u) \/ DecodeData(u)
    \/ DecodeTrailer(u) \/ DecodePadding(u) \/ DecodeGarbage(u)
    \/ Place(u) \/ Forget(u) \/ DropCurrent(u) \/ DropPending(u) \/ Undo(u)

Sender(u) == Arrive(u) \/ LastChunk(u)

Next ==
    \/ \E u \in Uploads : Thread(u) \/ Sender(u)
    \/ StopTake \/ StopRemove \/ StopExit \/ Kill \/ Restart

\* A thread always runs on, and a body that stays quiet runs into a clock.
Spec == Init /\ [][Next]_vars /\ \A u \in Uploads : WF_vars(Thread(u))

-----------------------------------------------------------------------------
(* Properties. *)

PcValues == ReadingPc \union {"new", "create", "register", "place", "forget", "drop", "over", "gone"}

\* Type invariant.
TypeOK ==
    /\ proc \in {"run", "removing", "dead"} /\ runs \in 1..MaxRuns
    /\ temps \subseteq Uploads \X (1..MaxMembers)
    /\ registry \subseteq Uploads \X (1..MaxMembers) /\ doomed \subseteq Uploads \X (1..MaxMembers)
    /\ \A n \in DOMAIN dest : dest[n] \in Uploads \union {"user"}
    /\ \A u \in Uploads :
          /\ ext[u].pc \in PcValues /\ ext[u].count \in 0..MaxMembers
          /\ ext[u].bytes \in 0..ByteLimit /\ ext[u].cand \in 0..Candidates
          /\ body[u].pos \in 0..body[u].got /\ body[u].got \in 0..Len(body[u].script)
          /\ body[u].idle \in 0..PatienceSteps

Visible(u) == {n \in DOMAIN dest : dest[n] = u}
Files(u)   == {i \in 1..body[u].got :
                  body[u].script[i].t = "member" /\ Wanted(body[u].script[i])}

\* archive.rs:17-21, "given their real names only once the whole archive has
\* checked out: a failed upload leaves nothing behind".  An upload whose extract
\* returned shows every file its sender sent, or none; before the
\* archive is whole it shows none.
AllOrNothing ==
    \A u \in Uploads :
        /\ ext[u].pc = "over" /\ ext[u].result = "ok" => Cardinality(Visible(u)) = Cardinality(Files(u))
        /\ ext[u].pc = "over" /\ ext[u].result # "ok" => Visible(u) = {}
        /\ Visible(u) # {} => body[u].trailer \/ ext[u].pc = "gone"

\* An upload taken as complete is past its trailer, between two blocks, with
\* nothing read but not decoded.
TakenWhole ==
    \A u \in Uploads :
        ext[u].pc \in {"place", "forget"} \/ (ext[u].pc = "over" /\ ext[u].result = "ok") =>
            /\ body[u].trailer /\ body[u].block = "header" /\ body[u].pos = body[u].got
            /\ ext[u].unterminated => body[u].plan = "chunked" /\ body[u].chunk = "size"

\* Whatever path a member carries, the name its file gets has no separator, is
\* not hidden (the start-up sweep could take it for a partial) and fits a
\* directory entry.
SafelyNamed ==
    \A n \in DOMAIN dest : dest[n] \in Uploads =>
        /\ n # <<>> /\ n[1] # "." /\ Len(n) <= NameBytes
        /\ \A i \in 1..Len(n) : n[i] \notin Unsafe

\* http.rs Patience, "a pause mid-chunk is never taken for the end", archive.rs
\* ExtractProgress::whole, safe_name and candidate_names: only a whole archive is
\* stored, under safe names.
StoredIsWhole == TakenWhole /\ SafelyNamed

\* archive.rs open_new/persist_noclobber: no upload replaces or removes a file
\* that another upload or the user put there, roll-back included.
NoClobber ==
    [][\A n \in DOMAIN dest :
         \/ n \in DOMAIN dest' /\ dest'[n] = dest[n]
         \/ n \notin DOMAIN dest' /\ dest[n] \in Uploads /\ ext[dest[n]].pc = "drop"]_vars

\* archive.rs Partials and sweep_partials: once no upload is under way, no
\* hidden file is on disk and none is registered, across stops and kills; and a
\* file the registry does not know belongs to an upload just creating or dropping it.
NothingLeft ==
    proc = "run" =>
        /\ (\A u \in Uploads : ext[u].pc \in {"new", "over", "gone"}) => temps = {} /\ registry = {}
        /\ \A t \in temps \ registry : ext[t[1]].pc \in {"register", "drop"} /\ ext[t[1]].cur = t

\* http.rs ReadDeadline and Patience: an upload that began ends, unless the
\* process does; no sender holds its thread for ever.
UploadEnds ==
    \A u \in Uploads : (ext[u].pc = "entry") ~> (ext[u].pc \in {"over", "gone"} \/ proc = "dead")
=============================================================================
