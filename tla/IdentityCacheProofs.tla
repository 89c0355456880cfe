------------------------- MODULE IdentityCacheProofs -------------------------
(***************************************************************************)
(* Theorems about IdentityCache, for any number of commands, items and       *)
(* identities, and whatever write of a commit fails.                         *)
(***************************************************************************)
EXTENDS IdentityCache, TLAPS

-----------------------------------------------------------------------------
(* The inductive invariant *)

\* Which command is where, what its request is for, and what it has in hand.
Flow ==
  \A p \in Cmds :
    /\ pc[p] = "idle" => kind[p] = "none"
    /\ pc[p] \in {"begun", "gen", "ref", "publish"} => kind[p] \in {"on", "unlock"}
    /\ pc[p] = "save" => then[p] = "save"
    /\ pc[p] \in {"settings", "compare", "save", "verify"} => kind[p] = "import"
    /\ pc[p] \in {"spawn", "op"} =>
         \/ kind[p] \in {"on", "unlock"} /\ then[p] = "publish"
         \/ kind[p] = "import" /\ then[p] \in {"compare", "save", "verify"}
         \/ kind[p] = "use" /\ then[p] = "adopt"
    /\ pc[p] \in {"spawn", "op"} /\ then[p] # "save" => ref[p] # None
    /\ pc[p] \in {"publish", "compare", "save", "verify", "adopt"} =>
         ref[p] # None /\ store[ref[p]] # None
    /\ pc[p] = "publish" => got[p] = store[ref[p]]

\* The settings name an item that 1Password holds, and in 1Password mode there
\* is one, the one that was committed to.
Settled ==
  /\ item # None => store[item] # None
  /\ mode = "1password" => item # None /\ item = adopted

\* The generation orders what reads the settings and what commits to them: in
\* 1Password mode a fetch that is still current has read the item there is, and
\* no import that is still current has an item of its own to save.
Ordered ==
  /\ \A p \in Cmds : myGen[p] <= gen
  /\ mode = "1password" =>
       \A p \in Cmds : myGen[p] = gen =>
         /\ kind[p] \in {"on", "unlock"} /\ pc[p] \in {"spawn", "op", "publish"} => ref[p] = item
         /\ kind[p] = "import" /\ then[p] = "save" => pc[p] \notin {"spawn", "op", "save"}

\* All of it, until a commit is torn.
ChoiceInv == TypeOK /\ Flow /\ (~torn => Settled /\ Ordered /\ CacheIsChosen)

\* A fetch that was overtaken has read a smaller generation, and one that is
\* cached is over.
Overtaken ==
  /\ \A p \in Cmds : myGen[p] <= gen
  /\ \A p \in barred : /\ pc[p] \notin {"idle", "begun", "gen"}
                       /\ Fetching(p) => myGen[p] # gen
  /\ cache # None => pc[cache.fetch] \in {"window", "starting", "done"}

\* A window's entry has been given its hard expiry.
Kept ==
  WindowOpen /\ window.source = "1password" /\ window.fetch \notin expired =>
    cache # None /\ cache.fetch = window.fetch /\ timeout = "hard"

\* What an import works on is what is on disk, as long as it is there; what it has
\* fetched is what its item holds; and from the commit on an item holds the files.
Handed ==
  \A p \in Cmds :
    /\ pc[p] \in {"compare", "save", "verify"} \/ (pc[p] \in {"spawn", "op"} /\ kind[p] = "import") =>
         disk = None \/ present[p] = disk
    /\ pc[p] \in {"compare", "verify"} => got[p] = store[ref[p]]
    /\ pc[p] = "adopt" /\ kind[p] = "import" => disk = None \/ store[ref[p]] = disk
    /\ pc[p] = "delete" => disk = None \/ \E i \in Items : store[i] = disk

-----------------------------------------------------------------------------
(* Types *)

\* The first state has its types, and the rest of the invariant.
LEMMA IdentityInit ==
  ASSUME Init
  PROVE  TypeOK /\ Flow /\ Settled /\ Ordered /\ CacheIsChosen /\ Overtaken /\ Kept
<1> USE DEF Init
<1>1. FileTypes
  BY DEF FileTypes, Cached, Windows
<1>2. ProcTypes
  BY DEF ProcTypes, Kinds, Pcs
<1>3. Flow
  BY DEF Flow
<1>4. Settled /\ Ordered
  BY DEF Settled, Ordered
<1>5. CacheIsChosen /\ Overtaken /\ Kept
  BY DEF CacheIsChosen, Overtaken, Kept, WindowOpen
<1> QED
  BY <1>1, <1>2, <1>3, <1>4, <1>5 DEF TypeOK

\* Every step keeps the types of the files, the keyring and 1Password.
LEMMA FileTypesStep ==
  ASSUME TypeOK, Flow, [Next]_vars
  PROVE  FileTypes'
<1> SUFFICES ASSUME NEW p \in Cmds, Command(p) \/ Step(p) \/ PeriodEnds(p) \/ HardExpires(p)
             PROVE  FileTypes'
  BY DEF Next, Quiet, vars, filesVars, worldVars, procVars, TypeOK, FileTypes, ProcTypes,
      Cached, Windows
<1> USE IdentityAssumption DEF Goto, TypeOK, FileTypes, ProcTypes, Cached, Windows
<1>1. CASE OpSpawn(p)
  BY <1>1 DEF OpSpawn, filesVars, worldVars, procVars
<1>2. CASE OpEnd(p)
  BY <1>2 DEF OpEnd, AfterFetch, filesVars, worldVars, procVars
<1>3. CASE FillGen(p)
  BY <1>3 DEF FillGen, filesVars, worldVars, procVars
<1>4. CASE FillRef(p)
  BY <1>4 DEF FillRef, AfterFetch, filesVars, worldVars, procVars
<1>5. CASE PublishIfCurrent(p)
  <2>1. got[p] \in Contents
    BY <1>5 DEF PublishIfCurrent, Flow
  <2> QED
    BY <1>5, <2>1 DEF PublishIfCurrent, filesVars
<1>6. CASE OnBegin(p)
  BY <1>6 DEF OnBegin, Begin, filesVars, worldVars, procVars
<1>7. CASE OnDecide(p)
  BY <1>7 DEF OnDecide, CacheUsable, WindowOpen, filesVars, worldVars, procVars
<1>8. CASE OnWindow(p)
  BY <1>8 DEF OnWindow, OpenWindow, CacheUsable, WindowOpen, filesVars, worldVars, procVars
<1>9. CASE OnStarted(p)
  BY <1>9 DEF OnStarted, filesVars, worldVars, procVars
<1>10. CASE OnAbort(p)
  BY <1>10 DEF OnAbort, StopEnd, filesVars, worldVars, procVars
<1>11. CASE OffBegin(p)
  BY <1>11 DEF OffBegin, Begin, filesVars, worldVars, procVars
<1>12. CASE OffEnd(p)
  BY <1>12 DEF OffEnd, StopEnd, filesVars, worldVars, procVars
<1>13. CASE Unlock(p)
  BY <1>13 DEF Unlock, Begin, filesVars, worldVars, procVars
<1>14. CASE Lock(p)
  BY <1>14 DEF Lock, Begin, WindowOpen, BumpGen, KillFetch, filesVars, worldVars, procVars
<1>15. CASE OnePasswordOff(p)
  BY <1>15 DEF OnePasswordOff, Begin, WindowOpen, BumpGen, KillFetch, filesVars, worldVars,
      procVars
<1>16. CASE UseBegin(p)
  BY <1>16 DEF UseBegin, Begin, WindowOpen, BumpGen, KillFetch, filesVars, worldVars, procVars
<1>17. CASE ImportBegin(p)
  BY <1>17 DEF ImportBegin, Begin, WindowOpen, filesVars, worldVars, procVars
<1>18. CASE ImportRead(p)
  BY <1>18 DEF ImportRead, filesVars, worldVars, procVars
<1>19. CASE ImportCompare(p)
  BY <1>19 DEF ImportCompare, filesVars, worldVars, procVars
<1>20. CASE SaveItemIds(p)
  BY <1>20 DEF SaveItemIds, Current, WindowOpen, filesVars, worldVars, procVars
<1>21. CASE ImportVerify(p)
  BY <1>21 DEF ImportVerify, filesVars, worldVars, procVars
<1>22. CASE Adopt(p)
  <2>1. torn' \in BOOLEAN
    <3>1. torn' = TRUE \/ torn' = torn
      BY <1>22 DEF Adopt
    <3>2. torn \in BOOLEAN
      BY DEF TypeOK, FileTypes
    <3> QED
      BY <3>1, <3>2, Zenon
  <2> QED
    BY <1>22, <2>1 DEF Adopt, Current, WindowOpen, BumpGen, KillFetch, filesVars, worldVars,
      procVars
<1>23. CASE ImportDelete(p)
  BY <1>23 DEF ImportDelete, filesVars, worldVars, procVars
<1>24. CASE PeriodEnds(p)
  BY <1>24 DEF PeriodEnds, WindowOpen, filesVars, worldVars, procVars
<1>25. CASE HardExpires(p)
  BY <1>25 DEF HardExpires, filesVars, worldVars, procVars
<1> QED
  BY <1>1, <1>2, <1>3, <1>4, <1>5, <1>6, <1>7, <1>8, <1>9, <1>10, <1>11, <1>12, <1>13, <1>14,
      <1>15, <1>16, <1>17, <1>18, <1>19, <1>20, <1>21, <1>22, <1>23, <1>24, <1>25 DEF Command,
          Step

\* Every step keeps the types of the processes' variables.
LEMMA ProcTypesStep ==
  ASSUME TypeOK, Flow, [Next]_vars
  PROVE  ProcTypes'
<1> SUFFICES ASSUME NEW p \in Cmds, Command(p) \/ Step(p) \/ PeriodEnds(p) \/ HardExpires(p)
             PROVE  ProcTypes'
  BY DEF Next, Quiet, vars, filesVars, worldVars, procVars, TypeOK, FileTypes, ProcTypes,
      Kinds, Pcs
<1> USE IdentityAssumption DEF Goto, TypeOK, FileTypes, ProcTypes, Kinds, Pcs
<1>1. CASE OpSpawn(p)
  BY <1>1 DEF OpSpawn, filesVars, worldVars, procVars
<1>2. CASE OpEnd(p)
  <2>1. pc' \in [Cmds -> Pcs]
    BY <1>2 DEF OpEnd, AfterFetch
  <2>2. ref' \in [Cmds -> Items \cup {None}]
    BY <1>2 DEF OpEnd
  <2>3. got' \in [Cmds -> Contents \cup {None}]
    BY <1>2 DEF OpEnd, Flow
  <2> QED
    BY <1>2, <2>1, <2>2, <2>3 DEF OpEnd
<1>3. CASE FillGen(p)
  BY <1>3 DEF FillGen, filesVars, worldVars, procVars
<1>4. CASE FillRef(p)
  BY <1>4 DEF FillRef, AfterFetch, filesVars, worldVars, procVars
<1>5. CASE PublishIfCurrent(p)
  BY <1>5 DEF PublishIfCurrent, AfterFetch, WindowOpen, filesVars, worldVars, procVars
<1>6. CASE OnBegin(p)
  BY <1>6 DEF OnBegin, Begin, filesVars, worldVars, procVars
<1>7. CASE OnDecide(p)
  BY <1>7 DEF OnDecide, CacheUsable, WindowOpen, filesVars, worldVars, procVars
<1>8. CASE OnWindow(p)
  BY <1>8 DEF OnWindow
<1>9. CASE OnStarted(p)
  BY <1>9 DEF OnStarted, filesVars, worldVars, procVars
<1>10. CASE OnAbort(p)
  BY <1>10 DEF OnAbort, StopEnd, filesVars, worldVars, procVars
<1>11. CASE OffBegin(p)
  BY <1>11 DEF OffBegin, Begin, filesVars, worldVars, procVars
<1>12. CASE OffEnd(p)
  BY <1>12 DEF OffEnd, StopEnd, filesVars, worldVars, procVars
<1>13. CASE Unlock(p)
  BY <1>13 DEF Unlock, Begin, filesVars, worldVars, procVars
<1>14. CASE Lock(p)
  BY <1>14 DEF Lock, Begin, WindowOpen, BumpGen, KillFetch, filesVars, worldVars, procVars
<1>15. CASE OnePasswordOff(p)
  BY <1>15 DEF OnePasswordOff, Begin, WindowOpen, BumpGen, KillFetch, filesVars, worldVars,
      procVars
<1>16. CASE UseBegin(p)
  <2>1. ref' \in [Cmds -> Items \cup {None}]
    BY <1>16 DEF UseBegin
  <2>2. /\ pc' \in [Cmds -> Pcs] /\ then' \in [Cmds -> Pcs]
        /\ kind' \in [Cmds -> Kinds] /\ myGen' \in [Cmds -> Nat]
    BY <1>16 DEF UseBegin, Begin
  <2> QED
    BY <1>16, <2>1, <2>2 DEF UseBegin, KillFetch
<1>17. CASE ImportBegin(p)
  BY <1>17 DEF ImportBegin, Begin, WindowOpen, filesVars, worldVars, procVars
<1>18. CASE ImportRead(p)
  BY <1>18 DEF ImportRead, filesVars, worldVars, procVars
<1>19. CASE ImportCompare(p)
  BY <1>19 DEF ImportCompare, filesVars, worldVars, procVars
<1>20. CASE SaveItemIds(p)
  BY <1>20 DEF SaveItemIds
<1>21. CASE ImportVerify(p)
  BY <1>21 DEF ImportVerify, filesVars, worldVars, procVars
<1>22. CASE Adopt(p)
  BY <1>22 DEF Adopt, Current, WindowOpen, BumpGen, KillFetch, filesVars, worldVars, procVars
<1>23. CASE ImportDelete(p)
  BY <1>23 DEF ImportDelete, filesVars, worldVars, procVars
<1>24. CASE PeriodEnds(p)
  BY <1>24 DEF PeriodEnds, WindowOpen, filesVars, worldVars, procVars
<1>25. CASE HardExpires(p)
  BY <1>25 DEF HardExpires, filesVars, worldVars, procVars
<1> QED
  BY <1>1, <1>2, <1>3, <1>4, <1>5, <1>6, <1>7, <1>8, <1>9, <1>10, <1>11, <1>12, <1>13, <1>14,
      <1>15, <1>16, <1>17, <1>18, <1>19, <1>20, <1>21, <1>22, <1>23, <1>24, <1>25 DEF Command,
          Step

\* Every step keeps the commands on their ways.
LEMMA FlowStep ==
  ASSUME TypeOK, Flow, [Next]_vars
  PROVE  Flow'
<1> SUFFICES ASSUME NEW p \in Cmds, Command(p) \/ Step(p) \/ PeriodEnds(p) \/ HardExpires(p)
             PROVE  Flow'
  BY DEF Next, Quiet, vars, filesVars, worldVars, procVars, TypeOK, FileTypes, ProcTypes, Flow
<1> USE IdentityAssumption DEF Goto, TypeOK, FileTypes, ProcTypes, Flow
<1>1. CASE OpSpawn(p)
  BY <1>1 DEF OpSpawn, filesVars, worldVars, procVars
<1>2. CASE OpEnd(p)
  BY <1>2 DEF OpEnd, AfterFetch, filesVars, worldVars, procVars
<1>3. CASE FillGen(p)
  BY <1>3 DEF FillGen, filesVars, worldVars, procVars
<1>4. CASE FillRef(p)
  BY <1>4 DEF FillRef, AfterFetch, filesVars, worldVars, procVars
<1>5. CASE PublishIfCurrent(p)
  BY <1>5 DEF PublishIfCurrent, AfterFetch, WindowOpen, filesVars, worldVars, procVars
<1>6. CASE OnBegin(p)
  BY <1>6 DEF OnBegin, Begin, filesVars, worldVars, procVars
<1>7. CASE OnDecide(p)
  BY <1>7 DEF OnDecide, filesVars, worldVars
<1>8. CASE OnWindow(p)
  BY <1>8 DEF OnWindow, OpenWindow, CacheUsable, WindowOpen, filesVars, worldVars, procVars
<1>9. CASE OnStarted(p)
  BY <1>9 DEF OnStarted, filesVars, worldVars, procVars
<1>10. CASE OnAbort(p)
  BY <1>10 DEF OnAbort, StopEnd, filesVars, worldVars, procVars
<1>11. CASE OffBegin(p)
  BY <1>11 DEF OffBegin, Begin, filesVars, worldVars, procVars
<1>12. CASE OffEnd(p)
  BY <1>12 DEF OffEnd, StopEnd, filesVars, worldVars, procVars
<1>13. CASE Unlock(p)
  BY <1>13 DEF Unlock, Begin, filesVars, worldVars, procVars
<1>14. CASE Lock(p)
  BY <1>14 DEF Lock, Begin, WindowOpen, BumpGen, KillFetch, filesVars, worldVars, procVars
<1>15. CASE OnePasswordOff(p)
  BY <1>15 DEF OnePasswordOff, Begin, WindowOpen, BumpGen, KillFetch, filesVars, worldVars,
      procVars
<1>16. CASE UseBegin(p)
  BY <1>16 DEF UseBegin, Begin, WindowOpen, BumpGen, KillFetch, filesVars, worldVars, procVars
<1>17. CASE ImportBegin(p)
  BY <1>17 DEF ImportBegin, Begin, WindowOpen, filesVars, worldVars, procVars
<1>18. CASE ImportRead(p)
  BY <1>18 DEF ImportRead, filesVars, worldVars, procVars
<1>19. CASE ImportCompare(p)
  BY <1>19 DEF ImportCompare, filesVars, worldVars, procVars
<1>20. CASE SaveItemIds(p)
  BY <1>20 DEF SaveItemIds, Current, WindowOpen, filesVars, worldVars, procVars
<1>21. CASE ImportVerify(p)
  BY <1>21 DEF ImportVerify, filesVars, worldVars, procVars
<1>22. CASE Adopt(p)
  BY <1>22 DEF Adopt, Current, WindowOpen, BumpGen, KillFetch, filesVars, worldVars, procVars
<1>23. CASE ImportDelete(p)
  BY <1>23 DEF ImportDelete, filesVars, worldVars, procVars
<1>24. CASE PeriodEnds(p)
  BY <1>24 DEF PeriodEnds, WindowOpen, filesVars, worldVars, procVars
<1>25. CASE HardExpires(p)
  BY <1>25 DEF HardExpires, filesVars, worldVars, procVars
<1> QED
  BY <1>1, <1>2, <1>3, <1>4, <1>5, <1>6, <1>7, <1>8, <1>9, <1>10, <1>11, <1>12, <1>13, <1>14,
      <1>15, <1>16, <1>17, <1>18, <1>19, <1>20, <1>21, <1>22, <1>23, <1>24, <1>25 DEF Command,
          Step

\* A commit that was torn stays so: no command undoes it unseen.
LEMMA TornStep ==
  ASSUME [Next]_vars
  PROVE  torn' = torn \/ torn' = TRUE
<1> SUFFICES ASSUME NEW p \in Cmds, Command(p) \/ Step(p) \/ PeriodEnds(p) \/ HardExpires(p)
             PROVE  torn' = torn \/ torn' = TRUE
  BY DEF Next, Quiet, vars
<1>1. CASE OpSpawn(p)
  BY <1>1 DEF OpSpawn
<1>2. CASE OpEnd(p)
  BY <1>2 DEF OpEnd
<1>3. CASE FillGen(p)
  BY <1>3 DEF FillGen
<1>4. CASE FillRef(p)
  BY <1>4 DEF FillRef
<1>5. CASE PublishIfCurrent(p)
  BY <1>5 DEF PublishIfCurrent
<1>6. CASE OnBegin(p)
  BY <1>6 DEF OnBegin
<1>7. CASE OnDecide(p)
  BY <1>7 DEF OnDecide
<1>8. CASE OnWindow(p)
  BY <1>8 DEF OnWindow
<1>9. CASE OnStarted(p)
  BY <1>9 DEF OnStarted
<1>10. CASE OnAbort(p)
  BY <1>10 DEF OnAbort
<1>11. CASE OffBegin(p)
  BY <1>11 DEF OffBegin
<1>12. CASE OffEnd(p)
  BY <1>12 DEF OffEnd
<1>13. CASE Unlock(p)
  BY <1>13 DEF Unlock
<1>14. CASE Lock(p)
  BY <1>14 DEF Lock
<1>15. CASE OnePasswordOff(p)
  BY <1>15 DEF OnePasswordOff
<1>16. CASE UseBegin(p)
  BY <1>16 DEF UseBegin
<1>17. CASE ImportBegin(p)
  BY <1>17 DEF ImportBegin
<1>18. CASE ImportRead(p)
  BY <1>18 DEF ImportRead
<1>19. CASE ImportCompare(p)
  BY <1>19 DEF ImportCompare
<1>20. CASE SaveItemIds(p)
  BY <1>20 DEF SaveItemIds
<1>21. CASE ImportVerify(p)
  BY <1>21 DEF ImportVerify
<1>22. CASE Adopt(p)
  BY <1>22 DEF Adopt
<1>23. CASE ImportDelete(p)
  BY <1>23 DEF ImportDelete
<1>24. CASE PeriodEnds(p)
  BY <1>24 DEF PeriodEnds
<1>25. CASE HardExpires(p)
  BY <1>25 DEF HardExpires
<1> QED
  BY <1>1, <1>2, <1>3, <1>4, <1>5, <1>6, <1>7, <1>8, <1>9, <1>10, <1>11, <1>12, <1>13, <1>14,
      <1>15, <1>16, <1>17, <1>18, <1>19, <1>20, <1>21, <1>22, <1>23, <1>24, <1>25 DEF Command,
          Step

\* Every step that tears no commit keeps the settings, the generation and the
\* cache in order.
LEMMA ChoiceStep ==
  ASSUME TypeOK, Flow, Settled, Ordered, CacheIsChosen, torn = FALSE, torn' = FALSE, [Next]_vars
  PROVE  Settled' /\ Ordered' /\ CacheIsChosen'
<1> SUFFICES ASSUME NEW p \in Cmds, Command(p) \/ Step(p) \/ PeriodEnds(p) \/ HardExpires(p)
             PROVE  Settled' /\ Ordered' /\ CacheIsChosen'
  BY DEF Next, Quiet, vars, filesVars, worldVars, procVars, TypeOK, FileTypes,
      ProcTypes, Cached, Flow, Settled, Ordered, CacheIsChosen
<1> USE IdentityAssumption DEF Goto, TypeOK, FileTypes, ProcTypes, Cached, Flow,
    Settled, Ordered, CacheIsChosen
<1>1. CASE OpSpawn(p)
  BY <1>1 DEF OpSpawn, filesVars, worldVars, procVars
<1>2. CASE OpEnd(p)
  BY <1>2 DEF OpEnd, AfterFetch, filesVars, worldVars, procVars
<1>3. CASE FillGen(p)
  BY <1>3 DEF FillGen, filesVars, worldVars, procVars
<1>4. CASE FillRef(p)
  BY <1>4 DEF FillRef, AfterFetch, filesVars, worldVars, procVars
<1>5. CASE PublishIfCurrent(p)
  BY <1>5 DEF PublishIfCurrent, AfterFetch, WindowOpen, filesVars, worldVars, procVars
<1>6. CASE OnBegin(p)
  BY <1>6 DEF OnBegin, Begin, filesVars, worldVars, procVars
<1>7. CASE OnDecide(p)
  BY <1>7 DEF OnDecide, CacheUsable, WindowOpen, filesVars, worldVars, procVars
<1>8. CASE OnWindow(p)
  BY <1>8 DEF OnWindow, OpenWindow, CacheUsable, WindowOpen, filesVars, worldVars, procVars
<1>9. CASE OnStarted(p)
  BY <1>9 DEF OnStarted, filesVars, worldVars, procVars
<1>10. CASE OnAbort(p)
  BY <1>10 DEF OnAbort, StopEnd, filesVars, worldVars, procVars
<1>11. CASE OffBegin(p)
  BY <1>11 DEF OffBegin, Begin, filesVars, worldVars, procVars
<1>12. CASE OffEnd(p)
  BY <1>12 DEF OffEnd, StopEnd, filesVars, worldVars, procVars
<1>13. CASE Unlock(p)
  BY <1>13 DEF Unlock, Begin, filesVars, worldVars, procVars
<1>14. CASE Lock(p)
  BY <1>14 DEF Lock, Begin, WindowOpen, BumpGen, KillFetch, filesVars, worldVars, procVars
<1>15. CASE OnePasswordOff(p)
  BY <1>15 DEF OnePasswordOff, Begin, WindowOpen, BumpGen, KillFetch, filesVars, worldVars,
      procVars
<1>16. CASE UseBegin(p)
  BY <1>16 DEF UseBegin, Begin, WindowOpen, BumpGen, KillFetch, filesVars, worldVars, procVars
<1>17. CASE ImportBegin(p)
  BY <1>17 DEF ImportBegin, Begin, WindowOpen, filesVars, worldVars, procVars
<1>18. CASE ImportRead(p)
  BY <1>18 DEF ImportRead, filesVars, worldVars, procVars
<1>19. CASE ImportCompare(p)
  BY <1>19 DEF ImportCompare, filesVars, worldVars, procVars
<1>20. CASE SaveItemIds(p)
  <2>1. mode # "1password" \/ item' = item
    BY <1>20 DEF SaveItemIds, Current
  <2>2. Settled'
    <3>1. ref[p] # None /\ store[ref[p]] # None /\ store' = store /\ UNCHANGED <<mode, adopted>>
      BY <1>20 DEF SaveItemIds, worldVars
    <3>2. item' = ref[p] \/ item' = item
      BY <1>20 DEF SaveItemIds
    <3> QED
      BY <2>1, <3>1, <3>2
  <2>3. Ordered'
    BY <1>20, <2>1 DEF SaveItemIds
  <2>4. CacheIsChosen'
    BY <1>20, <2>1 DEF SaveItemIds, worldVars
  <2> QED
    BY <2>2, <2>3, <2>4
<1>21. CASE ImportVerify(p)
  BY <1>21 DEF ImportVerify, filesVars, worldVars, procVars
<1>22. CASE Adopt(p)
  BY <1>22 DEF Adopt, Current, WindowOpen, BumpGen, KillFetch, filesVars, worldVars, procVars
<1>23. CASE ImportDelete(p)
  BY <1>23 DEF ImportDelete, filesVars, worldVars, procVars
<1>24. CASE PeriodEnds(p)
  BY <1>24 DEF PeriodEnds, WindowOpen, filesVars, worldVars, procVars
<1>25. CASE HardExpires(p)
  BY <1>25 DEF HardExpires, filesVars, worldVars, procVars
<1> QED
  BY <1>1, <1>2, <1>3, <1>4, <1>5, <1>6, <1>7, <1>8, <1>9, <1>10, <1>11, <1>12, <1>13, <1>14,
      <1>15, <1>16, <1>17, <1>18, <1>19, <1>20, <1>21, <1>22, <1>23, <1>24, <1>25 DEF Command,
          Step

\* Every step keeps the overtaken fetches out of the cache.
LEMMA OvertakenStep ==
  ASSUME TypeOK, Flow, Overtaken, NoBarredCache, [Next]_vars
  PROVE  Overtaken' /\ NoBarredCache'
<1> SUFFICES ASSUME NEW p \in Cmds, Command(p) \/ Step(p) \/ PeriodEnds(p) \/ HardExpires(p)
             PROVE  Overtaken' /\ NoBarredCache'
  BY DEF Next, Quiet, vars, filesVars, worldVars, procVars, TypeOK, FileTypes, ProcTypes,
      Cached, Flow, Overtaken, NoBarredCache, Fetching
<1> USE IdentityAssumption DEF Goto, TypeOK, FileTypes, ProcTypes, Cached, Flow, Overtaken,
    NoBarredCache, Fetching
<1>1. CASE OpSpawn(p)
  BY <1>1 DEF OpSpawn, filesVars, worldVars, procVars
<1>2. CASE OpEnd(p)
  BY <1>2 DEF OpEnd, AfterFetch, filesVars, worldVars, procVars
<1>3. CASE FillGen(p)
  BY <1>3 DEF FillGen, filesVars, worldVars, procVars
<1>4. CASE FillRef(p)
  BY <1>4 DEF FillRef, AfterFetch, filesVars, worldVars, procVars
<1>5. CASE PublishIfCurrent(p)
  BY <1>5 DEF PublishIfCurrent, AfterFetch, WindowOpen, filesVars, worldVars, procVars
<1>6. CASE OnBegin(p)
  BY <1>6 DEF OnBegin, Begin, filesVars, worldVars, procVars
<1>7. CASE OnDecide(p)
  BY <1>7 DEF OnDecide, CacheUsable, WindowOpen, filesVars, worldVars, procVars
<1>8. CASE OnWindow(p)
  BY <1>8 DEF OnWindow, OpenWindow, CacheUsable, WindowOpen, filesVars, worldVars, procVars
<1>9. CASE OnStarted(p)
  BY <1>9 DEF OnStarted, filesVars, worldVars, procVars
<1>10. CASE OnAbort(p)
  BY <1>10 DEF OnAbort, StopEnd, filesVars, worldVars, procVars
<1>11. CASE OffBegin(p)
  BY <1>11 DEF OffBegin, Begin, filesVars, worldVars, procVars
<1>12. CASE OffEnd(p)
  BY <1>12 DEF OffEnd, StopEnd, filesVars, worldVars, procVars
<1>13. CASE Unlock(p)
  BY <1>13 DEF Unlock, Begin, filesVars, worldVars, procVars
<1>14. CASE Lock(p)
  BY <1>14 DEF Lock, Begin, WindowOpen, BumpGen, KillFetch, filesVars, worldVars, procVars
<1>15. CASE OnePasswordOff(p)
  BY <1>15 DEF OnePasswordOff, Begin, WindowOpen, BumpGen, KillFetch, filesVars, worldVars,
      procVars
<1>16. CASE UseBegin(p)
  BY <1>16 DEF UseBegin, Begin, WindowOpen, BumpGen, KillFetch, filesVars, worldVars, procVars
<1>17. CASE ImportBegin(p)
  BY <1>17 DEF ImportBegin, Begin, WindowOpen, filesVars, worldVars, procVars
<1>18. CASE ImportRead(p)
  BY <1>18 DEF ImportRead, filesVars, worldVars, procVars
<1>19. CASE ImportCompare(p)
  BY <1>19 DEF ImportCompare, filesVars, worldVars, procVars
<1>20. CASE SaveItemIds(p)
  BY <1>20 DEF SaveItemIds, Current, WindowOpen, filesVars, worldVars, procVars
<1>21. CASE ImportVerify(p)
  BY <1>21 DEF ImportVerify, filesVars, worldVars, procVars
<1>22. CASE Adopt(p)
  BY <1>22 DEF Adopt, Current, WindowOpen, BumpGen, KillFetch, filesVars, worldVars, procVars
<1>23. CASE ImportDelete(p)
  BY <1>23 DEF ImportDelete, filesVars, worldVars, procVars
<1>24. CASE PeriodEnds(p)
  BY <1>24 DEF PeriodEnds, WindowOpen, filesVars, worldVars, procVars
<1>25. CASE HardExpires(p)
  BY <1>25 DEF HardExpires, filesVars, worldVars, procVars
<1> QED
  BY <1>1, <1>2, <1>3, <1>4, <1>5, <1>6, <1>7, <1>8, <1>9, <1>10, <1>11, <1>12, <1>13, <1>14,
      <1>15, <1>16, <1>17, <1>18, <1>19, <1>20, <1>21, <1>22, <1>23, <1>24, <1>25 DEF Command,
          Step

\* Every step keeps an open window's entry.
LEMMA KeptStep ==
  ASSUME TypeOK, Kept, [Next]_vars
  PROVE  Kept'
<1> SUFFICES ASSUME NEW p \in Cmds, Command(p) \/ Step(p) \/ PeriodEnds(p) \/ HardExpires(p)
             PROVE  Kept'
  BY DEF Next, Quiet, vars, filesVars, worldVars, procVars, TypeOK, FileTypes, Cached, Windows,
      Kept, WindowOpen
<1> USE IdentityAssumption DEF Goto, TypeOK, FileTypes, Cached, Windows, Kept, WindowOpen
<1>1. CASE OpSpawn(p)
  BY <1>1 DEF OpSpawn, filesVars, worldVars, procVars
<1>2. CASE OpEnd(p)
  BY <1>2 DEF OpEnd, AfterFetch, filesVars, worldVars, procVars
<1>3. CASE FillGen(p)
  BY <1>3 DEF FillGen, filesVars, worldVars, procVars
<1>4. CASE FillRef(p)
  BY <1>4 DEF FillRef, AfterFetch, filesVars, worldVars, procVars
<1>5. CASE PublishIfCurrent(p)
  BY <1>5 DEF PublishIfCurrent, AfterFetch, WindowOpen, filesVars, worldVars, procVars
<1>6. CASE OnBegin(p)
  BY <1>6 DEF OnBegin, Begin, filesVars, worldVars, procVars
<1>7. CASE OnDecide(p)
  BY <1>7 DEF OnDecide, CacheUsable, WindowOpen, filesVars, worldVars, procVars
<1>8. CASE OnWindow(p)
  BY <1>8 DEF OnWindow, OpenWindow, CacheUsable, WindowOpen, filesVars, worldVars, procVars
<1>9. CASE OnStarted(p)
  BY <1>9 DEF OnStarted, filesVars, worldVars, procVars
<1>10. CASE OnAbort(p)
  BY <1>10 DEF OnAbort, StopEnd, filesVars, worldVars, procVars
<1>11. CASE OffBegin(p)
  BY <1>11 DEF OffBegin, Begin, filesVars, worldVars, procVars
<1>12. CASE OffEnd(p)
  BY <1>12 DEF OffEnd, StopEnd, filesVars, worldVars, procVars
<1>13. CASE Unlock(p)
  BY <1>13 DEF Unlock, Begin, filesVars, worldVars, procVars
<1>14. CASE Lock(p)
  BY <1>14 DEF Lock, Begin, WindowOpen, BumpGen, KillFetch, filesVars, worldVars, procVars
<1>15. CASE OnePasswordOff(p)
  BY <1>15 DEF OnePasswordOff, Begin, WindowOpen, BumpGen, KillFetch, filesVars, worldVars,
      procVars
<1>16. CASE UseBegin(p)
  BY <1>16 DEF UseBegin, Begin, WindowOpen, BumpGen, KillFetch, filesVars, worldVars, procVars
<1>17. CASE ImportBegin(p)
  BY <1>17 DEF ImportBegin, Begin, WindowOpen, filesVars, worldVars, procVars
<1>18. CASE ImportRead(p)
  BY <1>18 DEF ImportRead, filesVars, worldVars, procVars
<1>19. CASE ImportCompare(p)
  BY <1>19 DEF ImportCompare, filesVars, worldVars, procVars
<1>20. CASE SaveItemIds(p)
  BY <1>20 DEF SaveItemIds, Current, WindowOpen, filesVars, worldVars, procVars
<1>21. CASE ImportVerify(p)
  BY <1>21 DEF ImportVerify, filesVars, worldVars, procVars
<1>22. CASE Adopt(p)
  BY <1>22 DEF Adopt, Current, WindowOpen, BumpGen, KillFetch, filesVars, worldVars, procVars
<1>23. CASE ImportDelete(p)
  BY <1>23 DEF ImportDelete, filesVars, worldVars, procVars
<1>24. CASE PeriodEnds(p)
  BY <1>24 DEF PeriodEnds, WindowOpen, filesVars, worldVars, procVars
<1>25. CASE HardExpires(p)
  BY <1>25 DEF HardExpires, filesVars, worldVars, procVars
<1> QED
  BY <1>1, <1>2, <1>3, <1>4, <1>5, <1>6, <1>7, <1>8, <1>9, <1>10, <1>11, <1>12, <1>13, <1>14,
      <1>15, <1>16, <1>17, <1>18, <1>19, <1>20, <1>21, <1>22, <1>23, <1>24, <1>25 DEF Command,
          Step

\* Every step keeps an import's files and its item together, and none takes the files
\* away before an item holds them.
LEMMA HandedStep ==
  ASSUME TypeOK, Flow, Handed, [Next]_vars
  PROVE  Handed' /\ (disk' # disk => \E i \in Items : store[i] = disk)
<1> SUFFICES ASSUME NEW p \in Cmds, Command(p) \/ Step(p) \/ PeriodEnds(p) \/ HardExpires(p)
             PROVE  Handed' /\ (disk' # disk => \E i \in Items : store[i] = disk)
  BY DEF Next, Quiet, vars, filesVars, worldVars, procVars, TypeOK, FileTypes, ProcTypes,
      Handed
<1> USE IdentityAssumption DEF Goto, TypeOK, FileTypes, ProcTypes, Flow, Handed
<1>1. CASE OpSpawn(p)
  BY <1>1 DEF OpSpawn, filesVars, worldVars, procVars
<1>2. CASE OpEnd(p)
  BY <1>2 DEF OpEnd, AfterFetch, filesVars, worldVars, procVars
<1>3. CASE FillGen(p)
  BY <1>3 DEF FillGen, filesVars, worldVars, procVars
<1>4. CASE FillRef(p)
  BY <1>4 DEF FillRef, AfterFetch, filesVars, worldVars, procVars
<1>5. CASE PublishIfCurrent(p)
  BY <1>5 DEF PublishIfCurrent, AfterFetch, WindowOpen, filesVars, worldVars, procVars
<1>6. CASE OnBegin(p)
  BY <1>6 DEF OnBegin, Begin, filesVars, worldVars, procVars
<1>7. CASE OnDecide(p)
  BY <1>7 DEF OnDecide, CacheUsable, WindowOpen, filesVars, worldVars, procVars
<1>8. CASE OnWindow(p)
  BY <1>8 DEF OnWindow, OpenWindow, CacheUsable, WindowOpen, filesVars, worldVars, procVars
<1>9. CASE OnStarted(p)
  BY <1>9 DEF OnStarted, filesVars, worldVars, procVars
<1>10. CASE OnAbort(p)
  BY <1>10 DEF OnAbort, StopEnd, filesVars, worldVars, procVars
<1>11. CASE OffBegin(p)
  BY <1>11 DEF OffBegin, Begin, filesVars, worldVars, procVars
<1>12. CASE OffEnd(p)
  BY <1>12 DEF OffEnd, StopEnd, filesVars, worldVars, procVars
<1>13. CASE Unlock(p)
  BY <1>13 DEF Unlock, Begin, filesVars, worldVars, procVars
<1>14. CASE Lock(p)
  BY <1>14 DEF Lock, Begin, WindowOpen, BumpGen, KillFetch, filesVars, worldVars, procVars
<1>15. CASE OnePasswordOff(p)
  BY <1>15 DEF OnePasswordOff, Begin, WindowOpen, BumpGen, KillFetch, filesVars, worldVars,
      procVars
<1>16. CASE UseBegin(p)
  BY <1>16 DEF UseBegin, Begin, WindowOpen, BumpGen, KillFetch, filesVars, worldVars, procVars
<1>17. CASE ImportBegin(p)
  BY <1>17 DEF ImportBegin, Begin, WindowOpen, filesVars, worldVars, procVars
<1>18. CASE ImportRead(p)
  BY <1>18 DEF ImportRead, filesVars, worldVars, procVars
<1>19. CASE ImportCompare(p)
  BY <1>19 DEF ImportCompare, filesVars, worldVars, procVars
<1>20. CASE SaveItemIds(p)
  BY <1>20 DEF SaveItemIds, Current, WindowOpen, filesVars, worldVars, procVars
<1>21. CASE ImportVerify(p)
  BY <1>21 DEF ImportVerify, filesVars, worldVars, procVars
<1>22. CASE Adopt(p)
  BY <1>22 DEF Adopt, Current, WindowOpen, BumpGen, KillFetch, filesVars, worldVars, procVars
<1>23. CASE ImportDelete(p)
  BY <1>23 DEF ImportDelete, filesVars, worldVars, procVars
<1>24. CASE PeriodEnds(p)
  BY <1>24 DEF PeriodEnds, WindowOpen, filesVars, worldVars, procVars
<1>25. CASE HardExpires(p)
  BY <1>25 DEF HardExpires, filesVars, worldVars, procVars
<1> QED
  BY <1>1, <1>2, <1>3, <1>4, <1>5, <1>6, <1>7, <1>8, <1>9, <1>10, <1>11, <1>12, <1>13, <1>14,
      <1>15, <1>16, <1>17, <1>18, <1>19, <1>20, <1>21, <1>22, <1>23, <1>24, <1>25 DEF Command,
          Step

-----------------------------------------------------------------------------
(* Theorems *)

\* Types and flow together are inductive.
LEMMA TypeFlow == Spec => [](TypeOK /\ Flow)
<1>1. TypeOK /\ Flow /\ [Next]_vars => (TypeOK /\ Flow)'
  BY FileTypesStep, ProcTypesStep, FlowStep DEF TypeOK
<1> QED
  BY IdentityInit, <1>1, PTL DEF Spec

\* Every variable keeps its type (the identity commands of lifecycle.rs).
THEOREM IdentityTyping == Spec => []TypeOK
BY TypeFlow, PTL

\* ChoiceInv is an invariant.
LEMMA Choice == Spec => []ChoiceInv
<1>1. Init => ChoiceInv
  BY IdentityInit DEF ChoiceInv
<1>2. ChoiceInv /\ [Next]_vars => ChoiceInv'
  <2> SUFFICES ASSUME ChoiceInv, [Next]_vars PROVE ChoiceInv'
    OBVIOUS
  <2>1. TypeOK' /\ Flow'
    BY FileTypesStep, ProcTypesStep, FlowStep DEF ChoiceInv, TypeOK
  <2>2. ASSUME ~torn' PROVE Settled' /\ Ordered' /\ CacheIsChosen'
    <3>1. torn' = FALSE
      BY <2>1, <2>2 DEF TypeOK, FileTypes
    <3>2. torn = FALSE
      BY <3>1, TornStep DEF ChoiceInv, TypeOK, FileTypes
    <3> QED
      BY <3>1, <3>2, ChoiceStep DEF ChoiceInv
  <2> QED
    BY <2>1, <2>2 DEF ChoiceInv
<1> QED
  BY <1>1, <1>2, PTL DEF Spec

\* The cache is the configured item's (adopt, save_item_ids, publish_if_current):
\* until a commit is torn, in 1Password mode the cache never holds an
\* identity but the one that the configured item holds.
THEOREM CacheIsChosenAlways == Spec => []CacheIsChosen
<1>1. ChoiceInv => CacheIsChosen
  BY DEF ChoiceInv, CacheIsChosen
<1> QED
  BY Choice, <1>1, PTL

\* The item in 1Password mode is one that was committed to (adopt,
\* save_item_ids), until a commit is torn.
THEOREM ChoiceStandsAlways == Spec => []ChoiceStands
<1>1. ChoiceInv => ChoiceStands
  BY DEF ChoiceInv, Settled, ChoiceStands
<1> QED
  BY Choice, <1>1, PTL

\* What was overtaken is never cached (bump and publish_if_current), whatever
\* fails.
THEOREM NoBarredCacheAlways == Spec => []NoBarredCache
<1>1. Init => NoBarredCache
  BY DEF Init, NoBarredCache
<1>2. TypeOK /\ Flow /\ Overtaken /\ NoBarredCache /\ [Next]_vars => (Overtaken /\ NoBarredCache)'
  BY OvertakenStep
<1> QED
  BY TypeFlow, IdentityInit, <1>1, <1>2, PTL DEF Spec

\* An open window's cache entry stays to its hard expiry (cmd_window,
\* publish_if_current, cmd_stop_end), whatever fails.
THEOREM WindowResolvesAlways == Spec => []WindowResolves
<1>1. TypeOK /\ Kept /\ [Next]_vars => Kept'
  BY KeptStep
<1>2. Kept => WindowResolves
  BY DEF Kept, WindowResolves
<1> QED
  BY TypeFlow, IdentityInit, <1>1, <1>2, PTL DEF Spec

\* import deletes the files on disk only when 1Password holds an identical copy
\* (cmd_import: compare, verify, adopt and the deletion), for any number of imports
\* and whatever overtakes them or fails.
THEOREM FilesKeptAlways == Spec => FilesKept
<1>1. Init => Handed
  BY DEF Init, Handed
<1>2. TypeOK /\ Flow /\ Handed /\ [Next]_vars =>
        Handed' /\ [disk' # disk => \E i \in Items : store[i] = disk]_vars
  BY HandedStep
<1> QED
  BY TypeFlow, <1>1, <1>2, PTL DEF Spec, FilesKept
=============================================================================
