------------------------- MODULE RadioWindowProofs -------------------------
(***************************************************************************)
(* Theorems about RadioWindow, for every set of starts, stops and children  *)
(* and for every choice of crashes, hangs and interrupts.                   *)
(***************************************************************************)
EXTENDS RadioWindow, TLAPS

\* The names of the three kinds of process are processes.
LEMMA ProcTypes ==
  /\ \A s \in Starts : StartProc(s) \in Proc /\ SupProc(s) \in Proc
  /\ \A t \in Stops : StopProc(t) \in Proc
BY DEF Proc, StartProc, SupProc, StopProc

\* The reason in a supervisor's hands makes the type invariant inductive: the
\* `reason` file is written from it.
TypeInv == TypeOK /\ EndingGiven

LEMMA TypeInit == Init => TypeInv
BY DEF Init, TypeInv, TypeOK, EndingGiven, StartPcs, SupPcs, StopPcs

LEMMA TypeStart ==
  ASSUME TypeInv, NEW s \in Starts, StartBegin(s) \/ StartStep(s)
  PROVE  TypeInv'
<1> USE DEF TypeInv, TypeOK, EndingGiven, StartPcs, SupPcs, fileVars, startVars, supVars,
            stopVars, osVars, histVars
<1>p. StartProc(s) \in Proc /\ SupProc(s) \in Proc
  BY ProcTypes
<1>1. CASE StartBegin(s)
  BY <1>1, <1>p, SMTT(60) DEF StartBegin, Goto
<1>2. CASE StartWindowLock(s)
  BY <1>2, <1>p, SMTT(60) DEF StartWindowLock, Goto, Return
<1>3. CASE StartLook(s)
  BY <1>3, <1>p, SMTT(60) DEF StartLook, Goto
<1>4. CASE StartExtend(s)
  BY <1>4, <1>p, SMTT(60) DEF StartExtend, Return
<1>5. CASE StartClosing(s)
  BY <1>5, <1>p, SMTT(60) DEF StartClosing, Goto, Return
<1>6. CASE StartOrphan(s)
  BY <1>6, <1>p, SMTT(60) DEF StartOrphan, Goto, KillOrphanedHook
<1>7. CASE StartTake(s)
  BY <1>7, <1>p, SMTT(60) DEF StartTake, Goto, TakeChildren
<1>8. CASE StartKill(s)
  BY <1>8, <1>p, SMTT(60) DEF StartKill, Goto, KillTaken
<1>9. CASE StartProbe(s)
  BY <1>9, <1>p, SMTT(60) DEF StartProbe, Goto, Return, RunHook
<1>10. CASE StartUp(s)
  BY <1>10, <1>p, SMTT(60) DEF StartUp, Goto, Return, RunHook, HookDone
<1>11. CASE StartCancelHook(s)
  BY <1>11, <1>p, SMTT(60) DEF StartCancelHook, Goto
<1>12. CASE StartHookKilled(s)
  BY <1>12, <1>p, SMTT(60) DEF StartHookKilled, Return, HookDone
<1>13. CASE StartIdentity(s)
  BY <1>13, <1>p, SMTT(60) DEF StartIdentity, Goto, Return, HookDone
<1>14. CASE StartPublish(s)
  BY <1>14, <1>p, SMTT(60) DEF StartPublish, Goto
<1>15. CASE StartToken(s)
  BY <1>15, <1>p, SMTT(60) DEF StartToken, Goto, FailStart, RunHook
<1>16. CASE StartCheck(s)
  BY <1>16, <1>p, SMTT(60) DEF StartCheck, Goto, Return
<1>17. CASE StartSpawn(s)
  BY <1>17, <1>p, SMTT(60) DEF StartSpawn, Goto, FailStart, RunHook
<1>18. CASE StartAwait(s)
  BY <1>18, <1>p, SMTT(60) DEF StartAwait, Goto, Return
<1>19. CASE StartFailSup(s)
  BY <1>19, <1>p, SMTT(60) DEF StartFailSup, Goto, KillSups
<1>20. CASE StartFailUntil(s)
  BY <1>20, <1>p, SMTT(60) DEF StartFailUntil, Goto, FailStart, RunHook
<1>21. CASE StartFailDown(s)
  BY <1>21, <1>p, SMTT(60) DEF StartFailDown, Return, HookDone
<1> QED
  BY <1>1, <1>2, <1>3, <1>4, <1>5, <1>6, <1>7, <1>8, <1>9, <1>10, <1>11, <1>12, <1>13, <1>14, <1>15, <1>16, <1>17, <1>18, <1>19, <1>20, <1>21 DEF StartStep

LEMMA TypeSup ==
  ASSUME TypeInv, NEW s \in Starts, SupStep(s) \/ SupCrash(s)
  PROVE  TypeInv'
<1> USE DEF TypeInv, TypeOK, EndingGiven, StartPcs, SupPcs, fileVars, startVars, supVars,
            stopVars, osVars, histVars
<1>p. StartProc(s) \in Proc /\ SupProc(s) \in Proc
  BY ProcTypes
<1>1. CASE SupToken(s)
  BY <1>1, <1>p, SMTT(60) DEF SupToken, SupGoto
<1>2. CASE SupRecord(s)
  BY <1>2, <1>p, SMTT(60) DEF SupRecord, SupGoto
<1>3. CASE SupSpawn(s)
  <2>1. PICK g \in Tags : /\ children' = children \cup {<<s, g>>}
                          /\ unrecorded' = [unrecorded EXCEPT ![s] = {<<s, g>>}]
    BY <1>3 DEF SupSpawn
  <2>2. <<s, g>> \in Child
    BY DEF Child
  <2> QED
    BY <1>3, <2>1, <2>2, SMTT(60) DEF SupSpawn
<1>4. CASE SupRecordChild(s)
  BY <1>4, <1>p, SMTT(60) DEF SupRecordChild, SupGoto
<1>5. CASE SupEnterLoop(s)
  BY <1>5, <1>p, SMTT(60) DEF SupEnterLoop, SupGoto
<1>6. CASE SupLoop(s)
  BY <1>6, <1>p, SMTT(60) DEF SupLoop, SupGoto, RunHook
<1>7. CASE SupWindowLock(s)
  BY <1>7, <1>p, SMTT(60) DEF SupWindowLock, SupGoto
<1>8. CASE SupRecheck(s)
  BY <1>8, <1>p, SMTT(60) DEF SupRecheck, SupGoto, RunHook, Unlocked
<1>9. CASE SupExpired(s)
  BY <1>9, <1>p, SMTT(60) DEF SupExpired, SupGoto, Unlocked
<1>10. CASE SupTick(s)
  BY <1>10, <1>p, SMTT(60) DEF SupTick, SupGoto, HookDone
<1>11. CASE SupEnd(s)
  BY <1>11, <1>p, SMTT(60) DEF SupEnd, SupGoto, Unlocked
<1>12. CASE SupTake(s)
  BY <1>12, <1>p, SMTT(60) DEF SupTake, SupGoto, TakeChildren
<1>13. CASE SupKill(s)
  BY <1>13, <1>p, SMTT(60) DEF SupKill, SupGoto
<1>14. CASE SupReason(s)
  BY <1>14, <1>p, SMTT(60) DEF SupReason, SupGoto, RunHook
<1>15. CASE SupDown(s)
  BY <1>15, <1>p, SMTT(60) DEF SupDown, SupGoto, HookDone
<1>16. CASE SupUnrecord(s)
  BY <1>16, <1>p, SMTT(60) DEF SupUnrecord, SupGoto
<1>17. CASE SupCrash(s)
  BY <1>17, <1>p, SMTT(60) DEF SupCrash, KillSups
<1> QED
  BY <1>1, <1>2, <1>3, <1>4, <1>5, <1>6, <1>7, <1>8, <1>9, <1>10, <1>11, <1>12, <1>13, <1>14, <1>15, <1>16, <1>17 DEF SupStep

LEMMA TypeStop ==
  ASSUME TypeInv, NEW t \in Stops, StopBegin(t) \/ StopStep(t)
  PROVE  TypeInv'
<1> USE DEF TypeInv, TypeOK, EndingGiven, StopPcs, SupPcs, fileVars, startVars, supVars,
            stopVars, osVars, histVars
<1>p. StopProc(t) \in Proc
  BY ProcTypes
<1>1. CASE StopBegin(t)
  BY <1>1, <1>p, SMTT(60) DEF StopBegin, StopGoto
<1>2. CASE StopWaitStarts(t)
  BY <1>2, <1>p, SMTT(60) DEF StopWaitStarts, StopGoto
<1>3. CASE StopScan(t)
  <2>1. spc' \in [Starts -> SupPcs] /\ EndingGiven'
    BY <1>3 DEF StopScan
  <2>2. scancelled' \in [Starts -> BOOLEAN]
    BY <1>3, Zenon DEF StopScan
  <2>3. /\ tpc' \in [Stops -> StopPcs] /\ tsups' \in [Stops -> SUBSET Starts]
        /\ legacy' \in BOOLEAN
    BY <1>3 DEF StopScan, StopGoto
  <2> QED
    BY <1>3, <2>1, <2>2, <2>3 DEF StopScan
<1>4. CASE StopWaitSups(t)
  BY <1>4, <1>p, SMTT(60) DEF StopWaitSups, StopGoto, KillSups
<1>5. CASE StopOrphan(t)
  BY <1>5, <1>p, SMTT(60) DEF StopOrphan, StopGoto, KillOrphanedHook
<1>6. CASE StopTake(t)
  BY <1>6, <1>p, SMTT(60) DEF StopTake, StopGoto, TakeChildren
<1>7. CASE StopKill(t)
  BY <1>7, <1>p, SMTT(60) DEF StopKill, StopGoto, KillTaken
<1>8. CASE StopUntil(t)
  BY <1>8, <1>p, SMTT(60) DEF StopUntil, StopGoto
<1>9. CASE StopUnset(t)
  BY <1>9, <1>p, SMTT(60) DEF StopUnset, StopGoto, RunHook
<1>10. CASE StopDown(t)
  BY <1>10, <1>p, SMTT(60) DEF StopDown, StopGoto, HookDone
<1>11. CASE StopReason(t)
  BY <1>11, <1>p, SMTT(60) DEF StopReason, StopGoto
<1> QED
  BY <1>1, <1>2, <1>3, <1>4, <1>5, <1>6, <1>7, <1>8, <1>9, <1>10, <1>11 DEF StopStep

LEMMA TypeNext == TypeInv /\ [Next]_vars => TypeInv'
<1> SUFFICES ASSUME TypeInv, [Next]_vars PROVE TypeInv'
  OBVIOUS
<1> USE DEF fileVars, startVars, supVars, stopVars, osVars, histVars
<1>1. CASE \E s \in Starts : StartBegin(s) \/ StartStep(s)
  BY <1>1, TypeStart
<1>2. CASE \E s \in Starts : SupStep(s) \/ SupCrash(s)
  BY <1>2, TypeSup
<1>3. CASE \E t \in Stops : StopBegin(t) \/ StopStep(t)
  BY <1>3, TypeStop
<1>4. CASE \E s \in Starts : Interrupt(s)
  BY <1>4, SMTT(60) DEF Interrupt, TypeInv, TypeOK, EndingGiven
<1>5. CASE DeadlinePasses \/ ChildExits \/ LegacyEnds
  <2>1. CASE DeadlinePasses
    BY <2>1 DEF DeadlinePasses, TypeInv, TypeOK, EndingGiven
  <2>2. CASE ChildExits
    <3>1. children' \subseteq Child
      BY <2>2 DEF ChildExits, TypeInv, TypeOK
    <3> QED
      BY <2>2, <3>1 DEF ChildExits, TypeInv, TypeOK, EndingGiven
  <2>3. CASE LegacyEnds
    <3>1. legacy' \in BOOLEAN
      BY <2>3 DEF LegacyEnds
    <3> QED
      BY <2>3, <3>1 DEF LegacyEnds, TypeInv, TypeOK, EndingGiven
  <2> QED
    BY <1>5, <2>1, <2>2, <2>3
<1>6. CASE UNCHANGED vars
  BY <1>6 DEF vars, TypeInv, TypeOK, EndingGiven
<1> QED
  BY <1>1, <1>2, <1>3, <1>4, <1>5, <1>6 DEF Next, Quiet

\* The state of the run directory, of every process and of the machine keeps
\* its type, and `reason` is always one of the words the backend contract names.
THEOREM Typing == Spec => []TypeOK
<1>1. TypeInv => TypeOK
  BY DEF TypeInv
<1> QED
  BY <1>1, TypeInit, TypeNext, PTL DEF Spec
LEMMA SupervisorStart ==
  ASSUME Serial, TypeInv, SupervisorInv, NEW s \in Starts, StartBegin(s) \/ StartStep(s)
  PROVE  SupervisorInv'
<1> USE DEF SupervisorInv, OneSupervisor, StartRunning, SupRunning, StopRunning, Opening,
            PastStarts, PastSups, fileVars, startVars, supVars, stopVars, osVars, histVars
<1>p. /\ supFile \in Starts \cup {None} /\ pc \in [Starts -> StartPcs]
      /\ cancelled \in [Starts -> BOOLEAN] /\ closing \in [Starts -> Starts \cup {None}]
      /\ spc \in [Starts -> SupPcs] /\ tpc \in [Stops -> StopPcs]
      /\ tstarts \in [Stops -> SUBSET Starts] /\ tsups \in [Stops -> SUBSET Starts]
      /\ startLock \in Starts \cup {None} /\ None \notin Starts
  BY RadioAssumption DEF TypeInv, TypeOK
<1>1. CASE StartBegin(s)
  BY <1>1, <1>p, SMTT(60) DEF StartBegin, Goto
<1>2. CASE StartWindowLock(s)
  BY <1>2, <1>p, SMTT(60) DEF StartWindowLock, Goto, Return
<1>3. CASE StartLook(s)
  BY <1>3, <1>p, SMTT(60) DEF StartLook, Goto, SupervisorAlive
<1>4. CASE StartExtend(s)
  BY <1>4, <1>p, SMTT(60) DEF StartExtend, Return
<1>5. CASE StartClosing(s)
  BY <1>5, <1>p, SMTT(60) DEF StartClosing, Goto, Return
<1>6. CASE StartOrphan(s)
  BY <1>6, <1>p, SMTT(60) DEF StartOrphan, Goto, KillOrphanedHook
<1>7. CASE StartTake(s)
  BY <1>7, <1>p, SMTT(60) DEF StartTake, Goto
<1>8. CASE StartKill(s)
  BY <1>8, <1>p, SMTT(60) DEF StartKill, Goto
<1>9. CASE StartProbe(s)
  BY <1>9, <1>p, SMTT(60) DEF StartProbe, Goto, Return, RunHook
<1>10. CASE StartUp(s)
  BY <1>10, <1>p, SMTT(60) DEF StartUp, Goto, Return, RunHook, HookDone
<1>11. CASE StartCancelHook(s)
  BY <1>11, <1>p, SMTT(60) DEF StartCancelHook, Goto
<1>12. CASE StartHookKilled(s)
  BY <1>12, <1>p, SMTT(60) DEF StartHookKilled, Return
<1>13. CASE StartIdentity(s)
  BY <1>13, <1>p, SMTT(60) DEF StartIdentity, Goto, Return
<1>14. CASE StartPublish(s)
  BY <1>14, <1>p, SMTT(60) DEF StartPublish, Goto
<1>15. CASE StartToken(s)
  BY <1>15, <1>p, SMTT(60) DEF StartToken, Goto, FailStart, RunHook
<1>16. CASE StartCheck(s)
  BY <1>16, <1>p, SMTT(60) DEF StartCheck, Goto, Return
<1>17. CASE StartSpawn(s)
  BY <1>17, <1>p, SMTT(60) DEF StartSpawn, Goto, FailStart, RunHook
<1>18. CASE StartAwait(s)
  BY <1>18, <1>p, SMTT(60) DEF StartAwait, Goto, Return, SupervisorAlive
<1>19. CASE StartFailSup(s)
  BY <1>19, <1>p, SMTT(60) DEF StartFailSup, Goto, KillSups
<1>20. CASE StartFailUntil(s)
  BY <1>20, <1>p, SMTT(60) DEF StartFailUntil, Goto, FailStart
<1>21. CASE StartFailDown(s)
  BY <1>21, <1>p, SMTT(60) DEF StartFailDown, Return
<1> QED
  BY <1>1, <1>2, <1>3, <1>4, <1>5, <1>6, <1>7, <1>8, <1>9, <1>10, <1>11, <1>12, <1>13, <1>14, <1>15, <1>16, <1>17, <1>18, <1>19, <1>20, <1>21 DEF StartStep

LEMMA SupervisorSup ==
  ASSUME TypeInv, SupervisorInv, NEW s \in Starts, SupStep(s) \/ SupCrash(s)
  PROVE  SupervisorInv'
<1> USE DEF SupervisorInv, OneSupervisor, StartRunning, SupRunning, StopRunning, Opening,
            PastStarts, PastSups, fileVars, startVars, supVars, stopVars, osVars, histVars
<1>p. /\ supFile \in Starts \cup {None} /\ pc \in [Starts -> StartPcs]
      /\ cancelled \in [Starts -> BOOLEAN] /\ closing \in [Starts -> Starts \cup {None}]
      /\ spc \in [Starts -> SupPcs] /\ tpc \in [Stops -> StopPcs]
      /\ tstarts \in [Stops -> SUBSET Starts] /\ tsups \in [Stops -> SUBSET Starts]
      /\ startLock \in Starts \cup {None} /\ None \notin Starts
  BY RadioAssumption DEF TypeInv, TypeOK
<1>1. CASE SupToken(s)
  BY <1>1, <1>p, SMTT(60) DEF SupToken, SupGoto
<1>2. CASE SupRecord(s)
  BY <1>2, <1>p, SMTT(60) DEF SupRecord, SupGoto
<1>3. CASE SupSpawn(s)
  BY <1>3, <1>p, SMTT(60) DEF SupSpawn
<1>4. CASE SupRecordChild(s)
  BY <1>4, <1>p, SMTT(60) DEF SupRecordChild, SupGoto
<1>5. CASE SupEnterLoop(s)
  BY <1>5, <1>p, SMTT(60) DEF SupEnterLoop, SupGoto
<1>6. CASE SupLoop(s)
  BY <1>6, <1>p, SMTT(60) DEF SupLoop, SupGoto, RunHook
<1>7. CASE SupWindowLock(s)
  BY <1>7, <1>p, SMTT(60) DEF SupWindowLock, SupGoto
<1>8. CASE SupRecheck(s)
  BY <1>8, <1>p, SMTT(60) DEF SupRecheck, SupGoto, RunHook
<1>9. CASE SupExpired(s)
  BY <1>9, <1>p, SMTT(60) DEF SupExpired, SupGoto
<1>10. CASE SupTick(s)
  BY <1>10, <1>p, SMTT(60) DEF SupTick, SupGoto
<1>11. CASE SupEnd(s)
  BY <1>11, <1>p, SMTT(60) DEF SupEnd, SupGoto
<1>12. CASE SupTake(s)
  BY <1>12, <1>p, SMTT(60) DEF SupTake, SupGoto
<1>13. CASE SupKill(s)
  BY <1>13, <1>p, SMTT(60) DEF SupKill, SupGoto
<1>14. CASE SupReason(s)
  BY <1>14, <1>p, SMTT(60) DEF SupReason, SupGoto, RunHook
<1>15. CASE SupDown(s)
  BY <1>15, <1>p, SMTT(60) DEF SupDown, SupGoto
<1>16. CASE SupUnrecord(s)
  BY <1>16, <1>p, SMTT(60) DEF SupUnrecord, SupGoto
<1>17. CASE SupCrash(s)
  BY <1>17, <1>p, SMTT(60) DEF SupCrash, KillSups
<1> QED
  BY <1>1, <1>2, <1>3, <1>4, <1>5, <1>6, <1>7, <1>8, <1>9, <1>10, <1>11, <1>12, <1>13, <1>14, <1>15, <1>16, <1>17 DEF SupStep

LEMMA SupervisorStop ==
  ASSUME TypeInv, SupervisorInv, NEW t \in Stops, StopBegin(t) \/ StopStep(t)
  PROVE  SupervisorInv'
<1> USE DEF SupervisorInv, OneSupervisor, StartRunning, SupRunning, StopRunning, Opening,
            PastStarts, PastSups, fileVars, startVars, supVars, stopVars, osVars, histVars
<1>p. /\ supFile \in Starts \cup {None} /\ pc \in [Starts -> StartPcs]
      /\ cancelled \in [Starts -> BOOLEAN] /\ closing \in [Starts -> Starts \cup {None}]
      /\ spc \in [Starts -> SupPcs] /\ tpc \in [Stops -> StopPcs]
      /\ tstarts \in [Stops -> SUBSET Starts] /\ tsups \in [Stops -> SUBSET Starts]
      /\ startLock \in Starts \cup {None} /\ None \notin Starts
  BY RadioAssumption DEF TypeInv, TypeOK
<1>1. CASE StopBegin(t)
  <2>1. \A s \in Starts : StartRunning(s) => cancelled'[s] /\ s \in tstarts'[t]
    BY <1>1, <1>p DEF StopBegin
  <2>2. \A s \in Starts : cancelled[s] => cancelled'[s]
    BY <1>1, <1>p DEF StopBegin
  <2>3. /\ tpc[t] = "idle" /\ tpc' = [tpc EXCEPT ![t] = "starts"]
        /\ \A u \in Stops \ {t} : tstarts'[u] = tstarts[u]
        /\ UNCHANGED <<pc, startLock, supFile, closing, spc, tsups>>
    BY <1>1, <1>p DEF StopBegin, StopGoto
  <2> QED
    BY <1>p, <2>1, <2>2, <2>3
<1>2. CASE StopWaitStarts(t)
  BY <1>2, <1>p, SMTT(60) DEF StopWaitStarts, StopGoto, SlowStart
<1>3. CASE StopScan(t)
  BY <1>3, <1>p, SMTT(60) DEF StopScan, StopGoto
<1>4. CASE StopWaitSups(t)
  BY <1>4, <1>p, SMTT(60) DEF StopWaitSups, StopGoto, KillSups
<1>5. CASE StopOrphan(t)
  BY <1>5, <1>p, SMTT(60) DEF StopOrphan, StopGoto
<1>6. CASE StopTake(t)
  BY <1>6, <1>p, SMTT(60) DEF StopTake, StopGoto
<1>7. CASE StopKill(t)
  BY <1>7, <1>p, SMTT(60) DEF StopKill, StopGoto
<1>8. CASE StopUntil(t)
  BY <1>8, <1>p, SMTT(60) DEF StopUntil, StopGoto
<1>9. CASE StopUnset(t)
  BY <1>9, <1>p, SMTT(60) DEF StopUnset, StopGoto
<1>10. CASE StopDown(t)
  BY <1>10, <1>p, SMTT(60) DEF StopDown, StopGoto
<1>11. CASE StopReason(t)
  BY <1>11, <1>p, SMTT(60) DEF StopReason, StopGoto
<1> QED
  BY <1>1, <1>2, <1>3, <1>4, <1>5, <1>6, <1>7, <1>8, <1>9, <1>10, <1>11 DEF StopStep

LEMMA SupervisorNext ==
  ASSUME Serial, TypeInv, SupervisorInv, [Next]_vars
  PROVE  SupervisorInv'
<1> USE DEF fileVars, startVars, supVars, stopVars, osVars, histVars
<1>1. CASE \E s \in Starts : StartBegin(s) \/ StartStep(s)
  BY <1>1, SupervisorStart
<1>2. CASE \E s \in Starts : SupStep(s) \/ SupCrash(s)
  BY <1>2, SupervisorSup
<1>3. CASE \E t \in Stops : StopBegin(t) \/ StopStep(t)
  BY <1>3, SupervisorStop
<1>4. CASE \E s \in Starts : Interrupt(s)
  BY <1>4 DEF Interrupt, TypeInv, TypeOK, SupervisorInv, OneSupervisor, StartRunning,
              SupRunning, StopRunning
<1>5. CASE DeadlinePasses \/ ChildExits \/ LegacyEnds \/ UNCHANGED vars
  BY <1>5 DEF DeadlinePasses, ChildExits, LegacyEnds, vars, SupervisorInv, OneSupervisor,
              StartRunning, SupRunning, StopRunning
<1> QED
  BY <1>1, <1>2, <1>3, <1>4, <1>5 DEF Next, Quiet

\* The argument for one supervisor is an invariant of the window.
THEOREM SupervisorInvariant ==
  ASSUME Serial PROVE Spec => []SupervisorInv
<1>1. Init => SupervisorInv
  BY DEF Init, SupervisorInv, OneSupervisor, StartRunning, SupRunning, StopRunning, Opening,
         PastStarts, PastSups
<1>2. TypeInv /\ SupervisorInv /\ [Next]_vars => SupervisorInv'
  BY SupervisorNext
<1> QED
  BY <1>1, <1>2, TypeInit, TypeNext, PTL DEF Spec

\* As long as no start begins under a stop, two supervisors are never alive at
\* once, however many presses there are and whatever crashes, hangs or is
\* interrupted.
THEOREM OneSupervisorAlways ==
  ASSUME Serial PROVE Spec => []OneSupervisor
<1>1. SupervisorInv => OneSupervisor
  BY DEF SupervisorInv
<1> QED
  BY <1>1, SupervisorInvariant, PTL

-----------------------------------------------------------------------------
(* The radio. *)

Failing == {"failtake", "failkill", "failuntil", "faildown"}

\* Why a hook that works the radio is alone: a start that waits for its supervisor
\* meets no other one, a start that undoes its own meets none, and a stop that has
\* waited for the starts meets only those that wait or undo.
AloneInv ==
  /\ \A r, s \in Starts : SupRunning(s) /\ pc[r] \in {"await", "failsup"} => s = r
  /\ \A r, s \in Starts : pc[r] \in Failing => ~SupRunning(s)
  /\ "hang" \notin may =>
       \A t \in Stops, s \in Starts : tpc[t] \in PastStarts /\ StartRunning(s) => pc[s] \in SlowStart

LEMMA AloneStart ==
  ASSUME Serial, TypeInv, SupervisorInv, AloneInv, NEW s \in Starts, StartBegin(s) \/ StartStep(s)
  PROVE  AloneInv'
<1> USE DEF AloneInv, SupervisorInv, OneSupervisor, Failing, StartRunning, SupRunning, StopRunning,
            Opening, PastStarts, SlowStart, fileVars, startVars, supVars, stopVars, osVars, histVars
<1>p. /\ pc \in [Starts -> StartPcs] /\ spc \in [Starts -> SupPcs] /\ tpc \in [Stops -> StopPcs]
      /\ cancelled \in [Starts -> BOOLEAN] /\ tstarts \in [Stops -> SUBSET Starts]
      /\ startLock \in Starts \cup {None} /\ None \notin Starts
  BY RadioAssumption DEF TypeInv, TypeOK
<1>1. CASE StartBegin(s)
  BY <1>1, <1>p, SMTT(60) DEF StartBegin, Goto
<1>2. CASE StartWindowLock(s)
  BY <1>2, <1>p, SMTT(60) DEF StartWindowLock, Goto, Return
<1>3. CASE StartLook(s)
  BY <1>3, <1>p, SMTT(60) DEF StartLook, Goto, SupervisorAlive
<1>4. CASE StartExtend(s)
  BY <1>4, <1>p, SMTT(60) DEF StartExtend, Return
<1>5. CASE StartClosing(s)
  BY <1>5, <1>p, SMTT(60) DEF StartClosing, Goto, Return
<1>6. CASE StartOrphan(s)
  BY <1>6, <1>p, SMTT(60) DEF StartOrphan, Goto, KillOrphanedHook
<1>7. CASE StartTake(s)
  BY <1>7, <1>p, SMTT(60) DEF StartTake, Goto
<1>8. CASE StartKill(s)
  BY <1>8, <1>p, SMTT(60) DEF StartKill, Goto
<1>9. CASE StartProbe(s)
  BY <1>9, <1>p, SMTT(60) DEF StartProbe, Goto, Return, RunHook
<1>10. CASE StartUp(s)
  BY <1>10, <1>p, SMTT(60) DEF StartUp, Goto, Return, RunHook, HookDone
<1>11. CASE StartCancelHook(s)
  BY <1>11, <1>p, SMTT(60) DEF StartCancelHook, Goto
<1>12. CASE StartHookKilled(s)
  BY <1>12, <1>p, SMTT(60) DEF StartHookKilled, Return
<1>13. CASE StartIdentity(s)
  BY <1>13, <1>p, SMTT(60) DEF StartIdentity, Goto, Return
<1>14. CASE StartPublish(s)
  BY <1>14, <1>p, SMTT(60) DEF StartPublish, Goto
<1>15. CASE StartToken(s)
  BY <1>15, <1>p, SMTT(60) DEF StartToken, Goto, FailStart, RunHook
<1>16. CASE StartCheck(s)
  BY <1>16, <1>p, SMTT(60) DEF StartCheck, Goto, Return
<1>17. CASE StartSpawn(s)
  BY <1>17, <1>p, SMTT(60) DEF StartSpawn, Goto, FailStart, RunHook
<1>18. CASE StartAwait(s)
  BY <1>18, <1>p, SMTT(60) DEF StartAwait, Goto, Return, SupervisorAlive
<1>19. CASE StartFailSup(s)
  BY <1>19, <1>p, SMTT(60) DEF StartFailSup, Goto, KillSups
<1>20. CASE StartFailUntil(s)
  BY <1>20, <1>p, SMTT(60) DEF StartFailUntil, Goto, FailStart
<1>21. CASE StartFailDown(s)
  BY <1>21, <1>p, SMTT(60) DEF StartFailDown, Return
<1> QED
  BY <1>1, <1>2, <1>3, <1>4, <1>5, <1>6, <1>7, <1>8, <1>9, <1>10, <1>11, <1>12, <1>13,
     <1>14, <1>15, <1>16, <1>17, <1>18, <1>19, <1>20, <1>21 DEF StartStep

LEMMA AloneSup ==
  ASSUME TypeInv, SupervisorInv, AloneInv, NEW s \in Starts, SupStep(s) \/ SupCrash(s)
  PROVE  AloneInv'
<1> USE DEF AloneInv, SupervisorInv, OneSupervisor, Failing, StartRunning, SupRunning, StopRunning,
            Opening, PastStarts, SlowStart, fileVars, startVars, supVars, stopVars, osVars, histVars
<1>p. /\ pc \in [Starts -> StartPcs] /\ spc \in [Starts -> SupPcs] /\ tpc \in [Stops -> StopPcs]
      /\ cancelled \in [Starts -> BOOLEAN] /\ tstarts \in [Stops -> SUBSET Starts]
      /\ startLock \in Starts \cup {None} /\ None \notin Starts
  BY RadioAssumption DEF TypeInv, TypeOK
<1>1. CASE SupToken(s)
  BY <1>1, <1>p, SMTT(60) DEF SupToken, SupGoto
<1>2. CASE SupRecord(s)
  BY <1>2, <1>p, SMTT(60) DEF SupRecord, SupGoto
<1>3. CASE SupSpawn(s)
  BY <1>3, <1>p, SMTT(60) DEF SupSpawn
<1>4. CASE SupRecordChild(s)
  BY <1>4, <1>p, SMTT(60) DEF SupRecordChild, SupGoto
<1>5. CASE SupEnterLoop(s)
  BY <1>5, <1>p, SMTT(60) DEF SupEnterLoop, SupGoto
<1>6. CASE SupLoop(s)
  BY <1>6, <1>p, SMTT(60) DEF SupLoop, SupGoto, RunHook
<1>7. CASE SupWindowLock(s)
  BY <1>7, <1>p, SMTT(60) DEF SupWindowLock, SupGoto
<1>8. CASE SupRecheck(s)
  BY <1>8, <1>p, SMTT(60) DEF SupRecheck, SupGoto, RunHook
<1>9. CASE SupExpired(s)
  BY <1>9, <1>p, SMTT(60) DEF SupExpired, SupGoto
<1>10. CASE SupTick(s)
  BY <1>10, <1>p, SMTT(60) DEF SupTick, SupGoto
<1>11. CASE SupEnd(s)
  BY <1>11, <1>p, SMTT(60) DEF SupEnd, SupGoto
<1>12. CASE SupTake(s)
  BY <1>12, <1>p, SMTT(60) DEF SupTake, SupGoto
<1>13. CASE SupKill(s)
  BY <1>13, <1>p, SMTT(60) DEF SupKill, SupGoto
<1>14. CASE SupReason(s)
  BY <1>14, <1>p, SMTT(60) DEF SupReason, SupGoto, RunHook
<1>15. CASE SupDown(s)
  BY <1>15, <1>p, SMTT(60) DEF SupDown, SupGoto
<1>16. CASE SupUnrecord(s)
  BY <1>16, <1>p, SMTT(60) DEF SupUnrecord, SupGoto
<1>17. CASE SupCrash(s)
  BY <1>17, <1>p, SMTT(60) DEF SupCrash, KillSups
<1> QED
  BY <1>1, <1>2, <1>3, <1>4, <1>5, <1>6, <1>7, <1>8, <1>9, <1>10, <1>11, <1>12, <1>13,
     <1>14, <1>15, <1>16, <1>17 DEF SupStep

LEMMA AloneStop ==
  ASSUME TypeInv, SupervisorInv, AloneInv, NEW t \in Stops, StopBegin(t) \/ StopStep(t)
  PROVE  AloneInv'
<1> USE DEF AloneInv, SupervisorInv, OneSupervisor, Failing, StartRunning, SupRunning, StopRunning,
            Opening, PastStarts, SlowStart, fileVars, startVars, supVars, stopVars, osVars, histVars
<1>p. /\ pc \in [Starts -> StartPcs] /\ spc \in [Starts -> SupPcs] /\ tpc \in [Stops -> StopPcs]
      /\ cancelled \in [Starts -> BOOLEAN] /\ tstarts \in [Stops -> SUBSET Starts]
      /\ startLock \in Starts \cup {None} /\ None \notin Starts
  BY RadioAssumption DEF TypeInv, TypeOK
<1>1. CASE StopBegin(t)
  BY <1>1, <1>p, SMTT(60) DEF StopBegin, StopGoto
<1>2. CASE StopWaitStarts(t)
  BY <1>2, <1>p, SMTT(60) DEF StopWaitStarts, StopGoto, SlowStart
<1>3. CASE StopScan(t)
  BY <1>3, <1>p, SMTT(60) DEF StopScan, StopGoto
<1>4. CASE StopWaitSups(t)
  BY <1>4, <1>p, SMTT(60) DEF StopWaitSups, StopGoto, KillSups
<1>5. CASE StopOrphan(t)
  BY <1>5, <1>p, SMTT(60) DEF StopOrphan, StopGoto
<1>6. CASE StopTake(t)
  BY <1>6, <1>p, SMTT(60) DEF StopTake, StopGoto
<1>7. CASE StopKill(t)
  BY <1>7, <1>p, SMTT(60) DEF StopKill, StopGoto
<1>8. CASE StopUntil(t)
  BY <1>8, <1>p, SMTT(60) DEF StopUntil, StopGoto
<1>9. CASE StopUnset(t)
  BY <1>9, <1>p, SMTT(60) DEF StopUnset, StopGoto
<1>10. CASE StopDown(t)
  BY <1>10, <1>p, SMTT(60) DEF StopDown, StopGoto
<1>11. CASE StopReason(t)
  BY <1>11, <1>p, SMTT(60) DEF StopReason, StopGoto
<1> QED
  BY <1>1, <1>2, <1>3, <1>4, <1>5, <1>6, <1>7, <1>8, <1>9, <1>10, <1>11 DEF StopStep

LEMMA AloneNext ==
  ASSUME Serial, TypeInv, SupervisorInv, AloneInv, [Next]_vars
  PROVE  AloneInv'
<1> USE DEF fileVars, startVars, supVars, stopVars, osVars, histVars
<1>1. CASE \E s \in Starts : StartBegin(s) \/ StartStep(s)
  BY <1>1, AloneStart
<1>2. CASE \E s \in Starts : SupStep(s) \/ SupCrash(s)
  BY <1>2, AloneSup
<1>3. CASE \E t \in Stops : StopBegin(t) \/ StopStep(t)
  BY <1>3, AloneStop
<1>4. CASE DeadlinePasses \/ ChildExits \/ LegacyEnds \/ (\E s \in Starts : Interrupt(s)) \/ UNCHANGED vars
  BY <1>4 DEF DeadlinePasses, ChildExits, LegacyEnds, Interrupt, vars, AloneInv, StartRunning, SupRunning,
              SlowStart
<1> QED
  BY <1>1, <1>2, <1>3, <1>4 DEF Next, Quiet

\* As long as no start begins under a stop and no wait runs out, `up`, `identity`
\* and `tick` have the radio to themselves: no other hook runs beside one of them,
\* whatever crashes or is interrupted.
THEOREM RadioAloneAlways ==
  ASSUME Serial PROVE Spec => []RadioAlone
<1>1. Init => AloneInv
  BY DEF Init, AloneInv, StartRunning, SupRunning, Failing, PastStarts
<1>2. TypeInv /\ SupervisorInv /\ AloneInv /\ [Next]_vars => AloneInv'
  BY AloneNext
<1>3. SupervisorInv /\ AloneInv => RadioAlone
  <2> SUFFICES ASSUME SupervisorInv, AloneInv, "hang" \notin may, NEW p \in hooks \cap Working,
                      NEW q \in hooks \cap (Working \cup Undoing)
               PROVE  q = p
    BY DEF RadioAlone
  <2>1. CASE \E s \in Starts : p = StartProc(s) /\ pc[s] \in {"up", "upkill", "identity", "idkill"}
    <3>1. PICK s \in Starts : p = StartProc(s) /\ pc[s] \in {"up", "upkill", "identity", "idkill"}
      BY <2>1
    <3>2. /\ \A r \in Starts : ~SupRunning(r)
          /\ \A r \in Starts : StartRunning(r) => r = s
          /\ \A t \in Stops : tpc[t] \notin PastStarts
      BY <3>1 DEF SupervisorInv, AloneInv, Opening, StartRunning, SlowStart
    <3> QED
      BY <3>1, <3>2 DEF Working, Undoing, SupRunning, StartRunning, PastStarts
  <2>2. CASE \E s \in Starts : p = SupProc(s) /\ spc[s] = "tick"
    <3>1. PICK s \in Starts : p = SupProc(s) /\ spc[s] = "tick"
      BY <2>2
    <3>2. /\ \A r \in Starts : SupRunning(r) => r = s
          /\ \A r \in Starts : pc[r] \notin Opening \cup Failing
          /\ \A t \in Stops : tpc[t] \notin PastSups
      BY <3>1 DEF SupervisorInv, OneSupervisor, AloneInv, SupRunning
    <3> QED
      BY <3>1, <3>2 DEF Working, Undoing, SupRunning, Opening, Failing, PastSups
  <2> QED
    BY <2>1, <2>2 DEF Working
<1> QED
  BY <1>1, <1>2, <1>3, TypeInit, TypeNext, SupervisorInvariant, PTL DEF Spec

-----------------------------------------------------------------------------
(* The deadline. *)

\* Why an expiry never removes a deadline that was moved: whoever moves it under
\* window.lock, or finds it past under window.lock, has the lock.
LockInv ==
  /\ \A s \in Starts : pc[s] \in {"look", "extend"} => windowLock = StartProc(s)
  /\ "hang" \notin may =>
       \A s \in Starts :
         /\ spc[s] \in {"recheck", "expired", "end"} => windowLock = SupProc(s)
         /\ spc[s] = "expired" => ~UntilLive

LEMMA DistinctProcs ==
  \A r, u \in Starts :
    /\ StartProc(r) # SupProc(u) /\ SupProc(r) # None /\ StartProc(r) # None
    /\ StartProc(r) = StartProc(u) => r = u
    /\ SupProc(r) = SupProc(u) => r = u
BY RadioAssumption DEF StartProc, SupProc

LEMMA LockStart ==
  ASSUME TypeInv, SupervisorInv, LockInv, NEW s \in Starts, StartBegin(s) \/ StartStep(s)
  PROVE  LockInv'
<1> USE DEF LockInv, SupervisorInv, SupRunning, Opening, UntilLive, Unlocked,
            fileVars, startVars, supVars, stopVars, osVars, histVars
<1>p. /\ pc \in [Starts -> StartPcs] /\ spc \in [Starts -> SupPcs]
      /\ \A r, u \in Starts : StartProc(r) # SupProc(u) /\ SupProc(r) # None /\ StartProc(r) # None
      /\ \A r, u \in Starts : (StartProc(r) = StartProc(u) => r = u) /\ (SupProc(r) = SupProc(u) => r = u)
  BY DistinctProcs DEF TypeInv, TypeOK
<1>1. CASE StartBegin(s)
  BY <1>1, <1>p, SMTT(60) DEF StartBegin, Goto
<1>2. CASE StartWindowLock(s)
  BY <1>2, <1>p, SMTT(60) DEF StartWindowLock, Goto, Return
<1>3. CASE StartLook(s)
  BY <1>3, <1>p, SMTT(60) DEF StartLook, Goto, SupervisorAlive
<1>4. CASE StartExtend(s)
  BY <1>4, <1>p, SMTT(60) DEF StartExtend, Return
<1>5. CASE StartClosing(s)
  BY <1>5, <1>p, SMTT(60) DEF StartClosing, Goto, Return
<1>6. CASE StartOrphan(s)
  BY <1>6, <1>p, SMTT(60) DEF StartOrphan, Goto, KillOrphanedHook
<1>7. CASE StartTake(s)
  BY <1>7, <1>p, SMTT(60) DEF StartTake, Goto
<1>8. CASE StartKill(s)
  BY <1>8, <1>p, SMTT(60) DEF StartKill, Goto
<1>9. CASE StartProbe(s)
  BY <1>9, <1>p, SMTT(60) DEF StartProbe, Goto, Return, RunHook
<1>10. CASE StartUp(s)
  BY <1>10, <1>p, SMTT(60) DEF StartUp, Goto, Return, RunHook, HookDone
<1>11. CASE StartCancelHook(s)
  BY <1>11, <1>p, SMTT(60) DEF StartCancelHook, Goto
<1>12. CASE StartHookKilled(s)
  BY <1>12, <1>p, SMTT(60) DEF StartHookKilled, Return
<1>13. CASE StartIdentity(s)
  BY <1>13, <1>p, SMTT(60) DEF StartIdentity, Goto, Return
<1>14. CASE StartPublish(s)
  BY <1>14, <1>p, SMTT(60) DEF StartPublish, Goto
<1>15. CASE StartToken(s)
  BY <1>15, <1>p, SMTT(60) DEF StartToken, Goto, FailStart, RunHook
<1>16. CASE StartCheck(s)
  BY <1>16, <1>p, SMTT(60) DEF StartCheck, Goto, Return
<1>17. CASE StartSpawn(s)
  BY <1>17, <1>p, SMTT(60) DEF StartSpawn, Goto, FailStart, RunHook
<1>18. CASE StartAwait(s)
  BY <1>18, <1>p, SMTT(60) DEF StartAwait, Goto, Return, SupervisorAlive
<1>19. CASE StartFailSup(s)
  BY <1>19, <1>p, SMTT(60) DEF StartFailSup, Goto, KillSups
<1>20. CASE StartFailUntil(s)
  BY <1>20, <1>p, SMTT(60) DEF StartFailUntil, Goto, FailStart
<1>21. CASE StartFailDown(s)
  BY <1>21, <1>p, SMTT(60) DEF StartFailDown, Return
<1> QED
  BY <1>1, <1>2, <1>3, <1>4, <1>5, <1>6, <1>7, <1>8, <1>9, <1>10, <1>11, <1>12, <1>13,
     <1>14, <1>15, <1>16, <1>17, <1>18, <1>19, <1>20, <1>21 DEF StartStep

LEMMA LockSup ==
  ASSUME TypeInv, SupervisorInv, LockInv, NEW s \in Starts, SupStep(s) \/ SupCrash(s)
  PROVE  LockInv'
<1> USE DEF LockInv, SupervisorInv, SupRunning, Opening, UntilLive, Unlocked,
            fileVars, startVars, supVars, stopVars, osVars, histVars
<1>p. /\ pc \in [Starts -> StartPcs] /\ spc \in [Starts -> SupPcs]
      /\ \A r, u \in Starts : StartProc(r) # SupProc(u) /\ SupProc(r) # None /\ StartProc(r) # None
      /\ \A r, u \in Starts : (StartProc(r) = StartProc(u) => r = u) /\ (SupProc(r) = SupProc(u) => r = u)
  BY DistinctProcs DEF TypeInv, TypeOK
<1>1. CASE SupToken(s)
  BY <1>1, <1>p, SMTT(60) DEF SupToken, SupGoto
<1>2. CASE SupRecord(s)
  BY <1>2, <1>p, SMTT(60) DEF SupRecord, SupGoto
<1>3. CASE SupSpawn(s)
  BY <1>3, <1>p, SMTT(60) DEF SupSpawn
<1>4. CASE SupRecordChild(s)
  BY <1>4, <1>p, SMTT(60) DEF SupRecordChild, SupGoto
<1>5. CASE SupEnterLoop(s)
  BY <1>5, <1>p, SMTT(60) DEF SupEnterLoop, SupGoto
<1>6. CASE SupLoop(s)
  BY <1>6, <1>p, SMTT(60) DEF SupLoop, SupGoto, RunHook
<1>7. CASE SupWindowLock(s)
  BY <1>7, <1>p, SMTT(60) DEF SupWindowLock, SupGoto
<1>8. CASE SupRecheck(s)
  BY <1>8, <1>p, SMTT(60) DEF SupRecheck, SupGoto, RunHook
<1>9. CASE SupExpired(s)
  BY <1>9, <1>p, SMTT(60) DEF SupExpired, SupGoto
<1>10. CASE SupTick(s)
  BY <1>10, <1>p, SMTT(60) DEF SupTick, SupGoto
<1>11. CASE SupEnd(s)
  BY <1>11, <1>p, SMTT(60) DEF SupEnd, SupGoto
<1>12. CASE SupTake(s)
  BY <1>12, <1>p, SMTT(60) DEF SupTake, SupGoto
<1>13. CASE SupKill(s)
  BY <1>13, <1>p, SMTT(60) DEF SupKill, SupGoto
<1>14. CASE SupReason(s)
  BY <1>14, <1>p, SMTT(60) DEF SupReason, SupGoto, RunHook
<1>15. CASE SupDown(s)
  BY <1>15, <1>p, SMTT(60) DEF SupDown, SupGoto
<1>16. CASE SupUnrecord(s)
  BY <1>16, <1>p, SMTT(60) DEF SupUnrecord, SupGoto
<1>17. CASE SupCrash(s)
  BY <1>17, <1>p, SMTT(60) DEF SupCrash, KillSups
<1> QED
  BY <1>1, <1>2, <1>3, <1>4, <1>5, <1>6, <1>7, <1>8, <1>9, <1>10, <1>11, <1>12, <1>13,
     <1>14, <1>15, <1>16, <1>17 DEF SupStep

LEMMA LockStop ==
  ASSUME TypeInv, SupervisorInv, LockInv, NEW t \in Stops, StopBegin(t) \/ StopStep(t)
  PROVE  LockInv'
<1> USE DEF LockInv, SupervisorInv, SupRunning, Opening, UntilLive, Unlocked,
            fileVars, startVars, supVars, stopVars, osVars, histVars
<1>p. /\ pc \in [Starts -> StartPcs] /\ spc \in [Starts -> SupPcs]
      /\ \A r, u \in Starts : StartProc(r) # SupProc(u) /\ SupProc(r) # None /\ StartProc(r) # None
      /\ \A r, u \in Starts : (StartProc(r) = StartProc(u) => r = u) /\ (SupProc(r) = SupProc(u) => r = u)
  BY DistinctProcs DEF TypeInv, TypeOK
<1>1. CASE StopBegin(t)
  BY <1>1, <1>p, SMTT(60) DEF StopBegin, StopGoto
<1>2. CASE StopWaitStarts(t)
  BY <1>2, <1>p, SMTT(60) DEF StopWaitStarts, StopGoto, SlowStart
<1>3. CASE StopScan(t)
  BY <1>3, <1>p, SMTT(60) DEF StopScan, StopGoto
<1>4. CASE StopWaitSups(t)
  <2> DEFINE S == tsups[t]
  <2>1. /\ spc' = [r \in Starts |-> IF r \in S /\ SupRunning(r) THEN "dead" ELSE spc[r]]
        /\ windowLock' = IF windowLock \in {SupProc(r) : r \in S} THEN None ELSE windowLock
        /\ pc' = pc /\ until' = until /\ may' = may
    BY <1>4 DEF StopWaitSups, KillSups
  <2>2. S \subseteq Starts
    BY DEF TypeInv, TypeOK
  <2> HIDE DEF S
  <2>3. \A r \in Starts : windowLock = StartProc(r) => windowLock' = windowLock
    BY <1>p, <2>1, <2>2
  <2>4. \A r \in Starts : spc'[r] \in {"recheck", "expired", "end"} => r \notin S /\ spc'[r] = spc[r]
    BY <2>1
  <2>5. \A r \in Starts : r \notin S /\ windowLock = SupProc(r) => windowLock' = windowLock
    BY <1>p, <2>1, <2>2
  <2> QED
    BY <2>1, <2>3, <2>4, <2>5
<1>5. CASE StopOrphan(t)
  BY <1>5, <1>p, SMTT(60) DEF StopOrphan, StopGoto
<1>6. CASE StopTake(t)
  BY <1>6, <1>p, SMTT(60) DEF StopTake, StopGoto
<1>7. CASE StopKill(t)
  BY <1>7, <1>p, SMTT(60) DEF StopKill, StopGoto
<1>8. CASE StopUntil(t)
  BY <1>8, <1>p, SMTT(60) DEF StopUntil, StopGoto
<1>9. CASE StopUnset(t)
  BY <1>9, <1>p, SMTT(60) DEF StopUnset, StopGoto
<1>10. CASE StopDown(t)
  BY <1>10, <1>p, SMTT(60) DEF StopDown, StopGoto
<1>11. CASE StopReason(t)
  BY <1>11, <1>p, SMTT(60) DEF StopReason, StopGoto
<1> QED
  BY <1>1, <1>2, <1>3, <1>4, <1>5, <1>6, <1>7, <1>8, <1>9, <1>10, <1>11 DEF StopStep

LEMMA LockNext ==
  ASSUME TypeInv, SupervisorInv, LockInv, [Next]_vars
  PROVE  LockInv'
<1> USE DEF fileVars, startVars, supVars, stopVars, osVars, histVars
<1>1. CASE \E s \in Starts : StartBegin(s) \/ StartStep(s)
  BY <1>1, LockStart
<1>2. CASE \E s \in Starts : SupStep(s) \/ SupCrash(s)
  BY <1>2, LockSup
<1>3. CASE \E t \in Stops : StopBegin(t) \/ StopStep(t)
  BY <1>3, LockStop
<1>4. CASE DeadlinePasses \/ ChildExits \/ LegacyEnds \/ (\E s \in Starts : Interrupt(s)) \/ UNCHANGED vars
  BY <1>4 DEF DeadlinePasses, ChildExits, LegacyEnds, Interrupt, vars, LockInv, UntilLive
<1> QED
  BY <1>1, <1>2, <1>3, <1>4 DEF Next, Quiet

\* What may take a live deadline away.
Removed ==
  "hang" \notin may /\ UntilLive /\ until' = "absent" =>
    \/ \E t \in Stops : tpc[t] = "until"
    \/ \E s \in Starts : spc[s] = "end" \/ pc[s] \in {"token", "spawn", "failuntil"}

LEMMA RemovedStart ==
  ASSUME NEW s \in Starts, StartBegin(s) \/ StartStep(s)
  PROVE  Removed
<1>1. CASE pc[s] \in {"token", "spawn", "failuntil"}
  BY <1>1 DEF Removed
<1>2. CASE StartExtend(s) \/ StartPublish(s)
  BY <1>2 DEF StartExtend, StartPublish, Removed
<1>3. CASE ~StartExtend(s) /\ ~StartPublish(s) /\ pc[s] \notin {"token", "spawn", "failuntil"}
  <2>1. until' = until
    BY <1>3 DEF StartBegin, StartStep, StartWindowLock, StartLook, StartClosing, StartOrphan, StartTake,
                StartKill, StartProbe, StartUp, StartCancelHook, StartHookKilled, StartIdentity, StartToken,
                StartCheck, StartSpawn, StartAwait, StartFailSup, StartFailUntil, StartFailDown, fileVars
  <2> QED
    BY <2>1 DEF Removed, UntilLive
<1> QED
  BY <1>1, <1>2, <1>3

LEMMA RemovedSup ==
  ASSUME LockInv, NEW s \in Starts, SupStep(s) \/ SupCrash(s)
  PROVE  Removed
<1>1. CASE spc[s] \in {"end", "expired"}
  BY <1>1 DEF Removed, LockInv
<1>2. CASE spc[s] \notin {"end", "expired"}
  <2>1. until' = until
    BY <1>2 DEF SupStep, SupToken, SupRecord, SupSpawn, SupRecordChild, SupEnterLoop, SupLoop, SupWindowLock,
                SupRecheck, SupExpired, SupTick, SupEnd, SupTake, SupKill, SupReason, SupDown, SupUnrecord,
                SupCrash, fileVars
  <2> QED
    BY <2>1 DEF Removed, UntilLive
<1> QED
  BY <1>1, <1>2

LEMMA RemovedStop ==
  ASSUME NEW t \in Stops, StopBegin(t) \/ StopStep(t)
  PROVE  Removed
<1>1. CASE tpc[t] = "until"
  BY <1>1 DEF Removed
<1>2. CASE tpc[t] # "until"
  <2>1. until' = until
    BY <1>2 DEF StopBegin, StopStep, StopWaitStarts, StopScan, StopWaitSups, StopOrphan, StopTake, StopKill,
                StopUntil, StopUnset, StopDown, StopReason, fileVars
  <2> QED
    BY <2>1 DEF Removed, UntilLive
<1> QED
  BY <1>1, <1>2

\* A live deadline is removed only by stop, by a supervisor told to end or without
\* a radio, or by a start undoing its own: never by an expiry, however a second
\* press and the supervisor's own look at the clock interleave.
THEOREM NoLostExtensionAlways ==
  ASSUME Serial PROVE Spec => NoLostExtension
<1>1. Init => LockInv
  BY DEF Init, LockInv
<1>2. TypeInv /\ SupervisorInv /\ LockInv /\ [Next]_vars => LockInv'
  BY LockNext
<1>3. LockInv /\ [Next]_vars => [Removed]_vars
  <2> SUFFICES ASSUME LockInv, Next PROVE Removed
    OBVIOUS
  <2>1. CASE DeadlinePasses \/ ChildExits \/ LegacyEnds \/ (\E s \in Starts : Interrupt(s)) \/ Quiet
    BY <2>1 DEF DeadlinePasses, ChildExits, LegacyEnds, Interrupt, Quiet, vars, fileVars, Removed, UntilLive
  <2> QED
    BY <2>1, RemovedStart, RemovedSup, RemovedStop DEF Next
<1>4. [Removed]_vars <=>
      ["hang" \notin may /\ UntilLive /\ until' = "absent" =>
       \/ \E t \in Stops : tpc[t] = "until"
       \/ \E s \in Starts : spc[s] = "end" \/ pc[s] \in {"token", "spawn", "failuntil"}]_vars
  BY DEF Removed
<1> QED
  BY <1>1, <1>2, <1>3, <1>4, TypeInit, TypeNext, SupervisorInvariant, PTL DEF Spec, NoLostExtension

-----------------------------------------------------------------------------
(* What is left of a window, and who will remove it. *)

\* The steps of a stop up to the one that empties the list of children, removes
\* the deadline, removes the token and the record, and runs `down`.
ToTake  == {"starts", "scan", "sups", "orphan", "take"}
ToUntil == ToTake \cup {"kill", "until"}
ToUnset == ToUntil \cup {"unset"}
ToDown  == ToUnset \cup {"down"}

\* A supervisor that has not given its window up, and one that has.
Live == {"children", "loop", "expire", "recheck", "expired", "tick", "endlock", "end"}
Gone == {"take", "kill", "reason", "down", "unrecord"}

\* What a process has in hand says which step it is at.
HandInv ==
  /\ \A s \in Starts :
       /\ unrecorded[s] # {} => spc[s] = "children"
       /\ snapshot[StartProc(s)] # {} => pc[s] \in {"kill", "failkill"}
       /\ snapshot[SupProc(s)] # {} => spc[s] = "kill"
       /\ supFile = s => spc[s] \notin {"none", "token", "record"}
       /\ pc[s] \in {"idle", "lock", "look", "extend", "closing"} \cup Opening => spc[s] = "none"
       /\ pc[s] = "idle" => ~cancelled[s]
       /\ pc[s] \in {"probekill", "upkill", "idkill"} => cancelled[s]
       /\ spc[s] = "none" => ~scancelled[s]
       /\ ending[s] = "stopped" => scancelled[s]
  /\ \A t \in Stops : snapshot[StopProc(t)] # {} => tpc[t] = "kill"

\* Every child is lost, recorded, about to be recorded or about to be killed.
ChildInv ==
  \A c \in children : \/ c \in stray \/ c \in pids
                      \/ \E s \in Starts : c \in unrecorded[s]
                      \/ \E p \in Proc : c \in snapshot[p]

LEMMA ProcKinds ==
  /\ \A s \in Starts : StartProc(s) \in Proc /\ SupProc(s) \in Proc
  /\ \A t \in Stops : StopProc(t) \in Proc
  /\ \A r, s \in Starts : StartProc(r) # SupProc(s)
  /\ \A r \in Starts, t \in Stops : StartProc(r) # StopProc(t) /\ SupProc(r) # StopProc(t)
  /\ \A r, s \in Starts : r # s => StartProc(r) # StartProc(s) /\ SupProc(r) # SupProc(s)
  /\ \A t, u \in Stops : t # u => StopProc(t) # StopProc(u)
  /\ \A p \in Proc : \/ \E s \in Starts : p = StartProc(s) \/ p = SupProc(s)
                     \/ \E t \in Stops : p = StopProc(t)
BY DEF Proc, StartProc, SupProc, StopProc

LEMMA HandStart ==
  ASSUME TypeInv, SupervisorInv, HandInv, NEW s \in Starts, StartBegin(s) \/ StartStep(s)
  PROVE  HandInv'
<1> USE DEF HandInv, SupervisorInv, SupRunning, StartRunning, Opening,
            fileVars, startVars, supVars, stopVars, osVars, histVars
<1>p. /\ pc \in [Starts -> StartPcs] /\ spc \in [Starts -> SupPcs] /\ tpc \in [Stops -> StopPcs]
      /\ cancelled \in [Starts -> BOOLEAN] /\ scancelled \in [Starts -> BOOLEAN]
      /\ ending \in [Starts -> {"none", "stopped", "expired", "no_awdl0"}]
      /\ unrecorded \in [Starts -> SUBSET Child] /\ snapshot \in [Proc -> SUBSET Child]
      /\ supFile \in Starts \cup {None} /\ None \notin Starts
  BY RadioAssumption DEF TypeInv, TypeOK
<1>k. /\ \A r \in Starts : StartProc(r) \in Proc /\ SupProc(r) \in Proc
      /\ \A u \in Stops : StopProc(u) \in Proc
      /\ \A r, u \in Starts : StartProc(r) # SupProc(u)
      /\ \A r \in Starts, u \in Stops : StartProc(r) # StopProc(u) /\ SupProc(r) # StopProc(u)
      /\ \A r, u \in Starts : r # u => StartProc(r) # StartProc(u) /\ SupProc(r) # SupProc(u)
      /\ \A r, u \in Stops : r # u => StopProc(r) # StopProc(u)
  BY ProcKinds
<1>1. CASE StartBegin(s)
  BY <1>1, <1>p, <1>k, SMTT(60) DEF StartBegin, Goto
<1>2. CASE StartWindowLock(s)
  BY <1>2, <1>p, <1>k, SMTT(60) DEF StartWindowLock, Goto, Return
<1>3. CASE StartLook(s)
  BY <1>3, <1>p, <1>k, SMTT(60) DEF StartLook, Goto, SupervisorAlive
<1>4. CASE StartExtend(s)
  BY <1>4, <1>p, <1>k, SMTT(60) DEF StartExtend, Return
<1>5. CASE StartClosing(s)
  BY <1>5, <1>p, <1>k, SMTT(60) DEF StartClosing, Goto, Return
<1>6. CASE StartOrphan(s)
  BY <1>6, <1>p, <1>k, SMTT(60) DEF StartOrphan, Goto, KillOrphanedHook
<1>7. CASE StartTake(s)
  BY <1>7, <1>p, <1>k, SMTT(60) DEF StartTake, Goto, TakeChildren
<1>8. CASE StartKill(s)
  BY <1>8, <1>p, <1>k, SMTT(60) DEF StartKill, Goto, KillTaken
<1>9. CASE StartProbe(s)
  BY <1>9, <1>p, <1>k, SMTT(60) DEF StartProbe, Goto, Return, RunHook
<1>10. CASE StartUp(s)
  BY <1>10, <1>p, <1>k, SMTT(60) DEF StartUp, Goto, Return, RunHook, HookDone
<1>11. CASE StartCancelHook(s)
  BY <1>11, <1>p, <1>k, SMTT(60) DEF StartCancelHook, Goto
<1>12. CASE StartHookKilled(s)
  BY <1>12, <1>p, <1>k, SMTT(60) DEF StartHookKilled, Return, HookDone
<1>13. CASE StartIdentity(s)
  BY <1>13, <1>p, <1>k, SMTT(60) DEF StartIdentity, Goto, Return, HookDone
<1>14. CASE StartPublish(s)
  BY <1>14, <1>p, <1>k, SMTT(60) DEF StartPublish, Goto
<1>15. CASE StartToken(s)
  BY <1>15, <1>p, <1>k, SMTT(60) DEF StartToken, Goto, FailStart, RunHook
<1>16. CASE StartCheck(s)
  BY <1>16, <1>p, <1>k, SMTT(60) DEF StartCheck, Goto, Return
<1>17. CASE StartSpawn(s)
  BY <1>17, <1>p, <1>k, SMTT(60) DEF StartSpawn, Goto, FailStart, RunHook
<1>18. CASE StartAwait(s)
  BY <1>18, <1>p, <1>k, SMTT(60) DEF StartAwait, Goto, Return, SupervisorAlive
<1>19. CASE StartFailSup(s)
  <2>1. /\ \A r \in Starts : spc'[r] = IF r = s /\ SupRunning(s) THEN "dead" ELSE spc[r]
        /\ \A r \in Starts : unrecorded'[r] = IF r = s THEN {} ELSE unrecorded[r]
        /\ \A q \in Proc : snapshot'[q] = IF q = SupProc(s) THEN {} ELSE snapshot[q]
        /\ pc[s] = "failsup" /\ pc' = [pc EXCEPT ![s] = "failtake"]
        /\ UNCHANGED <<supFile, cancelled, scancelled, ending, tpc>>
    BY <1>19 DEF StartFailSup, Goto, KillSups
  <2> QED
    BY <1>p, <1>k, <2>1
<1>20. CASE StartFailUntil(s)
  BY <1>20, <1>p, <1>k, SMTT(60) DEF StartFailUntil, Goto, FailStart, RunHook
<1>21. CASE StartFailDown(s)
  BY <1>21, <1>p, <1>k, SMTT(60) DEF StartFailDown, Return, HookDone
<1> QED
  BY <1>1, <1>2, <1>3, <1>4, <1>5, <1>6, <1>7, <1>8, <1>9, <1>10, <1>11, <1>12, <1>13,
     <1>14, <1>15, <1>16, <1>17, <1>18, <1>19, <1>20, <1>21 DEF StartStep

LEMMA HandSup ==
  ASSUME TypeInv, SupervisorInv, HandInv, NEW s \in Starts, SupStep(s) \/ SupCrash(s)
  PROVE  HandInv'
<1> USE DEF HandInv, SupervisorInv, SupRunning, StartRunning, Opening,
            fileVars, startVars, supVars, stopVars, osVars, histVars
<1>p. /\ pc \in [Starts -> StartPcs] /\ spc \in [Starts -> SupPcs] /\ tpc \in [Stops -> StopPcs]
      /\ cancelled \in [Starts -> BOOLEAN] /\ scancelled \in [Starts -> BOOLEAN]
      /\ ending \in [Starts -> {"none", "stopped", "expired", "no_awdl0"}]
      /\ unrecorded \in [Starts -> SUBSET Child] /\ snapshot \in [Proc -> SUBSET Child]
      /\ supFile \in Starts \cup {None} /\ None \notin Starts
  BY RadioAssumption DEF TypeInv, TypeOK
<1>k. /\ \A r \in Starts : StartProc(r) \in Proc /\ SupProc(r) \in Proc
      /\ \A u \in Stops : StopProc(u) \in Proc
      /\ \A r, u \in Starts : StartProc(r) # SupProc(u)
      /\ \A r \in Starts, u \in Stops : StartProc(r) # StopProc(u) /\ SupProc(r) # StopProc(u)
      /\ \A r, u \in Starts : r # u => StartProc(r) # StartProc(u) /\ SupProc(r) # SupProc(u)
      /\ \A r, u \in Stops : r # u => StopProc(r) # StopProc(u)
  BY ProcKinds
<1>1. CASE SupToken(s)
  BY <1>1, <1>p, <1>k, SMTT(60) DEF SupToken, SupGoto
<1>2. CASE SupRecord(s)
  BY <1>2, <1>p, <1>k, SMTT(60) DEF SupRecord, SupGoto
<1>3. CASE SupSpawn(s)
  BY <1>3, <1>p, <1>k, SMTT(60) DEF SupSpawn
<1>4. CASE SupRecordChild(s)
  BY <1>4, <1>p, <1>k, SMTT(60) DEF SupRecordChild, SupGoto
<1>5. CASE SupEnterLoop(s)
  BY <1>5, <1>p, <1>k, SMTT(60) DEF SupEnterLoop, SupGoto
<1>6. CASE SupLoop(s)
  BY <1>6, <1>p, <1>k, SMTT(60) DEF SupLoop, SupGoto, RunHook
<1>7. CASE SupWindowLock(s)
  BY <1>7, <1>p, <1>k, SMTT(60) DEF SupWindowLock, SupGoto
<1>8. CASE SupRecheck(s)
  BY <1>8, <1>p, <1>k, SMTT(60) DEF SupRecheck, SupGoto, RunHook
<1>9. CASE SupExpired(s)
  BY <1>9, <1>p, <1>k, SMTT(60) DEF SupExpired, SupGoto
<1>10. CASE SupTick(s)
  BY <1>10, <1>p, <1>k, SMTT(60) DEF SupTick, SupGoto
<1>11. CASE SupEnd(s)
  BY <1>11, <1>p, <1>k, SMTT(60) DEF SupEnd, SupGoto
<1>12. CASE SupTake(s)
  BY <1>12, <1>p, <1>k, SMTT(60) DEF SupTake, SupGoto, TakeChildren
<1>13. CASE SupKill(s)
  BY <1>13, <1>p, <1>k, SMTT(60) DEF SupKill, SupGoto
<1>14. CASE SupReason(s)
  BY <1>14, <1>p, <1>k, SMTT(60) DEF SupReason, SupGoto, RunHook
<1>15. CASE SupDown(s)
  BY <1>15, <1>p, <1>k, SMTT(60) DEF SupDown, SupGoto, HookDone
<1>16. CASE SupUnrecord(s)
  BY <1>16, <1>p, <1>k, SMTT(60) DEF SupUnrecord, SupGoto
<1>17. CASE SupCrash(s)
  BY <1>17, <1>p, <1>k, SMTT(60) DEF SupCrash, KillSups
<1> QED
  BY <1>1, <1>2, <1>3, <1>4, <1>5, <1>6, <1>7, <1>8, <1>9, <1>10, <1>11, <1>12, <1>13,
     <1>14, <1>15, <1>16, <1>17 DEF SupStep

LEMMA HandStop ==
  ASSUME TypeInv, SupervisorInv, HandInv, NEW t \in Stops, StopBegin(t) \/ StopStep(t)
  PROVE  HandInv'
<1> USE DEF HandInv, SupervisorInv, SupRunning, StartRunning, Opening,
            fileVars, startVars, supVars, stopVars, osVars, histVars
<1>p. /\ pc \in [Starts -> StartPcs] /\ spc \in [Starts -> SupPcs] /\ tpc \in [Stops -> StopPcs]
      /\ cancelled \in [Starts -> BOOLEAN] /\ scancelled \in [Starts -> BOOLEAN]
      /\ ending \in [Starts -> {"none", "stopped", "expired", "no_awdl0"}]
      /\ unrecorded \in [Starts -> SUBSET Child] /\ snapshot \in [Proc -> SUBSET Child]
      /\ supFile \in Starts \cup {None} /\ None \notin Starts
  BY RadioAssumption DEF TypeInv, TypeOK
<1>k. /\ \A r \in Starts : StartProc(r) \in Proc /\ SupProc(r) \in Proc
      /\ \A u \in Stops : StopProc(u) \in Proc
      /\ \A r, u \in Starts : StartProc(r) # SupProc(u)
      /\ \A r \in Starts, u \in Stops : StartProc(r) # StopProc(u) /\ SupProc(r) # StopProc(u)
      /\ \A r, u \in Starts : r # u => StartProc(r) # StartProc(u) /\ SupProc(r) # SupProc(u)
      /\ \A r, u \in Stops : r # u => StopProc(r) # StopProc(u)
  BY ProcKinds
<1>1. CASE StopBegin(t)
  BY <1>1, <1>p, <1>k, SMTT(60) DEF StopBegin, StopGoto
<1>2. CASE StopWaitStarts(t)
  BY <1>2, <1>p, <1>k, SMTT(60) DEF StopWaitStarts, StopGoto, SlowStart
<1>3. CASE StopScan(t)
  BY <1>3, <1>p, <1>k, SMTT(60) DEF StopScan, StopGoto
<1>4. CASE StopWaitSups(t)
  BY <1>4, <1>p, <1>k, SMTT(60) DEF StopWaitSups, StopGoto, KillSups
<1>5. CASE StopOrphan(t)
  BY <1>5, <1>p, <1>k, SMTT(60) DEF StopOrphan, StopGoto
<1>6. CASE StopTake(t)
  BY <1>6, <1>p, <1>k, SMTT(60) DEF StopTake, StopGoto, TakeChildren
<1>7. CASE StopKill(t)
  BY <1>7, <1>p, <1>k, SMTT(60) DEF StopKill, StopGoto, KillTaken
<1>8. CASE StopUntil(t)
  BY <1>8, <1>p, <1>k, SMTT(60) DEF StopUntil, StopGoto
<1>9. CASE StopUnset(t)
  BY <1>9, <1>p, <1>k, SMTT(60) DEF StopUnset, StopGoto, RunHook
<1>10. CASE StopDown(t)
  BY <1>10, <1>p, <1>k, SMTT(60) DEF StopDown, StopGoto, HookDone
<1>11. CASE StopReason(t)
  BY <1>11, <1>p, <1>k, SMTT(60) DEF StopReason, StopGoto
<1> QED
  BY <1>1, <1>2, <1>3, <1>4, <1>5, <1>6, <1>7, <1>8, <1>9, <1>10, <1>11 DEF StopStep

LEMMA HandNext ==
  ASSUME TypeInv, SupervisorInv, HandInv, [Next]_vars
  PROVE  HandInv'
<1> USE DEF fileVars, startVars, supVars, stopVars, osVars, histVars
<1>1. CASE \E s \in Starts : StartBegin(s) \/ StartStep(s)
  BY <1>1, HandStart
<1>2. CASE \E s \in Starts : SupStep(s) \/ SupCrash(s)
  BY <1>2, HandSup
<1>3. CASE \E t \in Stops : StopBegin(t) \/ StopStep(t)
  BY <1>3, HandStop
<1>4. CASE DeadlinePasses \/ ChildExits \/ LegacyEnds \/ UNCHANGED vars
  BY <1>4 DEF DeadlinePasses, ChildExits, LegacyEnds, vars, HandInv, StartRunning
<1>5. CASE \E s \in Starts : Interrupt(s)
  BY <1>5 DEF Interrupt, TypeInv, TypeOK, HandInv, StartRunning
<1> QED
  BY <1>1, <1>2, <1>3, <1>4, <1>5 DEF Next, Quiet

LEMMA ChildStart ==
  ASSUME TypeInv, HandInv, ChildInv, NEW s \in Starts, StartBegin(s) \/ StartStep(s)
  PROVE  ChildInv'
<1> USE DEF ChildInv,
            fileVars, startVars, supVars, stopVars, osVars, histVars
<1>p. /\ pc \in [Starts -> StartPcs] /\ spc \in [Starts -> SupPcs] /\ tpc \in [Stops -> StopPcs]
      /\ cancelled \in [Starts -> BOOLEAN] /\ scancelled \in [Starts -> BOOLEAN]
      /\ ending \in [Starts -> {"none", "stopped", "expired", "no_awdl0"}]
      /\ unrecorded \in [Starts -> SUBSET Child] /\ snapshot \in [Proc -> SUBSET Child]
      /\ supFile \in Starts \cup {None} /\ None \notin Starts
  BY RadioAssumption DEF TypeInv, TypeOK
<1>k. /\ \A r \in Starts : StartProc(r) \in Proc /\ SupProc(r) \in Proc
      /\ \A u \in Stops : StopProc(u) \in Proc
      /\ \A r, u \in Starts : StartProc(r) # SupProc(u)
      /\ \A r \in Starts, u \in Stops : StartProc(r) # StopProc(u) /\ SupProc(r) # StopProc(u)
      /\ \A r, u \in Starts : r # u => StartProc(r) # StartProc(u) /\ SupProc(r) # SupProc(u)
      /\ \A r, u \in Stops : r # u => StopProc(r) # StopProc(u)
  BY ProcKinds
<1>h. /\ \A r \in Starts : snapshot[StartProc(r)] # {} => pc[r] \in {"kill", "failkill"}
      /\ \A r \in Starts : snapshot[SupProc(r)] # {} => spc[r] = "kill"
      /\ \A u \in Stops : snapshot[StopProc(u)] # {} => tpc[u] = "kill"
  BY DEF HandInv
<1>1. CASE StartBegin(s)
  BY <1>1, SMTT(60) DEF StartBegin, Goto
<1>2. CASE StartWindowLock(s)
  BY <1>2, SMTT(60) DEF StartWindowLock, Goto, Return
<1>3. CASE StartLook(s)
  BY <1>3, SMTT(60) DEF StartLook, Goto, SupervisorAlive
<1>4. CASE StartExtend(s)
  BY <1>4, SMTT(60) DEF StartExtend, Return
<1>5. CASE StartClosing(s)
  BY <1>5, SMTT(60) DEF StartClosing, Goto, Return
<1>6. CASE StartOrphan(s)
  BY <1>6, SMTT(60) DEF StartOrphan, Goto, KillOrphanedHook
<1>7. CASE StartTake(s)
  BY <1>7, <1>p, <1>k, <1>h, SMTT(60) DEF StartTake, Goto, TakeChildren
<1>8. CASE StartKill(s)
  BY <1>8, <1>p, <1>k, <1>h, SMTT(60) DEF StartKill, Goto, KillTaken
<1>9. CASE StartProbe(s)
  BY <1>9, SMTT(60) DEF StartProbe, Goto, Return, RunHook
<1>10. CASE StartUp(s)
  BY <1>10, SMTT(60) DEF StartUp, Goto, Return, RunHook, HookDone
<1>11. CASE StartCancelHook(s)
  BY <1>11, SMTT(60) DEF StartCancelHook, Goto
<1>12. CASE StartHookKilled(s)
  BY <1>12, SMTT(60) DEF StartHookKilled, Return, HookDone
<1>13. CASE StartIdentity(s)
  BY <1>13, SMTT(60) DEF StartIdentity, Goto, Return, HookDone
<1>14. CASE StartPublish(s)
  BY <1>14, SMTT(60) DEF StartPublish, Goto
<1>15. CASE StartToken(s)
  BY <1>15, SMTT(60) DEF StartToken, Goto, FailStart, RunHook
<1>16. CASE StartCheck(s)
  BY <1>16, SMTT(60) DEF StartCheck, Goto, Return
<1>17. CASE StartSpawn(s)
  BY <1>17, SMTT(60) DEF StartSpawn, Goto, FailStart, RunHook
<1>18. CASE StartAwait(s)
  BY <1>18, SMTT(60) DEF StartAwait, Goto, Return, SupervisorAlive
<1>19. CASE StartFailSup(s)
  BY <1>19, <1>p, <1>k, <1>h, SMTT(60) DEF StartFailSup, Goto, KillSups
<1>20. CASE StartFailUntil(s)
  BY <1>20, SMTT(60) DEF StartFailUntil, Goto, FailStart, RunHook
<1>21. CASE StartFailDown(s)
  BY <1>21, SMTT(60) DEF StartFailDown, Return, HookDone
<1> QED
  BY <1>1, <1>2, <1>3, <1>4, <1>5, <1>6, <1>7, <1>8, <1>9, <1>10, <1>11, <1>12, <1>13,
     <1>14, <1>15, <1>16, <1>17, <1>18, <1>19, <1>20, <1>21 DEF StartStep

LEMMA ChildSup ==
  ASSUME TypeInv, HandInv, ChildInv, NEW s \in Starts, SupStep(s) \/ SupCrash(s)
  PROVE  ChildInv'
<1> USE DEF ChildInv,
            fileVars, startVars, supVars, stopVars, osVars, histVars
<1>p. /\ pc \in [Starts -> StartPcs] /\ spc \in [Starts -> SupPcs] /\ tpc \in [Stops -> StopPcs]
      /\ cancelled \in [Starts -> BOOLEAN] /\ scancelled \in [Starts -> BOOLEAN]
      /\ ending \in [Starts -> {"none", "stopped", "expired", "no_awdl0"}]
      /\ unrecorded \in [Starts -> SUBSET Child] /\ snapshot \in [Proc -> SUBSET Child]
      /\ supFile \in Starts \cup {None} /\ None \notin Starts
  BY RadioAssumption DEF TypeInv, TypeOK
<1>k. /\ \A r \in Starts : StartProc(r) \in Proc /\ SupProc(r) \in Proc
      /\ \A u \in Stops : StopProc(u) \in Proc
      /\ \A r, u \in Starts : StartProc(r) # SupProc(u)
      /\ \A r \in Starts, u \in Stops : StartProc(r) # StopProc(u) /\ SupProc(r) # StopProc(u)
      /\ \A r, u \in Starts : r # u => StartProc(r) # StartProc(u) /\ SupProc(r) # SupProc(u)
      /\ \A r, u \in Stops : r # u => StopProc(r) # StopProc(u)
  BY ProcKinds
<1>h. /\ \A r \in Starts : snapshot[StartProc(r)] # {} => pc[r] \in {"kill", "failkill"}
      /\ \A r \in Starts : snapshot[SupProc(r)] # {} => spc[r] = "kill"
      /\ \A u \in Stops : snapshot[StopProc(u)] # {} => tpc[u] = "kill"
  BY DEF HandInv
<1>1. CASE SupToken(s)
  BY <1>1, SMTT(60) DEF SupToken, SupGoto
<1>2. CASE SupRecord(s)
  BY <1>2, SMTT(60) DEF SupRecord, SupGoto
<1>3. CASE SupSpawn(s)
  BY <1>3, <1>p, <1>k, <1>h, SMTT(60) DEF SupSpawn
<1>4. CASE SupRecordChild(s)
  BY <1>4, <1>p, <1>k, <1>h, SMTT(60) DEF SupRecordChild, SupGoto
<1>5. CASE SupEnterLoop(s)
  BY <1>5, SMTT(60) DEF SupEnterLoop, SupGoto
<1>6. CASE SupLoop(s)
  BY <1>6, SMTT(60) DEF SupLoop, SupGoto, RunHook
<1>7. CASE SupWindowLock(s)
  BY <1>7, SMTT(60) DEF SupWindowLock, SupGoto
<1>8. CASE SupRecheck(s)
  BY <1>8, SMTT(60) DEF SupRecheck, SupGoto, RunHook
<1>9. CASE SupExpired(s)
  BY <1>9, SMTT(60) DEF SupExpired, SupGoto
<1>10. CASE SupTick(s)
  BY <1>10, SMTT(60) DEF SupTick, SupGoto
<1>11. CASE SupEnd(s)
  BY <1>11, SMTT(60) DEF SupEnd, SupGoto
<1>12. CASE SupTake(s)
  BY <1>12, <1>p, <1>k, <1>h, SMTT(60) DEF SupTake, SupGoto, TakeChildren
<1>13. CASE SupKill(s)
  BY <1>13, <1>p, <1>k, <1>h, SMTT(60) DEF SupKill, SupGoto
<1>14. CASE SupReason(s)
  BY <1>14, SMTT(60) DEF SupReason, SupGoto, RunHook
<1>15. CASE SupDown(s)
  BY <1>15, SMTT(60) DEF SupDown, SupGoto, HookDone
<1>16. CASE SupUnrecord(s)
  BY <1>16, SMTT(60) DEF SupUnrecord, SupGoto
<1>17. CASE SupCrash(s)
  BY <1>17, <1>p, <1>k, <1>h, SMTT(60) DEF SupCrash, KillSups
<1> QED
  BY <1>1, <1>2, <1>3, <1>4, <1>5, <1>6, <1>7, <1>8, <1>9, <1>10, <1>11, <1>12, <1>13,
     <1>14, <1>15, <1>16, <1>17 DEF SupStep

LEMMA ChildStop ==
  ASSUME TypeInv, HandInv, ChildInv, NEW t \in Stops, StopBegin(t) \/ StopStep(t)
  PROVE  ChildInv'
<1> USE DEF ChildInv,
            fileVars, startVars, supVars, stopVars, osVars, histVars
<1>p. /\ pc \in [Starts -> StartPcs] /\ spc \in [Starts -> SupPcs] /\ tpc \in [Stops -> StopPcs]
      /\ cancelled \in [Starts -> BOOLEAN] /\ scancelled \in [Starts -> BOOLEAN]
      /\ ending \in [Starts -> {"none", "stopped", "expired", "no_awdl0"}]
      /\ unrecorded \in [Starts -> SUBSET Child] /\ snapshot \in [Proc -> SUBSET Child]
      /\ supFile \in Starts \cup {None} /\ None \notin Starts
  BY RadioAssumption DEF TypeInv, TypeOK
<1>k. /\ \A r \in Starts : StartProc(r) \in Proc /\ SupProc(r) \in Proc
      /\ \A u \in Stops : StopProc(u) \in Proc
      /\ \A r, u \in Starts : StartProc(r) # SupProc(u)
      /\ \A r \in Starts, u \in Stops : StartProc(r) # StopProc(u) /\ SupProc(r) # StopProc(u)
      /\ \A r, u \in Starts : r # u => StartProc(r) # StartProc(u) /\ SupProc(r) # SupProc(u)
      /\ \A r, u \in Stops : r # u => StopProc(r) # StopProc(u)
  BY ProcKinds
<1>h. /\ \A r \in Starts : snapshot[StartProc(r)] # {} => pc[r] \in {"kill", "failkill"}
      /\ \A r \in Starts : snapshot[SupProc(r)] # {} => spc[r] = "kill"
      /\ \A u \in Stops : snapshot[StopProc(u)] # {} => tpc[u] = "kill"
  BY DEF HandInv
<1>1. CASE StopBegin(t)
  BY <1>1, SMTT(60) DEF StopBegin, StopGoto
<1>2. CASE StopWaitStarts(t)
  BY <1>2, SMTT(60) DEF StopWaitStarts, StopGoto, SlowStart
<1>3. CASE StopScan(t)
  BY <1>3, SMTT(60) DEF StopScan, StopGoto
<1>4. CASE StopWaitSups(t)
  BY <1>4, <1>p, <1>k, <1>h, SMTT(60) DEF StopWaitSups, StopGoto, KillSups
<1>5. CASE StopOrphan(t)
  BY <1>5, SMTT(60) DEF StopOrphan, StopGoto
<1>6. CASE StopTake(t)
  BY <1>6, <1>p, <1>k, <1>h, SMTT(60) DEF StopTake, StopGoto, TakeChildren
<1>7. CASE StopKill(t)
  BY <1>7, <1>p, <1>k, <1>h, SMTT(60) DEF StopKill, StopGoto, KillTaken
<1>8. CASE StopUntil(t)
  BY <1>8, SMTT(60) DEF StopUntil, StopGoto
<1>9. CASE StopUnset(t)
  BY <1>9, SMTT(60) DEF StopUnset, StopGoto, RunHook
<1>10. CASE StopDown(t)
  BY <1>10, SMTT(60) DEF StopDown, StopGoto, HookDone
<1>11. CASE StopReason(t)
  BY <1>11, SMTT(60) DEF StopReason, StopGoto
<1> QED
  BY <1>1, <1>2, <1>3, <1>4, <1>5, <1>6, <1>7, <1>8, <1>9, <1>10, <1>11 DEF StopStep

LEMMA ChildNext ==
  ASSUME TypeInv, HandInv, ChildInv, [Next]_vars
  PROVE  ChildInv'
<1> USE DEF fileVars, startVars, supVars, stopVars, osVars, histVars
<1>1. CASE \E s \in Starts : StartBegin(s) \/ StartStep(s)
  BY <1>1, ChildStart
<1>2. CASE \E s \in Starts : SupStep(s) \/ SupCrash(s)
  BY <1>2, ChildSup
<1>3. CASE \E t \in Stops : StopBegin(t) \/ StopStep(t)
  BY <1>3, ChildStop
<1>4. CASE DeadlinePasses \/ ChildExits \/ LegacyEnds \/ UNCHANGED vars
  BY <1>4 DEF DeadlinePasses, ChildExits, LegacyEnds, vars, ChildInv
<1>5. CASE \E s \in Starts : Interrupt(s)
  BY <1>5 DEF Interrupt, TypeInv, TypeOK, ChildInv
<1> QED
  BY <1>1, <1>2, <1>3, <1>4, <1>5 DEF Next, Quiet


\* With no fault, a start or a supervisor that was told to end has a stop waiting
\* for it, or undoes its own; an extension has a window to extend; and a window
\* given up has no deadline, and no radio unless a stop is to run `down`.
TermHeard ==
  \A s \in Starts :
    /\ cancelled[s] /\ StartRunning(s) => pc[s] \in SlowStart \/ \E t \in Stops : tpc[t] = "starts"
    /\ scancelled[s] /\ SupRunning(s) => \E t \in Stops : tpc[t] = "sups"
    /\ pc[s] = "extend" => \E r \in Starts : spc[r] \in Live
    /\ spc[s] \in Gone => until = "absent"
    /\ spc[s] = "unrecord" => radio = "down" \/ \E t \in Stops : tpc[t] \in ToDown

\* The steps in which a start answers for the deadline, and for the radio.
Watching == {"token", "check", "spawn", "await", "failsup", "failtake", "failkill", "failuntil"}
Raised   == {"identity", "idkill", "publish", "token", "check", "spawn", "await", "failsup"}

\* Whatever is left of a window has a process that will remove it.
PidsOwned ==
  pids # {} =>
    \/ \E s \in Starts : spc[s] \in Live \cup {"take"} \/ pc[s] = "failtake"
    \/ \E t \in Stops : tpc[t] \in ToTake
UntilOwned ==
  until # "absent" =>
    \/ \E s \in Starts : spc[s] \in Live \/ pc[s] \in Watching
    \/ \E t \in Stops : tpc[t] \in ToUntil
TokenOwned ==
  tokFile # None =>
    \/ pc[tokFile] \in {"check", "spawn", "await", "failsup"} /\ spc[tokFile] \in {"none", "token"}
    \/ \E t \in Stops : tpc[t] \in ToUnset
RadioOwned ==
  radio # "down" =>
    \/ \E s \in Starts : (SupRunning(s) /\ spc[s] # "unrecord") \/ pc[s] \in Raised \cup Failing
    \/ \E t \in Stops : tpc[t] \in ToDown

OwnedInv == may = {} => TermHeard /\ PidsOwned /\ UntilOwned /\ TokenOwned /\ RadioOwned

LEMMA OwnedStart ==
  ASSUME Serial, TypeInv, SupervisorInv, AloneInv, LockInv, HandInv, OwnedInv, NEW s \in Starts, StartBegin(s) \/ StartStep(s)
  PROVE  OwnedInv'
<1> USE DEF OwnedInv, HandInv, AloneInv, SupervisorInv, OneSupervisor, SupRunning, StartRunning, StopRunning,
            Opening, Failing, PastStarts, PastSups, SlowStart, SlowSup, UntilLive, Live, Gone,
            TermHeard, PidsOwned, UntilOwned, TokenOwned, RadioOwned, Watching, Raised,
            ToTake, ToUntil, ToUnset, ToDown,
            fileVars, startVars, supVars, stopVars, osVars, histVars
<1>p. /\ pc \in [Starts -> StartPcs] /\ spc \in [Starts -> SupPcs] /\ tpc \in [Stops -> StopPcs]
      /\ cancelled \in [Starts -> BOOLEAN] /\ scancelled \in [Starts -> BOOLEAN]
      /\ ending \in [Starts -> {"none", "stopped", "expired", "no_awdl0"}]
      /\ supFile \in Starts \cup {None} /\ tokFile \in Starts \cup {None} /\ None \notin Starts
      /\ startLock \in Starts \cup {None}
  BY RadioAssumption DEF TypeInv, TypeOK
<1>l. \A r, u \in Starts : may = {} /\ pc[r] = "extend" => spc[u] \notin {"expired", "end"}
  BY DistinctProcs DEF LockInv
<1>1. CASE StartBegin(s)
  BY <1>1, <1>p, <1>l, SMTT(60) DEF StartBegin, Goto
<1>2. CASE StartWindowLock(s)
  BY <1>2, <1>p, <1>l, SMTT(60) DEF StartWindowLock, Goto, Return
<1>3. CASE StartLook(s)
  <2>1. ASSUME NEW r \in Starts, SupervisorAlive(r), until # "absent"
        PROVE  may = {} => spc[r] \in Live
    BY <2>1, <1>p DEF SupervisorAlive, SupPcs
  <2>2. pc'[s] = "extend" /\ may = {} => \E r \in Starts : spc[r] \in Live
    BY <1>3, <1>p, <2>1 DEF StartLook, Goto
  <2>3. /\ pc[s] = "look" /\ \E l \in {"closing", "extend", "orphan"} : pc' = [pc EXCEPT ![s] = l]
        /\ UNCHANGED <<until, tokFile, pids, cancelled, spc, scancelled, tpc, radio, may>>
    BY <1>3 DEF StartLook, Goto
  <2> QED
    BY <1>p, <2>2, <2>3
<1>4. CASE StartExtend(s)
  BY <1>4, <1>p, <1>l, SMTT(60) DEF StartExtend, Return
<1>5. CASE StartClosing(s)
  BY <1>5, <1>p, <1>l, SMTT(60) DEF StartClosing, Goto, Return
<1>6. CASE StartOrphan(s)
  BY <1>6, <1>p, <1>l, SMTT(60) DEF StartOrphan, Goto, KillOrphanedHook
<1>7. CASE StartTake(s)
  BY <1>7, <1>p, <1>l, SMTT(60) DEF StartTake, Goto, TakeChildren
<1>8. CASE StartKill(s)
  BY <1>8, <1>p, <1>l, SMTT(60) DEF StartKill, Goto, KillTaken
<1>9. CASE StartProbe(s)
  BY <1>9, <1>p, <1>l, SMTT(60) DEF StartProbe, Goto, Return, RunHook
<1>10. CASE StartUp(s)
  BY <1>10, <1>p, <1>l, SMTT(60) DEF StartUp, Goto, Return, RunHook, HookDone
<1>11. CASE StartCancelHook(s)
  BY <1>11, <1>p, <1>l, SMTT(60) DEF StartCancelHook, Goto
<1>12. CASE StartHookKilled(s)
  BY <1>12, <1>p, <1>l, SMTT(60) DEF StartHookKilled, Return, HookDone
<1>13. CASE StartIdentity(s)
  BY <1>13, <1>p, <1>l, SMTT(60) DEF StartIdentity, Goto, Return, HookDone
<1>14. CASE StartPublish(s)
  BY <1>14, <1>p, <1>l, SMTT(60) DEF StartPublish, Goto
<1>15. CASE StartToken(s)
  BY <1>15, <1>p, <1>l, SMTT(60) DEF StartToken, Goto, FailStart, RunHook
<1>16. CASE StartCheck(s)
  BY <1>16, <1>p, <1>l, SMTT(60) DEF StartCheck, Goto, Return
<1>17. CASE StartSpawn(s)
  BY <1>17, <1>p, <1>l, SMTT(60) DEF StartSpawn, Goto, FailStart, RunHook
<1>18. CASE StartAwait(s)
  <2>1. /\ pc[s] = "await" /\ \E l \in {"done", "failsup"} : pc' = [pc EXCEPT ![s] = l]
        /\ UNCHANGED <<until, tokFile, pids, cancelled, spc, scancelled, tpc, radio, may>>
    BY <1>18 DEF StartAwait, Goto, Return
  <2>2. CASE pc'[s] = "failsup"
    BY <1>p, <2>1, <2>2
  <2>3. CASE pc'[s] = "done"
    <3>1. PICK r \in Starts : SupervisorAlive(r)
      BY <1>18, <1>p, <2>1, <2>3 DEF StartAwait, Goto
    <3>2. r = s /\ spc[s] \in Live \cup Gone
      BY <1>p, <2>1, <3>1 DEF SupervisorAlive, SupPcs
    <3>3. may = {} => TermHeard' /\ PidsOwned'
      BY <1>p, <2>1, <2>3, <3>2
    <3>4. may = {} => UntilOwned' /\ TokenOwned' /\ RadioOwned'
      BY <1>p, <2>1, <2>3, <3>2
    <3> QED
      BY <2>1, <3>3, <3>4
  <2> QED
    BY <1>p, <2>1, <2>2, <2>3
<1>19. CASE StartFailSup(s)
  BY <1>19, <1>p, <1>l, SMTT(60) DEF StartFailSup, Goto, KillSups
<1>20. CASE StartFailUntil(s)
  BY <1>20, <1>p, <1>l, SMTT(60) DEF StartFailUntil, Goto, FailStart, RunHook
<1>21. CASE StartFailDown(s)
  BY <1>21, <1>p, <1>l, SMTT(60) DEF StartFailDown, Return, HookDone
<1> QED
  BY <1>1, <1>2, <1>3, <1>4, <1>5, <1>6, <1>7, <1>8, <1>9, <1>10, <1>11, <1>12, <1>13,
     <1>14, <1>15, <1>16, <1>17, <1>18, <1>19, <1>20, <1>21 DEF StartStep

LEMMA OwnedSup ==
  ASSUME Serial, TypeInv, SupervisorInv, AloneInv, LockInv, HandInv, OwnedInv, NEW s \in Starts, SupStep(s) \/ SupCrash(s)
  PROVE  OwnedInv'
<1> USE DEF OwnedInv, HandInv, AloneInv, SupervisorInv, OneSupervisor, SupRunning, StartRunning, StopRunning,
            Opening, Failing, PastStarts, PastSups, SlowStart, SlowSup, UntilLive, Live, Gone,
            TermHeard, PidsOwned, UntilOwned, TokenOwned, RadioOwned, Watching, Raised,
            ToTake, ToUntil, ToUnset, ToDown,
            fileVars, startVars, supVars, stopVars, osVars, histVars
<1>p. /\ pc \in [Starts -> StartPcs] /\ spc \in [Starts -> SupPcs] /\ tpc \in [Stops -> StopPcs]
      /\ cancelled \in [Starts -> BOOLEAN] /\ scancelled \in [Starts -> BOOLEAN]
      /\ ending \in [Starts -> {"none", "stopped", "expired", "no_awdl0"}]
      /\ supFile \in Starts \cup {None} /\ tokFile \in Starts \cup {None} /\ None \notin Starts
      /\ startLock \in Starts \cup {None}
  BY RadioAssumption DEF TypeInv, TypeOK
<1>l. \A r, u \in Starts : may = {} /\ pc[r] = "extend" => spc[u] \notin {"expired", "end"}
  BY DistinctProcs DEF LockInv
<1>1. CASE SupToken(s)
  BY <1>1, <1>p, <1>l, SMTT(60) DEF SupToken, SupGoto
<1>2. CASE SupRecord(s)
  BY <1>2, <1>p, <1>l, SMTT(60) DEF SupRecord, SupGoto
<1>3. CASE SupSpawn(s)
  BY <1>3, <1>p, <1>l, SMTT(60) DEF SupSpawn
<1>4. CASE SupRecordChild(s)
  BY <1>4, <1>p, <1>l, SMTT(60) DEF SupRecordChild, SupGoto
<1>5. CASE SupEnterLoop(s)
  BY <1>5, <1>p, <1>l, SMTT(60) DEF SupEnterLoop, SupGoto
<1>6. CASE SupLoop(s)
  BY <1>6, <1>p, <1>l, SMTT(60) DEF SupLoop, SupGoto, RunHook
<1>7. CASE SupWindowLock(s)
  BY <1>7, <1>p, <1>l, SMTT(60) DEF SupWindowLock, SupGoto
<1>8. CASE SupRecheck(s)
  BY <1>8, <1>p, <1>l, SMTT(60) DEF SupRecheck, SupGoto, RunHook
<1>9. CASE SupExpired(s)
  BY <1>9, <1>p, <1>l, SMTT(60) DEF SupExpired, SupGoto
<1>10. CASE SupTick(s)
  BY <1>10, <1>p, <1>l, SMTT(60) DEF SupTick, SupGoto
<1>11. CASE SupEnd(s)
  BY <1>11, <1>p, <1>l, SMTT(60) DEF SupEnd, SupGoto
<1>12. CASE SupTake(s)
  BY <1>12, <1>p, <1>l, SMTT(60) DEF SupTake, SupGoto, TakeChildren
<1>13. CASE SupKill(s)
  BY <1>13, <1>p, <1>l, SMTT(60) DEF SupKill, SupGoto
<1>14. CASE SupReason(s)
  BY <1>14, <1>p, <1>l, SMTT(60) DEF SupReason, SupGoto, RunHook
<1>15. CASE SupDown(s)
  BY <1>15, <1>p, <1>l, SMTT(60) DEF SupDown, SupGoto, HookDone
<1>16. CASE SupUnrecord(s)
  BY <1>16, <1>p, <1>l, SMTT(60) DEF SupUnrecord, SupGoto
<1>17. CASE SupCrash(s)
  BY <1>17, <1>p, <1>l, SMTT(60) DEF SupCrash, KillSups
<1> QED
  BY <1>1, <1>2, <1>3, <1>4, <1>5, <1>6, <1>7, <1>8, <1>9, <1>10, <1>11, <1>12, <1>13,
     <1>14, <1>15, <1>16, <1>17 DEF SupStep

LEMMA OwnedStop ==
  ASSUME Serial, TypeInv, SupervisorInv, AloneInv, LockInv, HandInv, OwnedInv, NEW t \in Stops, StopBegin(t) \/ StopStep(t)
  PROVE  OwnedInv'
<1> USE DEF OwnedInv, HandInv, AloneInv, SupervisorInv, OneSupervisor, SupRunning, StartRunning, StopRunning,
            Opening, Failing, PastStarts, PastSups, SlowStart, SlowSup, UntilLive, Live, Gone,
            TermHeard, PidsOwned, UntilOwned, TokenOwned, RadioOwned, Watching, Raised,
            ToTake, ToUntil, ToUnset, ToDown,
            fileVars, startVars, supVars, stopVars, osVars, histVars
<1>p. /\ pc \in [Starts -> StartPcs] /\ spc \in [Starts -> SupPcs] /\ tpc \in [Stops -> StopPcs]
      /\ cancelled \in [Starts -> BOOLEAN] /\ scancelled \in [Starts -> BOOLEAN]
      /\ ending \in [Starts -> {"none", "stopped", "expired", "no_awdl0"}]
      /\ supFile \in Starts \cup {None} /\ tokFile \in Starts \cup {None} /\ None \notin Starts
      /\ startLock \in Starts \cup {None}
  BY RadioAssumption DEF TypeInv, TypeOK
<1>l. \A r, u \in Starts : may = {} /\ pc[r] = "extend" => spc[u] \notin {"expired", "end"}
  BY DistinctProcs DEF LockInv
<1>1. CASE StopBegin(t)
  BY <1>1, <1>p, <1>l, SMTT(60) DEF StopBegin, StopGoto
<1>2. CASE StopWaitStarts(t)
  BY <1>2, <1>p, <1>l, SMTT(60) DEF StopWaitStarts, StopGoto, SlowStart
<1>3. CASE StopScan(t)
  BY <1>3, <1>p, <1>l, SMTT(60) DEF StopScan, StopGoto
<1>4. CASE StopWaitSups(t)
  BY <1>4, <1>p, <1>l, SMTT(60) DEF StopWaitSups, StopGoto, KillSups
<1>5. CASE StopOrphan(t)
  BY <1>5, <1>p, <1>l, SMTT(60) DEF StopOrphan, StopGoto
<1>6. CASE StopTake(t)
  BY <1>6, <1>p, <1>l, SMTT(60) DEF StopTake, StopGoto, TakeChildren
<1>7. CASE StopKill(t)
  BY <1>7, <1>p, <1>l, SMTT(60) DEF StopKill, StopGoto, KillTaken
<1>8. CASE StopUntil(t)
  BY <1>8, <1>p, <1>l, SMTT(60) DEF StopUntil, StopGoto
<1>9. CASE StopUnset(t)
  BY <1>9, <1>p, <1>l, SMTT(60) DEF StopUnset, StopGoto, RunHook
<1>10. CASE StopDown(t)
  BY <1>10, <1>p, <1>l, SMTT(60) DEF StopDown, StopGoto, HookDone
<1>11. CASE StopReason(t)
  BY <1>11, <1>p, <1>l, SMTT(60) DEF StopReason, StopGoto
<1> QED
  BY <1>1, <1>2, <1>3, <1>4, <1>5, <1>6, <1>7, <1>8, <1>9, <1>10, <1>11 DEF StopStep

LEMMA OwnedNext ==
  ASSUME Serial, TypeInv, SupervisorInv, AloneInv, LockInv, HandInv, OwnedInv, [Next]_vars
  PROVE  OwnedInv'
<1> USE DEF fileVars, startVars, supVars, stopVars, osVars, histVars
<1>1. CASE \E s \in Starts : StartBegin(s) \/ StartStep(s)
  BY <1>1, OwnedStart
<1>2. CASE \E s \in Starts : SupStep(s) \/ SupCrash(s)
  BY <1>2, OwnedSup
<1>3. CASE \E t \in Stops : StopBegin(t) \/ StopStep(t)
  BY <1>3, OwnedStop
<1>4. CASE DeadlinePasses \/ ChildExits \/ LegacyEnds \/ UNCHANGED vars
  BY <1>4 DEF DeadlinePasses, ChildExits, LegacyEnds, vars, OwnedInv, TermHeard, PidsOwned,
              UntilOwned, TokenOwned, RadioOwned, StartRunning, SlowStart, SupRunning
<1>5. CASE \E s \in Starts : Interrupt(s)
  BY <1>5 DEF Interrupt, TypeInv, TypeOK, OwnedInv, TermHeard, PidsOwned,
              UntilOwned, TokenOwned, RadioOwned, StartRunning, SlowStart, SupRunning
<1> QED
  BY <1>1, <1>2, <1>3, <1>4, <1>5 DEF Next, Quiet

\* After a stop with no start begun since, whatever is left has a stop to remove it.
EndsHeard ==
  \A s \in Starts :
    /\ StartRunning(s) => pc[s] \in SlowStart \/ \E t \in Stops : tpc[t] = "starts"
    /\ SupRunning(s) => \E t \in Stops : tpc[t] \in {"starts", "scan", "sups"}
FilesStopped ==
  /\ pids # {} => \E t \in Stops : tpc[t] \in ToTake
  /\ until # "absent" => \E t \in Stops : tpc[t] \in ToUntil
  /\ supFile # None \/ tokFile # None => \E t \in Stops : tpc[t] \in ToUnset
RadioStopped ==
  /\ radio # "down" => \E t \in Stops : tpc[t] \in ToDown
  /\ reason # "stopped" => \E t \in Stops : StopRunning(t)
  /\ legacy => \E t \in Stops : tpc[t] \in {"starts", "scan"}

StoppedInv ==
  "hang" \notin may /\ since = {} /\ (\E t \in Stops : tpc[t] # "idle")
    => EndsHeard /\ FilesStopped /\ RadioStopped

LEMMA StoppedStart ==
  ASSUME Serial, TypeInv, SupervisorInv, AloneInv, LockInv, HandInv, StoppedInv, NEW s \in Starts, StartBegin(s) \/ StartStep(s)
  PROVE  StoppedInv'
<1> USE DEF StoppedInv, HandInv, AloneInv, SupervisorInv, OneSupervisor, SupRunning, StartRunning, StopRunning,
            Opening, Failing, PastStarts, PastSups, SlowStart, SlowSup, UntilLive, EndsHeard,
            FilesStopped, RadioStopped, ToTake, ToUntil, ToUnset, ToDown,
            fileVars, startVars, supVars, stopVars, osVars, histVars
<1>p. /\ pc \in [Starts -> StartPcs] /\ spc \in [Starts -> SupPcs] /\ tpc \in [Stops -> StopPcs]
      /\ cancelled \in [Starts -> BOOLEAN] /\ scancelled \in [Starts -> BOOLEAN]
      /\ ending \in [Starts -> {"none", "stopped", "expired", "no_awdl0"}]
      /\ supFile \in Starts \cup {None} /\ tokFile \in Starts \cup {None} /\ None \notin Starts
      /\ tstarts \in [Stops -> SUBSET Starts] /\ tsups \in [Stops -> SUBSET Starts]
      /\ startLock \in Starts \cup {None}
  BY RadioAssumption DEF TypeInv, TypeOK
<1>1. CASE StartBegin(s)
  BY <1>1, <1>p, SMTT(60) DEF StartBegin, Goto
<1>2. CASE StartWindowLock(s)
  BY <1>2, <1>p, SMTT(60) DEF StartWindowLock, Goto, Return
<1>3. CASE StartLook(s)
  BY <1>3, <1>p, SMTT(60) DEF StartLook, Goto, SupervisorAlive
<1>4. CASE StartExtend(s)
  BY <1>4, <1>p, SMTT(60) DEF StartExtend, Return
<1>5. CASE StartClosing(s)
  BY <1>5, <1>p, SMTT(60) DEF StartClosing, Goto, Return
<1>6. CASE StartOrphan(s)
  BY <1>6, <1>p, SMTT(60) DEF StartOrphan, Goto, KillOrphanedHook
<1>7. CASE StartTake(s)
  BY <1>7, <1>p, SMTT(60) DEF StartTake, Goto, TakeChildren
<1>8. CASE StartKill(s)
  BY <1>8, <1>p, SMTT(60) DEF StartKill, Goto, KillTaken
<1>9. CASE StartProbe(s)
  BY <1>9, <1>p, SMTT(60) DEF StartProbe, Goto, Return, RunHook
<1>10. CASE StartUp(s)
  BY <1>10, <1>p, SMTT(60) DEF StartUp, Goto, Return, RunHook, HookDone
<1>11. CASE StartCancelHook(s)
  BY <1>11, <1>p, SMTT(60) DEF StartCancelHook, Goto
<1>12. CASE StartHookKilled(s)
  BY <1>12, <1>p, SMTT(60) DEF StartHookKilled, Return, HookDone
<1>13. CASE StartIdentity(s)
  BY <1>13, <1>p, SMTT(60) DEF StartIdentity, Goto, Return, HookDone
<1>14. CASE StartPublish(s)
  BY <1>14, <1>p, SMTT(60) DEF StartPublish, Goto
<1>15. CASE StartToken(s)
  BY <1>15, <1>p, SMTT(60) DEF StartToken, Goto, FailStart, RunHook
<1>16. CASE StartCheck(s)
  BY <1>16, <1>p, SMTT(60) DEF StartCheck, Goto, Return
<1>17. CASE StartSpawn(s)
  BY <1>17, <1>p, SMTT(60) DEF StartSpawn, Goto, FailStart, RunHook
<1>18. CASE StartAwait(s)
  BY <1>18, <1>p, SMTT(60) DEF StartAwait, Goto, Return, SupervisorAlive
<1>19. CASE StartFailSup(s)
  BY <1>19, <1>p, SMTT(60) DEF StartFailSup, Goto, KillSups
<1>20. CASE StartFailUntil(s)
  BY <1>20, <1>p, SMTT(60) DEF StartFailUntil, Goto, FailStart, RunHook
<1>21. CASE StartFailDown(s)
  BY <1>21, <1>p, SMTT(60) DEF StartFailDown, Return, HookDone
<1> QED
  BY <1>1, <1>2, <1>3, <1>4, <1>5, <1>6, <1>7, <1>8, <1>9, <1>10, <1>11, <1>12, <1>13,
     <1>14, <1>15, <1>16, <1>17, <1>18, <1>19, <1>20, <1>21 DEF StartStep

LEMMA StoppedSup ==
  ASSUME Serial, TypeInv, SupervisorInv, AloneInv, LockInv, HandInv, StoppedInv, NEW s \in Starts, SupStep(s) \/ SupCrash(s)
  PROVE  StoppedInv'
<1> USE DEF StoppedInv, HandInv, AloneInv, SupervisorInv, OneSupervisor, SupRunning, StartRunning, StopRunning,
            Opening, Failing, PastStarts, PastSups, SlowStart, SlowSup, UntilLive, EndsHeard,
            FilesStopped, RadioStopped, ToTake, ToUntil, ToUnset, ToDown,
            fileVars, startVars, supVars, stopVars, osVars, histVars
<1>p. /\ pc \in [Starts -> StartPcs] /\ spc \in [Starts -> SupPcs] /\ tpc \in [Stops -> StopPcs]
      /\ cancelled \in [Starts -> BOOLEAN] /\ scancelled \in [Starts -> BOOLEAN]
      /\ ending \in [Starts -> {"none", "stopped", "expired", "no_awdl0"}]
      /\ supFile \in Starts \cup {None} /\ tokFile \in Starts \cup {None} /\ None \notin Starts
      /\ tstarts \in [Stops -> SUBSET Starts] /\ tsups \in [Stops -> SUBSET Starts]
      /\ startLock \in Starts \cup {None}
  BY RadioAssumption DEF TypeInv, TypeOK
<1>1. CASE SupToken(s)
  BY <1>1, <1>p, SMTT(60) DEF SupToken, SupGoto
<1>2. CASE SupRecord(s)
  BY <1>2, <1>p, SMTT(60) DEF SupRecord, SupGoto
<1>3. CASE SupSpawn(s)
  BY <1>3, <1>p, SMTT(60) DEF SupSpawn
<1>4. CASE SupRecordChild(s)
  BY <1>4, <1>p, SMTT(60) DEF SupRecordChild, SupGoto
<1>5. CASE SupEnterLoop(s)
  BY <1>5, <1>p, SMTT(60) DEF SupEnterLoop, SupGoto
<1>6. CASE SupLoop(s)
  BY <1>6, <1>p, SMTT(60) DEF SupLoop, SupGoto, RunHook
<1>7. CASE SupWindowLock(s)
  BY <1>7, <1>p, SMTT(60) DEF SupWindowLock, SupGoto
<1>8. CASE SupRecheck(s)
  BY <1>8, <1>p, SMTT(60) DEF SupRecheck, SupGoto, RunHook
<1>9. CASE SupExpired(s)
  BY <1>9, <1>p, SMTT(60) DEF SupExpired, SupGoto
<1>10. CASE SupTick(s)
  BY <1>10, <1>p, SMTT(60) DEF SupTick, SupGoto
<1>11. CASE SupEnd(s)
  BY <1>11, <1>p, SMTT(60) DEF SupEnd, SupGoto
<1>12. CASE SupTake(s)
  BY <1>12, <1>p, SMTT(60) DEF SupTake, SupGoto, TakeChildren
<1>13. CASE SupKill(s)
  BY <1>13, <1>p, SMTT(60) DEF SupKill, SupGoto
<1>14. CASE SupReason(s)
  BY <1>14, <1>p, SMTT(60) DEF SupReason, SupGoto, RunHook
<1>15. CASE SupDown(s)
  BY <1>15, <1>p, SMTT(60) DEF SupDown, SupGoto, HookDone
<1>16. CASE SupUnrecord(s)
  BY <1>16, <1>p, SMTT(60) DEF SupUnrecord, SupGoto
<1>17. CASE SupCrash(s)
  BY <1>17, <1>p, SMTT(60) DEF SupCrash, KillSups
<1> QED
  BY <1>1, <1>2, <1>3, <1>4, <1>5, <1>6, <1>7, <1>8, <1>9, <1>10, <1>11, <1>12, <1>13,
     <1>14, <1>15, <1>16, <1>17 DEF SupStep

LEMMA StoppedStop ==
  ASSUME Serial, TypeInv, SupervisorInv, AloneInv, LockInv, HandInv, StoppedInv, NEW t \in Stops, StopBegin(t) \/ StopStep(t)
  PROVE  StoppedInv'
<1> USE DEF StoppedInv, HandInv, AloneInv, SupervisorInv, OneSupervisor, SupRunning, StartRunning, StopRunning,
            Opening, Failing, PastStarts, PastSups, SlowStart, SlowSup, UntilLive, EndsHeard,
            FilesStopped, RadioStopped, ToTake, ToUntil, ToUnset, ToDown,
            fileVars, startVars, supVars, stopVars, osVars, histVars
<1>p. /\ pc \in [Starts -> StartPcs] /\ spc \in [Starts -> SupPcs] /\ tpc \in [Stops -> StopPcs]
      /\ cancelled \in [Starts -> BOOLEAN] /\ scancelled \in [Starts -> BOOLEAN]
      /\ ending \in [Starts -> {"none", "stopped", "expired", "no_awdl0"}]
      /\ supFile \in Starts \cup {None} /\ tokFile \in Starts \cup {None} /\ None \notin Starts
      /\ tstarts \in [Stops -> SUBSET Starts] /\ tsups \in [Stops -> SUBSET Starts]
      /\ startLock \in Starts \cup {None}
  BY RadioAssumption DEF TypeInv, TypeOK
<1>1. CASE StopBegin(t)
  BY <1>1, <1>p, SMTT(60) DEF StopBegin, StopGoto
<1>2. CASE StopWaitStarts(t)
  BY <1>2, <1>p, SMTT(60) DEF StopWaitStarts, StopGoto, SlowStart
<1>3. CASE StopScan(t)
  BY <1>3, <1>p, SMTT(60) DEF StopScan, StopGoto
<1>4. CASE StopWaitSups(t)
  BY <1>4, <1>p, SMTT(60) DEF StopWaitSups, StopGoto, KillSups
<1>5. CASE StopOrphan(t)
  BY <1>5, <1>p, SMTT(60) DEF StopOrphan, StopGoto
<1>6. CASE StopTake(t)
  BY <1>6, <1>p, SMTT(60) DEF StopTake, StopGoto, TakeChildren
<1>7. CASE StopKill(t)
  BY <1>7, <1>p, SMTT(60) DEF StopKill, StopGoto, KillTaken
<1>8. CASE StopUntil(t)
  BY <1>8, <1>p, SMTT(60) DEF StopUntil, StopGoto
<1>9. CASE StopUnset(t)
  BY <1>9, <1>p, SMTT(60) DEF StopUnset, StopGoto, RunHook
<1>10. CASE StopDown(t)
  BY <1>10, <1>p, SMTT(60) DEF StopDown, StopGoto, HookDone
<1>11. CASE StopReason(t)
  BY <1>11, <1>p, SMTT(60) DEF StopReason, StopGoto
<1> QED
  BY <1>1, <1>2, <1>3, <1>4, <1>5, <1>6, <1>7, <1>8, <1>9, <1>10, <1>11 DEF StopStep

LEMMA StoppedNext ==
  ASSUME Serial, TypeInv, SupervisorInv, AloneInv, LockInv, HandInv, StoppedInv, [Next]_vars
  PROVE  StoppedInv'
<1> USE DEF fileVars, startVars, supVars, stopVars, osVars, histVars
<1>1. CASE \E s \in Starts : StartBegin(s) \/ StartStep(s)
  BY <1>1, StoppedStart
<1>2. CASE \E s \in Starts : SupStep(s) \/ SupCrash(s)
  BY <1>2, StoppedSup
<1>3. CASE \E t \in Stops : StopBegin(t) \/ StopStep(t)
  BY <1>3, StoppedStop
<1>4. CASE DeadlinePasses \/ ChildExits \/ LegacyEnds \/ UNCHANGED vars
  BY <1>4 DEF DeadlinePasses, ChildExits, LegacyEnds, vars, StoppedInv, EndsHeard,
              FilesStopped, RadioStopped, StartRunning, SlowStart, SupRunning, StopRunning
<1>5. CASE \E s \in Starts : Interrupt(s)
  BY <1>5 DEF Interrupt, TypeInv, TypeOK, StoppedInv, EndsHeard,
              FilesStopped, RadioStopped, StartRunning, SlowStart, SupRunning, StopRunning
<1> QED
  BY <1>1, <1>2, <1>3, <1>4, <1>5 DEF Next, Quiet

-----------------------------------------------------------------------------
(* The children that a failing start loses. *)

\* The start is past the kill of a supervisor that did not show up, and returns 3.
LostBy(r) ==
  \/ pc[r] \in {"failtake", "failkill", "failuntil"}
  \/ pc[r] = "faildown" /\ code[r] = 3
  \/ pc[r] = "done" /\ rc[r] = 3

\* A supervisor knows of its own children only, for the list was empty when it was
\* spawned; so with no fault, whatever is lost was lost by the start that spawned it.
LostInv ==
  /\ \A s \in Starts :
       /\ pc[s] \in Opening \ {"orphan", "take"} => pids = {}
       /\ SupRunning(s) => \A c \in pids : c[1] = s
       /\ \A c \in unrecorded[s] \cup snapshot[SupProc(s)] : c[1] = s
  /\ may = {} => \A c \in stray : LostBy(c[1])

LEMMA LostStart ==
  ASSUME Serial, TypeInv, SupervisorInv, HandInv, LostInv, NEW s \in Starts, StartBegin(s) \/ StartStep(s)
  PROVE  LostInv'
<1> USE DEF LostInv, LostBy, SupervisorInv, OneSupervisor, HandInv, SupRunning, StartRunning, Opening,
            fileVars, startVars, supVars, stopVars, osVars, histVars
<1>p. /\ pc \in [Starts -> StartPcs] /\ spc \in [Starts -> SupPcs]
      /\ rc \in [Starts -> {0, 3, 4, 5}] /\ code \in [Starts -> {0, 3, 4}]
      /\ unrecorded \in [Starts -> SUBSET Child] /\ snapshot \in [Proc -> SUBSET Child]
      /\ pids \subseteq Child /\ stray \subseteq Child
  BY DEF TypeInv, TypeOK
<1>c. \A c \in Child : c[1] \in Starts
  BY DEF Child
<1>k. /\ \A r \in Starts : StartProc(r) \in Proc /\ SupProc(r) \in Proc
      /\ \A u \in Stops : StopProc(u) \in Proc
      /\ \A r, u \in Starts : StartProc(r) # SupProc(u)
      /\ \A r \in Starts, u \in Stops : SupProc(r) # StopProc(u)
      /\ \A r, u \in Starts : r # u => SupProc(r) # SupProc(u)
  BY ProcKinds
<1>1. CASE StartBegin(s)
  BY <1>1, <1>p, <1>c, <1>k, SMTT(60) DEF StartBegin, Goto
<1>2. CASE StartWindowLock(s)
  BY <1>2, <1>p, <1>c, <1>k, SMTT(60) DEF StartWindowLock, Goto, Return
<1>3. CASE StartLook(s)
  BY <1>3, <1>p, <1>c, <1>k, SMTT(60) DEF StartLook, Goto, SupervisorAlive
<1>4. CASE StartExtend(s)
  BY <1>4, <1>p, <1>c, <1>k, SMTT(60) DEF StartExtend, Return
<1>5. CASE StartClosing(s)
  BY <1>5, <1>p, <1>c, <1>k, SMTT(60) DEF StartClosing, Goto, Return
<1>6. CASE StartOrphan(s)
  BY <1>6, <1>p, <1>c, <1>k, SMTT(60) DEF StartOrphan, Goto, KillOrphanedHook
<1>7. CASE StartTake(s)
  BY <1>7, <1>p, <1>c, <1>k, SMTT(60) DEF StartTake, Goto, TakeChildren
<1>8. CASE StartKill(s)
  BY <1>8, <1>p, <1>c, <1>k, SMTT(60) DEF StartKill, Goto, KillTaken
<1>9. CASE StartProbe(s)
  BY <1>9, <1>p, <1>c, <1>k, SMTT(60) DEF StartProbe, Goto, Return, RunHook
<1>10. CASE StartUp(s)
  BY <1>10, <1>p, <1>c, <1>k, SMTT(60) DEF StartUp, Goto, Return, RunHook, HookDone
<1>11. CASE StartCancelHook(s)
  BY <1>11, <1>p, <1>c, <1>k, SMTT(60) DEF StartCancelHook, Goto
<1>12. CASE StartHookKilled(s)
  BY <1>12, <1>p, <1>c, <1>k, SMTT(60) DEF StartHookKilled, Return, HookDone
<1>13. CASE StartIdentity(s)
  BY <1>13, <1>p, <1>c, <1>k, SMTT(60) DEF StartIdentity, Goto, Return, HookDone
<1>14. CASE StartPublish(s)
  BY <1>14, <1>p, <1>c, <1>k, SMTT(60) DEF StartPublish, Goto
<1>15. CASE StartToken(s)
  BY <1>15, <1>p, <1>c, <1>k, SMTT(60) DEF StartToken, Goto, FailStart, RunHook
<1>16. CASE StartCheck(s)
  BY <1>16, <1>p, <1>c, <1>k, SMTT(60) DEF StartCheck, Goto, Return
<1>17. CASE StartSpawn(s)
  BY <1>17, <1>p, <1>c, <1>k, SMTT(60) DEF StartSpawn, Goto, FailStart, RunHook
<1>18. CASE StartAwait(s)
  BY <1>18, <1>p, <1>c, <1>k, SMTT(60) DEF StartAwait, Goto, Return, SupervisorAlive
<1>19. CASE StartFailSup(s)
  <2>1. /\ \A r \in Starts : spc'[r] = IF r = s /\ SupRunning(s) THEN "dead" ELSE spc[r]
        /\ \A r \in Starts : unrecorded'[r] = IF r = s THEN {} ELSE unrecorded[r]
        /\ \A q \in Proc : snapshot'[q] = IF q = SupProc(s) THEN {} ELSE snapshot[q]
        /\ pc[s] = "failsup" /\ pc' = [pc EXCEPT ![s] = "failtake"]
        /\ UNCHANGED <<pids, rc, code, may>>
    BY <1>19 DEF StartFailSup, Goto, KillSups
  <2>2. stray' \subseteq stray \cup unrecorded[s] \cup snapshot[SupProc(s)]
    BY <1>19 DEF StartFailSup, KillSups
  <2>3. \A c \in stray' : c \in stray \/ c[1] = s
    BY <2>2
  <2>4. may' = {} => \A c \in stray' : LostBy(c[1])'
    <3> SUFFICES ASSUME may = {}, NEW c \in stray' PROVE LostBy(c[1])'
      BY <2>1
    <3>1. CASE c[1] = s
      BY <1>p, <2>1, <3>1
    <3>2. CASE c[1] # s
      <4>1. c \in stray /\ c[1] \in Starts /\ LostBy(c[1])
        BY <1>p, <1>c, <2>3, <3>2
      <4> QED
        BY <1>p, <2>1, <3>2, <4>1
    <3> QED
      BY <3>1, <3>2
  <2>5. \A r \in Starts : /\ pc'[r] \in Opening \ {"orphan", "take"} => pids' = {}
                          /\ SupRunning(r)' => \A c \in pids' : c[1] = r
                          /\ \A c \in (unrecorded[r] \cup snapshot[SupProc(r)])' : c[1] = r
    BY <1>p, <1>k, <2>1
  <2> QED
    BY <2>4, <2>5
<1>20. CASE StartFailUntil(s)
  BY <1>20, <1>p, <1>c, <1>k, SMTT(60) DEF StartFailUntil, Goto, FailStart, RunHook
<1>21. CASE StartFailDown(s)
  BY <1>21, <1>p, <1>c, <1>k, SMTT(60) DEF StartFailDown, Return, HookDone
<1> QED
  BY <1>1, <1>2, <1>3, <1>4, <1>5, <1>6, <1>7, <1>8, <1>9, <1>10, <1>11, <1>12, <1>13, <1>14,
     <1>15, <1>16, <1>17, <1>18, <1>19, <1>20, <1>21 DEF StartStep

LEMMA LostSup ==
  ASSUME Serial, TypeInv, SupervisorInv, HandInv, LostInv, NEW s \in Starts, SupStep(s) \/ SupCrash(s)
  PROVE  LostInv'
<1> USE DEF LostInv, LostBy, SupervisorInv, OneSupervisor, HandInv, SupRunning, StartRunning, Opening,
            fileVars, startVars, supVars, stopVars, osVars, histVars
<1>p. /\ pc \in [Starts -> StartPcs] /\ spc \in [Starts -> SupPcs]
      /\ rc \in [Starts -> {0, 3, 4, 5}] /\ code \in [Starts -> {0, 3, 4}]
      /\ unrecorded \in [Starts -> SUBSET Child] /\ snapshot \in [Proc -> SUBSET Child]
      /\ pids \subseteq Child /\ stray \subseteq Child
  BY DEF TypeInv, TypeOK
<1>c. \A c \in Child : c[1] \in Starts
  BY DEF Child
<1>k. /\ \A r \in Starts : StartProc(r) \in Proc /\ SupProc(r) \in Proc
      /\ \A u \in Stops : StopProc(u) \in Proc
      /\ \A r, u \in Starts : StartProc(r) # SupProc(u)
      /\ \A r \in Starts, u \in Stops : SupProc(r) # StopProc(u)
      /\ \A r, u \in Starts : r # u => SupProc(r) # SupProc(u)
  BY ProcKinds
<1>1. CASE SupToken(s)
  BY <1>1, <1>p, <1>c, <1>k, SMTT(60) DEF SupToken, SupGoto
<1>2. CASE SupRecord(s)
  BY <1>2, <1>p, <1>c, <1>k, SMTT(60) DEF SupRecord, SupGoto
<1>3. CASE SupSpawn(s)
  BY <1>3, <1>p, <1>c, <1>k, SMTT(60) DEF SupSpawn
<1>4. CASE SupRecordChild(s)
  BY <1>4, <1>p, <1>c, <1>k, SMTT(60) DEF SupRecordChild, SupGoto
<1>5. CASE SupEnterLoop(s)
  BY <1>5, <1>p, <1>c, <1>k, SMTT(60) DEF SupEnterLoop, SupGoto
<1>6. CASE SupLoop(s)
  BY <1>6, <1>p, <1>c, <1>k, SMTT(60) DEF SupLoop, SupGoto, RunHook
<1>7. CASE SupWindowLock(s)
  BY <1>7, <1>p, <1>c, <1>k, SMTT(60) DEF SupWindowLock, SupGoto
<1>8. CASE SupRecheck(s)
  BY <1>8, <1>p, <1>c, <1>k, SMTT(60) DEF SupRecheck, SupGoto, RunHook
<1>9. CASE SupExpired(s)
  BY <1>9, <1>p, <1>c, <1>k, SMTT(60) DEF SupExpired, SupGoto
<1>10. CASE SupTick(s)
  BY <1>10, <1>p, <1>c, <1>k, SMTT(60) DEF SupTick, SupGoto
<1>11. CASE SupEnd(s)
  BY <1>11, <1>p, <1>c, <1>k, SMTT(60) DEF SupEnd, SupGoto
<1>12. CASE SupTake(s)
  BY <1>12, <1>p, <1>c, <1>k, SMTT(60) DEF SupTake, SupGoto, TakeChildren
<1>13. CASE SupKill(s)
  BY <1>13, <1>p, <1>c, <1>k, SMTT(60) DEF SupKill, SupGoto
<1>14. CASE SupReason(s)
  BY <1>14, <1>p, <1>c, <1>k, SMTT(60) DEF SupReason, SupGoto, RunHook
<1>15. CASE SupDown(s)
  BY <1>15, <1>p, <1>c, <1>k, SMTT(60) DEF SupDown, SupGoto, HookDone
<1>16. CASE SupUnrecord(s)
  BY <1>16, <1>p, <1>c, <1>k, SMTT(60) DEF SupUnrecord, SupGoto
<1>17. CASE SupCrash(s)
  BY <1>17, <1>p, <1>c, <1>k, SMTT(60) DEF SupCrash, KillSups
<1> QED
  BY <1>1, <1>2, <1>3, <1>4, <1>5, <1>6, <1>7, <1>8, <1>9, <1>10, <1>11, <1>12, <1>13, <1>14,
     <1>15, <1>16, <1>17 DEF SupStep

LEMMA LostStop ==
  ASSUME Serial, TypeInv, SupervisorInv, HandInv, LostInv, NEW t \in Stops, StopBegin(t) \/ StopStep(t)
  PROVE  LostInv'
<1> USE DEF LostInv, LostBy, SupervisorInv, OneSupervisor, HandInv, SupRunning, StartRunning, Opening,
            fileVars, startVars, supVars, stopVars, osVars, histVars
<1>p. /\ pc \in [Starts -> StartPcs] /\ spc \in [Starts -> SupPcs]
      /\ rc \in [Starts -> {0, 3, 4, 5}] /\ code \in [Starts -> {0, 3, 4}]
      /\ unrecorded \in [Starts -> SUBSET Child] /\ snapshot \in [Proc -> SUBSET Child]
      /\ pids \subseteq Child /\ stray \subseteq Child
  BY DEF TypeInv, TypeOK
<1>c. \A c \in Child : c[1] \in Starts
  BY DEF Child
<1>k. /\ \A r \in Starts : StartProc(r) \in Proc /\ SupProc(r) \in Proc
      /\ \A u \in Stops : StopProc(u) \in Proc
      /\ \A r, u \in Starts : StartProc(r) # SupProc(u)
      /\ \A r \in Starts, u \in Stops : SupProc(r) # StopProc(u)
      /\ \A r, u \in Starts : r # u => SupProc(r) # SupProc(u)
  BY ProcKinds
<1>1. CASE StopBegin(t)
  BY <1>1, <1>p, <1>c, <1>k, SMTT(60) DEF StopBegin, StopGoto
<1>2. CASE StopWaitStarts(t)
  BY <1>2, <1>p, <1>c, <1>k, SMTT(60) DEF StopWaitStarts, StopGoto, SlowStart
<1>3. CASE StopScan(t)
  BY <1>3, <1>p, <1>c, <1>k, SMTT(60) DEF StopScan, StopGoto
<1>4. CASE StopWaitSups(t)
  <2>1. /\ \A r \in Starts : SupRunning(r)' => SupRunning(r)
        /\ \A r \in Starts : unrecorded'[r] \subseteq unrecorded[r]
        /\ \A q \in Proc : snapshot'[q] \subseteq snapshot[q]
        /\ UNCHANGED <<pc, rc, code, pids, may>>
    BY <1>4, <1>p DEF StopWaitSups, StopGoto, KillSups
  <2>2. may = {} => \A r \in tsups[t] \cap Starts : unrecorded[r] = {} /\ snapshot[SupProc(r)] = {}
    BY <1>4 DEF StopWaitSups, SlowSup
  <2>3. stray' = stray \cup (children \cap
                  UNION {unrecorded[r] \cup snapshot[SupProc(r)] : r \in tsups[t]})
    BY <1>4 DEF StopWaitSups, KillSups
  <2>4. may = {} => stray' = stray
    BY <2>2, <2>3 DEF TypeInv, TypeOK
  <2>5. may' = {} => \A c \in stray' : LostBy(c[1])'
    BY <2>1, <2>4
  <2> QED
    BY <1>k, <2>1, <2>5
<1>5. CASE StopOrphan(t)
  BY <1>5, <1>p, <1>c, <1>k, SMTT(60) DEF StopOrphan, StopGoto
<1>6. CASE StopTake(t)
  BY <1>6, <1>p, <1>c, <1>k, SMTT(60) DEF StopTake, StopGoto, TakeChildren
<1>7. CASE StopKill(t)
  BY <1>7, <1>p, <1>c, <1>k, SMTT(60) DEF StopKill, StopGoto, KillTaken
<1>8. CASE StopUntil(t)
  BY <1>8, <1>p, <1>c, <1>k, SMTT(60) DEF StopUntil, StopGoto
<1>9. CASE StopUnset(t)
  BY <1>9, <1>p, <1>c, <1>k, SMTT(60) DEF StopUnset, StopGoto, RunHook
<1>10. CASE StopDown(t)
  BY <1>10, <1>p, <1>c, <1>k, SMTT(60) DEF StopDown, StopGoto, HookDone
<1>11. CASE StopReason(t)
  BY <1>11, <1>p, <1>c, <1>k, SMTT(60) DEF StopReason, StopGoto
<1> QED
  BY <1>1, <1>2, <1>3, <1>4, <1>5, <1>6, <1>7, <1>8, <1>9, <1>10, <1>11 DEF StopStep

LEMMA LostNext ==
  ASSUME Serial, TypeInv, SupervisorInv, HandInv, LostInv, [Next]_vars
  PROVE  LostInv'
<1> USE DEF fileVars, startVars, supVars, stopVars, osVars, histVars
<1>1. CASE \E s \in Starts : StartBegin(s) \/ StartStep(s)
  BY <1>1, LostStart
<1>2. CASE \E s \in Starts : SupStep(s) \/ SupCrash(s)
  BY <1>2, LostSup
<1>3. CASE \E t \in Stops : StopBegin(t) \/ StopStep(t)
  BY <1>3, LostStop
<1>4. CASE DeadlinePasses \/ ChildExits \/ LegacyEnds \/ (\E s \in Starts : Interrupt(s)) \/ UNCHANGED vars
  BY <1>4 DEF DeadlinePasses, ChildExits, LegacyEnds, Interrupt, vars, LostInv, LostBy, SupRunning
<1> QED
  BY <1>1, <1>2, <1>3, <1>4 DEF Next, Quiet

\* The argument for an empty machine.
QuietInv == AloneInv /\ LockInv /\ HandInv /\ ChildInv /\ OwnedInv /\ StoppedInv /\ LostInv

LEMMA QuietInvariant ==
  ASSUME Serial PROVE Spec => [](TypeInv /\ SupervisorInv /\ QuietInv)
<1>1. Init => QuietInv
  <2> SUFFICES ASSUME Init PROVE QuietInv
    OBVIOUS
  <2>1. AloneInv /\ LockInv
    BY DEF Init, AloneInv, LockInv, StartRunning, SupRunning, Failing, PastStarts
  <2>2. HandInv
    BY ProcTypes, RadioAssumption DEF Init, HandInv
  <2>3. ChildInv /\ StoppedInv
    BY DEF Init, ChildInv, StoppedInv
  <2>4. OwnedInv
    BY DEF Init, OwnedInv, TermHeard, PidsOwned, UntilOwned, TokenOwned, RadioOwned, StartRunning,
       SupRunning, Gone
  <2>5. LostInv
    BY ProcTypes DEF Init, LostInv, SupRunning, Opening
  <2> QED
    BY <2>1, <2>2, <2>3, <2>4, <2>5 DEF QuietInv
<1>2. TypeInv /\ SupervisorInv /\ QuietInv /\ [Next]_vars => QuietInv'
  BY AloneNext, LockNext, HandNext, ChildNext, OwnedNext, StoppedNext, LostNext DEF QuietInv
<1> QED
  BY <1>1, <1>2, TypeInit, TypeNext, SupervisorInvariant, PTL DEF Spec

\* With no list taken, no child unrecorded and no list written, no child is known.
LEMMA NoneKnown ==
  ASSUME TypeInv, HandInv, ChildInv, pids = {},
         \A s \in Starts : pc[s] \notin {"kill", "failkill"} /\ spc[s] \notin {"children", "kill"},
         \A t \in Stops : tpc[t] # "kill"
  PROVE  children \subseteq stray
<1>1. \A p \in Proc : snapshot[p] = {}
  BY ProcKinds DEF HandInv
<1>2. \A s \in Starts : unrecorded[s] = {}
  BY DEF HandInv
<1> QED
  BY <1>1, <1>2 DEF ChildInv

\* As long as no start begins under a stop: when no start, supervisor or stop is left,
\* nothing of a window is; and where a supervisor was killed or a start interrupted, a
\* stop with no start after it leaves the machine off, and saying so.
THEOREM AllQuietAlways ==
  ASSUME Serial PROVE Spec => []AllQuiet
<1>1. TypeInv /\ SupervisorInv /\ QuietInv => AllQuiet
  <2> SUFFICES ASSUME TypeInv, QuietInv, NothingRuns
               PROVE  /\ may = {} =>
                           /\ until = "absent" /\ tokFile = None
                           /\ children \subseteq LeftByFailing /\ radio = "down"
                      /\ ("hang" \notin may /\ since = {} /\ \E t \in Stops : tpc[t] = "done") =>
                           /\ until = "absent" /\ reason = "stopped" /\ supFile = None /\ tokFile = None
                           /\ children \subseteq stray /\ radio = "down" /\ ~legacy
    BY DEF AllQuiet
  <2>1. /\ \A s \in Starts : pc[s] \in {"idle", "done"} /\ spc[s] \in {"none", "dead"}
        /\ \A t \in Stops : tpc[t] \in {"idle", "done"}
    BY DEF NothingRuns, StartRunning, SupRunning, StopRunning
  <2>2. pids = {} => children \subseteq stray
    BY <2>1, NoneKnown DEF QuietInv
  <2>3. CASE may = {}
    <3>1. tokFile \in Starts \cup {None}
      BY DEF TypeInv, TypeOK
    <3>2. until = "absent" /\ tokFile = None /\ pids = {} /\ radio = "down"
      BY <2>1, <2>3, <3>1 DEF QuietInv, OwnedInv, PidsOwned, UntilOwned, TokenOwned, RadioOwned, Live, Watching,
         Raised, Failing, SupRunning, ToTake, ToUntil, ToUnset, ToDown
    <3>3. ("hang" \notin may /\ since = {} /\ \E t \in Stops : tpc[t] = "done") =>
             reason = "stopped" /\ supFile = None /\ ~legacy
      BY <2>1 DEF QuietInv, StoppedInv, FilesStopped, RadioStopped, StopRunning, ToTake, ToUntil, ToUnset
    <3>4. stray \subseteq LeftByFailing
      <4>1. \A c \in stray : c[1] \in Starts /\ LostBy(c[1])
        BY <2>3 DEF QuietInv, LostInv, TypeInv, TypeOK, Child
      <4> QED
        BY <2>1, <4>1 DEF LostBy, LeftByFailing
    <3> QED
      BY <2>2, <3>2, <3>3, <3>4
  <2>4. ("hang" \notin may /\ since = {} /\ \E t \in Stops : tpc[t] = "done") =>
           /\ until = "absent" /\ reason = "stopped" /\ supFile = None /\ tokFile = None
           /\ pids = {} /\ radio = "down" /\ ~legacy
    BY <2>1 DEF QuietInv, StoppedInv, FilesStopped, RadioStopped, StopRunning, ToTake, ToUntil, ToUnset,
       ToDown
  <2> QED
    BY <2>2, <2>3, <2>4
<1> QED
  BY <1>1, QuietInvariant, PTL

-----------------------------------------------------------------------------
(* A start that fails. *)

\* What a failing start leaves.
CleanFail(s) ==
  (/\ may = {} /\ StartRunning(s) /\ pc'[s] = "done" /\ rc'[s] \in {3, 4}
   /\ pc[s] # "closing" /\ \A t \in Stops : ~StopRunning(t))
  => /\ until' = "absent" /\ tokFile' = None /\ radio' = "down"
     /\ ~SupRunning(s)' /\ children' \subseteq LeftByFailing'

\* A start that has asked the backend, or run its `up` or its `down`, has a machine
\* with nothing of a window on it.
LEMMA FailingIsClean ==
  ASSUME TypeInv, SupervisorInv, QuietInv, may = {}, \A t \in Stops : ~StopRunning(t),
         NEW s \in Starts, pc[s] \in {"probe", "up", "faildown"}
  PROVE  /\ until = "absent" /\ tokFile = None /\ ~SupRunning(s) /\ children \subseteq stray
         /\ pc[s] # "faildown" => radio = "down"
         /\ \A c \in stray : \/ c[1] # s /\ pc[c[1]] = "done" /\ rc[c[1]] = 3
                             \/ c[1] = s /\ pc[s] = "faildown" /\ code[s] = 3
<1>1. /\ \A r \in Starts : spc[r] \in {"none", "dead"}
      /\ \A r \in Starts \ {s} : pc[r] \in {"idle", "done"}
      /\ \A t \in Stops : tpc[t] \in {"idle", "done"}
  BY DEF QuietInv, SupervisorInv, AloneInv, Opening, Failing, StartRunning, SupRunning, StopRunning
<1>2. tokFile \in Starts \cup {None}
  BY DEF TypeInv, TypeOK
<1>3. pids = {} /\ until = "absent"
  BY <1>1 DEF QuietInv, OwnedInv, PidsOwned, UntilOwned, Live, Watching, ToTake, ToUntil
<1>4. tokFile = None /\ (pc[s] # "faildown" => radio = "down")
  BY <1>1, <1>2 DEF QuietInv, OwnedInv, TokenOwned, RadioOwned, Raised, Failing, SupRunning, ToTake, ToUntil,
     ToUnset, ToDown
<1>5. children \subseteq stray
  BY <1>1, <1>3, NoneKnown DEF QuietInv
<1>6. \A c \in stray : \/ c[1] # s /\ pc[c[1]] = "done" /\ rc[c[1]] = 3
                       \/ c[1] = s /\ pc[s] = "faildown" /\ code[s] = 3
  <2>1. \A c \in stray : c[1] \in Starts /\ LostBy(c[1])
    BY DEF QuietInv, LostInv, TypeInv, TypeOK, Child
  <2>2. ASSUME NEW r \in Starts, LostBy(r)
        PROVE  \/ r # s /\ pc[r] = "done" /\ rc[r] = 3
               \/ r = s /\ pc[r] = "faildown" /\ code[r] = 3
    <3>1. CASE r = s
      BY <2>2, <3>1 DEF LostBy
    <3>2. CASE r # s
      <4>1. pc[r] \in {"idle", "done"}
        BY <1>1, <3>2
      <4> QED
        BY <2>2, <3>2, <4>1 DEF LostBy
    <3> QED
      BY <3>1, <3>2
  <2> SUFFICES ASSUME NEW c \in stray
               PROVE  \/ c[1] # s /\ pc[c[1]] = "done" /\ rc[c[1]] = 3
                      \/ c[1] = s /\ pc[s] = "faildown" /\ code[s] = 3
    OBVIOUS
  <2> QED
    BY <2>1, <2>2
<1> QED
  BY <1>1, <1>3, <1>4, <1>5, <1>6 DEF SupRunning

LEMMA CleanFailStep ==
  ASSUME TypeInv, SupervisorInv, QuietInv, NEW s \in Starts, StartStep(s)
  PROVE  CleanFail(s)
<1> SUFFICES ASSUME may = {}, StartRunning(s), pc'[s] = "done", rc'[s] \in {3, 4}, pc[s] # "closing",
                    \A t \in Stops : ~StopRunning(t)
             PROVE  /\ until' = "absent" /\ tokFile' = None /\ radio' = "down"
                    /\ ~SupRunning(s)' /\ children' \subseteq LeftByFailing'
  BY DEF CleanFail
<1> USE DEF fileVars, startVars, supVars, stopVars, osVars, histVars
<1>p. pc \in [Starts -> StartPcs] /\ rc \in [Starts -> {0, 3, 4, 5}]
  BY DEF TypeInv, TypeOK
<1>h. ~cancelled[s] \/ pc[s] \in SlowStart
  BY DEF QuietInv, OwnedInv, TermHeard, StopRunning
<1>1. StartProbe(s) \/ StartUp(s) \/ StartFailDown(s)
  <2>1. pc[s] \notin {"probekill", "upkill", "idkill"}
    BY <1>h DEF QuietInv, HandInv, SlowStart
  <2>2. ~(cancelled[s] /\ pc[s] \in {"identity", "check"})
    BY <1>h DEF SlowStart
  <2>3. ~StartWindowLock(s) /\ ~StartLook(s) /\ ~StartExtend(s) /\ ~StartClosing(s) /\ ~StartOrphan(s)
    BY <1>p DEF StartWindowLock, StartLook, StartExtend, StartClosing, StartOrphan, Goto, Return
  <2>4. ~StartTake(s) /\ ~StartKill(s) /\ ~StartCancelHook(s) /\ ~StartHookKilled(s) /\ ~StartIdentity(s)
    BY <1>p, <2>1, <2>2 DEF StartTake, StartKill, StartCancelHook, StartHookKilled, StartIdentity, Goto
  <2>5. ~StartPublish(s) /\ ~StartToken(s) /\ ~StartCheck(s) /\ ~StartSpawn(s)
    BY <1>p, <2>2 DEF StartPublish, StartToken, StartCheck, StartSpawn, FailStart, Goto
  <2>6. ~StartFailSup(s) /\ ~StartFailUntil(s)
    BY <1>p DEF StartFailSup, StartFailUntil, FailStart, Goto
  <2>7. ~StartAwait(s)
    <3>1. StartAwait(s) => rc'[s] = 0 \/ pc'[s] = "failsup"
      BY <1>p DEF StartAwait, Goto, Return
    <3> QED
      BY <3>1
  <2> QED
    BY <2>3, <2>4, <2>5, <2>6, <2>7 DEF StartStep
<1>2. pc[s] \in {"probe", "up", "faildown"} /\ (pc[s] = "faildown" => StartFailDown(s))
  BY <1>1 DEF StartProbe, StartUp, StartFailDown
<1>3. /\ until = "absent" /\ tokFile = None /\ ~SupRunning(s) /\ children \subseteq stray
      /\ pc[s] # "faildown" => radio = "down"
      /\ \A c \in stray : \/ c[1] # s /\ pc[c[1]] = "done" /\ rc[c[1]] = 3
                          \/ c[1] = s /\ pc[s] = "faildown" /\ code[s] = 3
  BY <1>2, FailingIsClean
<1>4. UNCHANGED <<until, tokFile, spc, children, stray>>
  BY <1>1 DEF StartProbe, StartUp, StartFailDown
<1>5. radio' = "down"
  BY <1>1, <1>2, <1>3, <1>p DEF StartProbe, StartUp, StartFailDown, Goto
<1>6. stray' \subseteq LeftByFailing'
  <2>1. \A c \in stray : c[1] \in Starts
    BY DEF TypeInv, TypeOK, Child
  <2>2. ASSUME NEW c \in stray PROVE pc'[c[1]] = "done" /\ rc'[c[1]] = 3
    <3>1. CASE c[1] # s
      <4>1. pc'[c[1]] = pc[c[1]] /\ rc'[c[1]] = rc[c[1]]
        BY <1>1, <1>p, <2>1, <3>1 DEF StartProbe, StartUp, StartFailDown, Goto, Return
      <4> QED
        BY <1>3, <3>1, <4>1
    <3>2. CASE c[1] = s
      <4>1. StartFailDown(s) /\ code[s] = 3
        BY <1>2, <1>3, <3>2
      <4> QED
        BY <1>p, <3>2, <4>1 DEF StartFailDown, Return
    <3> QED
      BY <3>1, <3>2
  <2> QED
    BY <1>4, <2>2 DEF LeftByFailing
<1> QED
  BY <1>3, <1>4, <1>5, <1>6 DEF SupRunning

\* A start that nobody cancelled and that returns 3 or 4, other than for a window that
\* is still closing, leaves no deadline, token or supervisor behind, `down` was the
\* radio's last word, and a child only if it, or an earlier start that failed, killed
\* the child's supervisor for being slow before the child was recorded.
THEOREM FailedStartCleansAlways ==
  ASSUME Serial PROVE Spec => FailedStartCleans
<1>1. TypeInv /\ SupervisorInv /\ QuietInv /\ [Next]_vars => [\A s \in Starts : CleanFail(s)]_vars
  <2> SUFFICES ASSUME TypeInv, SupervisorInv, QuietInv, Next, NEW s \in Starts
               PROVE  CleanFail(s)
    OBVIOUS
  <2>1. CASE StartStep(s)
    BY <2>1, CleanFailStep
  <2>2. CASE \E r \in Starts \ {s} : StartBegin(r) \/ StartStep(r)
    <3>1. PICK r \in Starts \ {s} : StartBegin(r) \/ StartStep(r)
      BY <2>2
    <3>2. pc'[s] = pc[s]
      BY <3>1 DEF TypeInv, TypeOK, StartBegin, StartStep, StartWindowLock, StartLook, StartExtend, StartClosing,
         StartOrphan, StartTake, StartKill, StartProbe, StartUp, StartCancelHook, StartHookKilled, StartIdentity,
         StartPublish, StartToken, StartCheck, StartSpawn, StartAwait, StartFailSup, StartFailUntil,
         StartFailDown, Goto, Return, FailStart, startVars
    <3> QED
      BY <3>2 DEF CleanFail, StartRunning
  <2>3. CASE StartBegin(s)
    BY <2>3 DEF StartBegin, CleanFail, StartRunning
  <2>4. CASE \E r \in Starts : SupStep(r) \/ SupCrash(r) \/ Interrupt(r)
    <3>1. pc' = pc
      BY <2>4 DEF SupStep, SupToken, SupRecord, SupSpawn, SupRecordChild, SupEnterLoop, SupLoop, SupWindowLock,
         SupRecheck, SupExpired, SupTick, SupEnd, SupTake, SupKill, SupReason, SupDown, SupUnrecord, SupCrash,
         Interrupt, startVars
    <3> QED
      BY <3>1 DEF CleanFail, StartRunning
  <2>5. CASE (\E t \in Stops : StopBegin(t) \/ StopStep(t)) \/ DeadlinePasses \/ ChildExits \/ LegacyEnds
             \/ Quiet
    <3>1. pc' = pc
      BY <2>5 DEF StopBegin, StopStep, StopWaitStarts, StopScan, StopWaitSups, StopOrphan, StopTake, StopKill,
         StopUntil, StopUnset, StopDown, StopReason, DeadlinePasses, ChildExits, LegacyEnds, Quiet, vars,
         startVars
    <3> QED
      BY <3>1 DEF CleanFail, StartRunning
  <2> QED
    BY <2>1, <2>2, <2>3, <2>4, <2>5 DEF Next
<1>2. [\A s \in Starts : CleanFail(s)]_vars =>
      [\A s \in Starts :
       (/\ may = {} /\ StartRunning(s) /\ pc'[s] = "done" /\ rc'[s] \in {3, 4}
        /\ pc[s] # "closing" /\ \A t \in Stops : ~StopRunning(t))
       => /\ until' = "absent" /\ tokFile' = None /\ radio' = "down"
          /\ ~SupRunning(s)' /\ children' \subseteq LeftByFailing']_vars
  BY DEF CleanFail
<1> QED
  BY <1>1, <1>2, QuietInvariant, PTL DEF Spec, FailedStartCleans
=============================================================================
