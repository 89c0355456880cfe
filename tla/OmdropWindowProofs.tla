------------------------- MODULE OmdropWindowProofs -------------------------
(***************************************************************************)
(* Theorems about OmdropWindow, for any number of ons and offs, whatever     *)
(* fails and however often a window is opened again.                         *)
(***************************************************************************)
EXTENDS OmdropWindow, TLAPS

\* Nobody has two roles.
LEMMA Distinct ==
  /\ \A p \in Ons : p \notin Closers /\ p \notin Services /\ p # None
  /\ \A p \in Ons : p # "window" /\ p # "expiry" /\ p # "once"
  /\ \A p \in Closers : p \notin Ons /\ p # None
  /\ "window" \in Closers /\ "expiry" \in Closers /\ "once" \in Closers
BY WindowAssumption DEF Closers, Services

\* What a failed on has left to do ends with identity_abort: until then there is
\* a step left.
LEMMA UndoTail ==
  ASSUME NEW u \in Undos \ {<<>>}
  PROVE  /\ Tail(u) \in Undos
         /\ Head(u) # "abort" => Tail(u) # <<>>
<1>1. CASE u = <<"abort">>
  BY <1>1 DEF Undos
<1>2. CASE u = <<"radio", "abort">>
  BY <1>2 DEF Undos
<1>3. CASE u = <<"receiver", "radio", "abort">>
  BY <1>3 DEF Undos
<1>4. CASE u = <<"cancel", "abort">>
  BY <1>4 DEF Undos
<1>5. CASE u = <<"cancel", "radio", "abort">>
  BY <1>5 DEF Undos
<1>6. CASE u = <<"cancel", "receiver", "radio", "abort">>
  BY <1>6 DEF Undos
<1> QED
  BY <1>1, <1>2, <1>3, <1>4, <1>5, <1>6 DEF Undos

\* The lists that a failing on starts from.
LEMMA UndoSteps ==
  /\ <<"abort">> \in Undos \ {<<>>}
  /\ <<"cancel", "abort">> \in Undos \ {<<>>}
  /\ <<"cancel", "radio", "abort">> \in Undos \ {<<>>}
  /\ <<"cancel", "receiver", "radio", "abort">> \in Undos \ {<<>>}
BY DEF Undos

\* The lock and the counter: an on that is at work holds the lock; one that an
\* off overtook has read a smaller `seq` than there is now.
Overtaken ==
  /\ \A p \in Ons : mySeq[p] <= seq
  /\ \A p \in overtaken : pc[p] = "begun" => mySeq[p] # seq

UndoLeft == \A p \in Ons : pc[p] = "undo" => undo[p] # <<>>

WindowInv == TypeOK /\ UndoLeft /\ NeverInterleave /\ Overtaken /\ OffSettles

\* A start that fails has a step to undo.
LEMMA AbandonTypes ==
  ASSUME ProcTypes, UndoLeft, NEW p \in Ons, NEW u \in Undos \ {<<>>}, Abandon(p, u),
         UNCHANGED <<mySeq, shape>>
  PROVE  ProcTypes' /\ UndoLeft'
<1>1. undo' \in [Ons -> Undos]
  BY DEF Abandon, ProcTypes
<1>2. UndoLeft'
  BY DEF Abandon, ProcTypes, UndoLeft, Goto
<1>3. /\ pc' \in [Ons \cup Closers -> OnPcs \cup OffPcs]
      /\ \A q \in Ons : pc'[q] \in OnPcs
      /\ \A q \in Closers : pc'[q] \in OffPcs
  BY Distinct DEF Abandon, ProcTypes, Goto, OnPcs
<1> QED
  BY <1>1, <1>2, <1>3 DEF ProcTypes

\* What a receiver's start comes to.
LEMMA LoadsIs ==
  ASSUME UnitTypes
  PROVE  /\ Loads \in {"restarting", "self-signed", "1password"}
         /\ Loads = "1password" => window = "1password"
BY DEF UnitTypes, Loads

Received(p) ==
  /\ pc' = [pc EXCEPT ![p] = IF pc[p] = "first" THEN "radio" ELSE "arm"] /\ UNCHANGED undo
  /\ receiver' \in {"restarting", "self-signed", "1password"}
  /\ \/ receiver' = receiver /\ (orphan' <=> orphan)
     \/ ~orphan' /\ (receiver' = "1password" => window = "1password")

NotReceived(p) ==
  /\ "receiver" \in may
  /\ Abandon(p, IF pc[p] = "first" THEN <<"cancel", "abort">> ELSE <<"cancel", "radio", "abort">>)
  /\ receiver' \in {receiver, "restarting"} /\ (orphan' <=> receiver' # "off")

LEMMA OnReceiverFacts ==
  ASSUME UnitTypes, NEW p \in Ons, OnReceiver(p)
  PROVE  /\ pc[p] \in {"first", "receiver"} /\ orphan' \in BOOLEAN
         /\ UNCHANGED <<seq, window, lock, radio, armed, watch, age, mySeq, shape, overtaken, last, may>>
         /\ Received(p) \/ NotReceived(p)
<1>1. /\ pc[p] \in {"first", "receiver"}
      /\ UNCHANGED <<seq, window, lock, radio, armed, watch, age, mySeq, shape, overtaken, last, may>>
  BY DEF OnReceiver, fileVars
<1>2. CASE /\ receiver' = IF Down THEN Loads ELSE receiver
           /\ orphan' = (orphan /\ ~Down)
           /\ Goto(p, IF pc[p] = "first" THEN "radio" ELSE "arm")
           /\ UNCHANGED undo
  <2>1. CASE Down
    <3>1. receiver' = Loads /\ orphan' = FALSE
      BY <1>2, <2>1
    <3> QED
      BY <1>1, <1>2, <3>1, LoadsIs DEF Received, Goto
  <2>2. CASE ~Down
    <3>1. receiver' = receiver /\ orphan' = orphan /\ receiver \in {"self-signed", "1password"}
      BY <1>2, <2>2 DEF Down, UnitTypes
    <3> QED
      BY <1>1, <1>2, <3>1 DEF Received, Goto, UnitTypes
  <2> QED
    BY <2>1, <2>2
<1>3. CASE /\ "receiver" \in may
           /\ Abandon(p, IF pc[p] = "first" THEN <<"cancel", "abort">>
                                            ELSE <<"cancel", "radio", "abort">>)
           /\ UNCHANGED receiver \/ (Down /\ receiver' = "restarting")
           /\ orphan' = (receiver' # "off")
  BY <1>1, <1>3 DEF NotReceived
<1> QED
  BY <1>2, <1>3 DEF OnReceiver

LEMMA RestartFacts ==
  ASSUME UnitTypes, ReceiverRestart
  PROVE  /\ receiver = "restarting" /\ receiver' \in {"off", "restarting", "self-signed", "1password"}
         /\ receiver' = "off" => ~orphan'
         /\ receiver' # "off" => (orphan' <=> orphan)
         /\ receiver' = "1password" => window = "1password"
         /\ orphan' \in BOOLEAN
         /\ window' = window /\ lock' = lock /\ radio' = radio /\ armed' = armed /\ watch' = watch
         /\ pc' = pc /\ shape' = shape /\ undo' = undo /\ last' = last /\ may' = may /\ age' = age
<1>1. receiver = "restarting" /\ receiver' \in {Loads, "off"} /\ orphan' = (orphan /\ receiver' # "off")
  BY DEF ReceiverRestart
<1>2. UNCHANGED <<seq, window, lock, radio, armed, watch, age, pc, mySeq, shape, undo,
                  overtaken, last, may>>
  BY DEF ReceiverRestart, fileVars, procVars
<1> QED
  BY <1>1, <1>2, LoadsIs DEF UnitTypes

\* The first state.
LEMMA WindowInit == Init => WindowInv
<1> SUFFICES ASSUME Init PROVE WindowInv
  OBVIOUS
<1> USE Distinct DEF Init
<1>1. TypeOK
  BY DEF TypeOK, UnitTypes, ProcTypes, OnPcs, OffPcs, Undos
<1>2. UndoLeft
  BY DEF UndoLeft
<1>3. NeverInterleave
  BY DEF NeverInterleave, InSection
<1>4. Overtaken /\ OffSettles
  BY DEF Overtaken, OffSettles
<1> QED
  BY <1>1, <1>2, <1>3, <1>4 DEF WindowInv

\* A step of an on preserves the invariant.
LEMMA WindowOn ==
  ASSUME WindowInv, NEW p \in Ons, OnBegin(p) \/ OnStep(p)
  PROVE  WindowInv'
<1> USE Distinct
    DEF WindowInv, TypeOK, OnPcs, OffPcs, fileVars, unitVars, procVars, histVars, Goto
<1>1. CASE OnBegin(p)
  <2>1. UnitTypes'
    BY <1>1 DEF OnBegin, UnitTypes, ProcTypes
  <2>2. ProcTypes' /\ UndoLeft'
    <3>1. PICK s \in {"timed", "forever", "once"} : shape' = [shape EXCEPT ![p] = s]
      BY <1>1 DEF OnBegin
    <3>2. mySeq' \in [Ons -> Nat] /\ shape' \in [Ons -> {"timed", "forever", "once"}]
      BY <1>1, <3>1 DEF OnBegin, ProcTypes, UnitTypes
    <3> QED
      BY <1>1, <3>2 DEF OnBegin, ProcTypes, UndoLeft
  <2>3. NeverInterleave'
    BY <1>1 DEF OnBegin, UnitTypes, ProcTypes, NeverInterleave, InSection
  <2>4. Overtaken' /\ OffSettles'
    BY <1>1 DEF OnBegin, UnitTypes, ProcTypes, Overtaken, OffSettles, NeverInterleave, InSection
  <2> QED
    BY <2>1, <2>2, <2>3, <2>4 DEF WindowInv, TypeOK
<1>2. CASE OnWindow(p)
  <2>1. UnitTypes'
    BY <1>2 DEF OnWindow, UnitTypes, ProcTypes
  <2>2. ProcTypes' /\ UndoLeft'
    BY <1>2 DEF OnWindow, ProcTypes, UndoLeft
  <2>3. NeverInterleave'
    BY <1>2 DEF OnWindow, UnitTypes, ProcTypes, NeverInterleave, InSection
  <2>4. Overtaken' /\ OffSettles'
    BY <1>2 DEF OnWindow, UnitTypes, ProcTypes, Overtaken, OffSettles, NeverInterleave, InSection
  <2> QED
    BY <2>1, <2>2, <2>3, <2>4 DEF WindowInv, TypeOK
<1>3. CASE OnCancel(p)
  <2>1. UnitTypes'
    BY <1>3 DEF OnCancel, CancelWindow, Inside, Closing, UnitTypes, ProcTypes
  <2>2. ProcTypes' /\ UndoLeft'
    BY <1>3 DEF OnCancel, CancelWindow, Inside, Closing, ProcTypes, UndoLeft
  <2>3. NeverInterleave'
    BY <1>3 DEF OnCancel, CancelWindow, Inside, Closing, UnitTypes, ProcTypes, NeverInterleave,
        InSection
  <2>4. Overtaken' /\ OffSettles'
    BY <1>3 DEF OnCancel, CancelWindow, Inside, Closing, UnitTypes, ProcTypes, Overtaken,
        OffSettles, NeverInterleave, InSection
  <2> QED
    BY <2>1, <2>2, <2>3, <2>4 DEF WindowInv, TypeOK
<1>4. CASE OnExpiry(p)
  <2>1. UnitTypes'
    <3>1. armed' \subseteq {"window", "expiry"}
      BY <1>4 DEF OnExpiry, UnitTypes
    <3>2. UNCHANGED <<seq, window, lock, receiver, radio, watch, age, overtaken, last, orphan, may>>
      BY <1>4 DEF OnExpiry
    <3> QED
      BY <3>1, <3>2 DEF UnitTypes
  <2>2. ProcTypes' /\ UndoLeft'
    <3>1. CASE Abandon(p, <<"abort">>)
      BY <1>4, <3>1, UndoSteps, AbandonTypes DEF OnExpiry
    <3>2. CASE ~Abandon(p, <<"abort">>)
      BY <1>4, <3>2 DEF OnExpiry, ProcTypes, UndoLeft
    <3> QED
      BY <3>1, <3>2
  <2>3. NeverInterleave'
    BY <1>4 DEF OnExpiry, Abandon, UnitTypes, ProcTypes, NeverInterleave, InSection
  <2>4. Overtaken' /\ OffSettles'
    BY <1>4 DEF OnExpiry, Abandon, UnitTypes, ProcTypes, Overtaken, OffSettles,
        NeverInterleave, InSection
  <2> QED
    BY <2>1, <2>2, <2>3, <2>4 DEF WindowInv, TypeOK
<1>5. CASE OnWatch(p)
  <2>1. UnitTypes'
    BY <1>5 DEF OnWatch, UnitTypes, ProcTypes
  <2>2. ProcTypes' /\ UndoLeft'
    BY <1>5 DEF OnWatch, ProcTypes, UndoLeft
  <2>3. NeverInterleave'
    BY <1>5 DEF OnWatch, UnitTypes, ProcTypes, NeverInterleave, InSection
  <2>4. Overtaken' /\ OffSettles'
    BY <1>5 DEF OnWatch, UnitTypes, ProcTypes, Overtaken, OffSettles, NeverInterleave, InSection
  <2> QED
    BY <2>1, <2>2, <2>3, <2>4 DEF WindowInv, TypeOK
<1>6. CASE OnReceiver(p)
  <2>1. UnitTypes'
    <3>1. /\ orphan' \in BOOLEAN
          /\ UNCHANGED <<seq, window, lock, radio, armed, watch, age, mySeq, shape, overtaken, last, may>>
          /\ Received(p) \/ NotReceived(p)
      BY <1>6, OnReceiverFacts
    <3>2. receiver' \in {"off", "restarting", "self-signed", "1password"}
      BY <3>1 DEF Received, NotReceived, UnitTypes
    <3> QED
      BY <3>1, <3>2 DEF UnitTypes
  <2>2. ProcTypes' /\ UndoLeft'
    <3>1. ASSUME NEW u \in Undos \ {<<>>}, Abandon(p, u) PROVE ProcTypes' /\ UndoLeft'
      BY <1>6, <3>1, AbandonTypes DEF OnReceiver
    <3>2. CASE Goto(p, IF pc[p] = "first" THEN "radio" ELSE "arm") /\ UNCHANGED undo
      BY <1>6, <3>2 DEF OnReceiver, ProcTypes, UndoLeft
    <3>3. Received(p) => Goto(p, IF pc[p] = "first" THEN "radio" ELSE "arm") /\ UNCHANGED undo
      BY DEF Received
    <3>4. NotReceived(p) => \E u \in Undos \ {<<>>} : Abandon(p, u)
      BY UndoSteps DEF NotReceived
    <3>5. Received(p) \/ NotReceived(p)
      BY <1>6, OnReceiverFacts
    <3> QED
      BY <3>1, <3>2, <3>3, <3>4, <3>5
  <2>3. NeverInterleave'
    BY <1>6 DEF OnReceiver, Down, Abandon, Loads, UnitTypes, ProcTypes, NeverInterleave, InSection
  <2>4. Overtaken' /\ OffSettles'
    BY <1>6 DEF OnReceiver, Down, Abandon, Loads, UnitTypes, ProcTypes, Overtaken, OffSettles,
        NeverInterleave, InSection
  <2> QED
    BY <2>1, <2>2, <2>3, <2>4 DEF WindowInv, TypeOK
<1>7. CASE OnRadio(p)
  <2>1. UnitTypes'
    BY <1>7 DEF OnRadio, Abandon, UnitTypes, ProcTypes
  <2>2. ProcTypes' /\ UndoLeft'
    <3>1. ASSUME NEW u \in Undos \ {<<>>}, Abandon(p, u) PROVE ProcTypes' /\ UndoLeft'
      BY <1>7, <3>1, AbandonTypes DEF OnRadio
    <3>2. CASE Goto(p, IF pc[p] = "first" THEN "receiver" ELSE "arm") /\ UNCHANGED undo
      BY <1>7, <3>2 DEF OnRadio, ProcTypes, UndoLeft
    <3> QED
      BY <1>7, <3>1, <3>2, UndoSteps DEF OnRadio
  <2>3. NeverInterleave'
    BY <1>7 DEF OnRadio, Abandon, UnitTypes, ProcTypes, NeverInterleave, InSection
  <2>4. Overtaken' /\ OffSettles'
    BY <1>7 DEF OnRadio, Abandon, UnitTypes, ProcTypes, Overtaken, OffSettles, NeverInterleave,
        InSection
  <2> QED
    BY <2>1, <2>2, <2>3, <2>4 DEF WindowInv, TypeOK
<1>8. CASE OnArm(p)
  <2>1. UnitTypes'
    <3>1. armed' \subseteq {"window", "expiry"}
      BY <1>8 DEF OnArm, UnitTypes
    <3>2. lock' \in {lock, None}
      BY <1>8 DEF OnArm
    <3>3. last' \in {"timed", "forever", "once"}
      BY <1>8 DEF OnArm, ProcTypes
    <3>4. UNCHANGED <<seq, window, receiver, radio, watch, age, overtaken, orphan, may>>
      BY <1>8 DEF OnArm
    <3> QED
      BY <3>1, <3>2, <3>3, <3>4 DEF UnitTypes
  <2>2. ProcTypes' /\ UndoLeft'
    BY <1>8 DEF OnArm, ProcTypes, UndoLeft
  <2>3. NeverInterleave'
    BY <1>8 DEF OnArm, UnitTypes, ProcTypes, NeverInterleave, InSection
  <2>4. Overtaken' /\ OffSettles'
    BY <1>8 DEF OnArm, UnitTypes, ProcTypes, Overtaken, OffSettles, NeverInterleave, InSection
  <2> QED
    BY <2>1, <2>2, <2>3, <2>4 DEF WindowInv, TypeOK
<1>9. CASE OnAgain(p)
  <2>1. UnitTypes'
    BY <1>9 DEF OnAgain, UnitTypes, ProcTypes
  <2>2. ProcTypes' /\ UndoLeft'
    BY <1>9 DEF OnAgain, ProcTypes, UndoLeft
  <2>3. NeverInterleave'
    BY <1>9 DEF OnAgain, UnitTypes, ProcTypes, NeverInterleave, InSection
  <2>4. Overtaken' /\ OffSettles'
    BY <1>9 DEF OnAgain, UnitTypes, ProcTypes, Overtaken, OffSettles, NeverInterleave, InSection
  <2> QED
    BY <2>1, <2>2, <2>3, <2>4 DEF WindowInv, TypeOK
<1>10. CASE UndoStep(p)
  <2>u. Tail(undo[p]) \in Undos /\ (Head(undo[p]) # "abort" => Tail(undo[p]) # <<>>)
    <3>1. undo[p] \in Undos \ {<<>>}
      BY <1>10 DEF UndoStep, UndoLeft, ProcTypes
    <3> QED
      BY <3>1, UndoTail
  <2>1. UnitTypes'
    <3>1. CASE Head(undo[p]) = "cancel"
      BY <1>10, <3>1 DEF UndoStep, CancelWindow, Inside, UnitTypes
    <3>2. CASE Head(undo[p]) = "receiver"
      <4>1. /\ receiver' \in {receiver, "off"}
            /\ UNCHANGED <<seq, window, lock, radio, armed, watch, age, overtaken, last, may>>
        BY <1>10, <3>2 DEF UndoStep
      <4>2. orphan' \in BOOLEAN
        BY <1>10, <3>2 DEF UndoStep, UnitTypes
      <4>3. receiver' \in {"off", "restarting", "self-signed", "1password"}
        BY <4>1 DEF UnitTypes
      <4> QED
        BY <4>1, <4>2, <4>3 DEF UnitTypes
    <3>3. CASE Head(undo[p]) = "radio"
      <4>1. /\ radio' \in {radio, "down"}
            /\ UNCHANGED <<seq, window, lock, receiver, armed, watch, age, overtaken, last, orphan, may>>
        BY <1>10, <3>3 DEF UndoStep
      <4> QED
        BY <4>1 DEF UnitTypes
    <3>4. CASE Head(undo[p]) = "abort"
      <4>1. /\ seq' = seq + 1 /\ window' = "none" /\ lock' = None
            /\ UNCHANGED <<receiver, radio, armed, watch, age, overtaken, last, orphan, may>>
        BY <1>10, <3>4 DEF UndoStep
      <4> QED
        BY <4>1 DEF UnitTypes
    <3> QED
      BY <1>10, <3>1, <3>2, <3>3, <3>4 DEF UndoStep
  <2>2. ProcTypes' /\ UndoLeft'
    <3>1. undo' = [undo EXCEPT ![p] = Tail(undo[p])] /\ UNCHANGED <<mySeq, shape>>
      BY <1>10 DEF UndoStep
    <3>2. undo' \in [Ons -> Undos]
      BY <2>u, <3>1 DEF ProcTypes
    <3>3. /\ pc' \in [Ons \cup Closers -> OnPcs \cup OffPcs]
          /\ \A q \in Ons : pc'[q] \in OnPcs
          /\ \A q \in Closers : pc'[q] \in OffPcs
      BY <1>10 DEF UndoStep, CancelWindow, Inside, Closing, ProcTypes
    <3>4. /\ \A q \in Ons \ {p} : pc'[q] = pc[q]
          /\ pc'[p] = "undo" => Head(undo[p]) # "abort"
      BY <1>10 DEF UndoStep, CancelWindow, Inside, Closing, ProcTypes
    <3>5. UndoLeft'
      BY <2>u, <3>1, <3>4 DEF UndoLeft, ProcTypes
    <3> QED
      BY <3>1, <3>2, <3>3, <3>5 DEF ProcTypes
  <2>3. NeverInterleave'
    BY <1>10, SMTT(40) DEF UndoStep, CancelWindow, Inside, Closing, UnitTypes, ProcTypes,
        NeverInterleave, InSection
  <2>4. Overtaken' /\ OffSettles'
    BY <1>10 DEF UndoStep, CancelWindow, Inside, Closing, UnitTypes, ProcTypes, Overtaken,
        OffSettles, NeverInterleave, InSection
  <2> QED
    BY <2>1, <2>2, <2>3, <2>4 DEF WindowInv, TypeOK
<1> QED
  BY <1>1, <1>2, <1>3, <1>4, <1>5, <1>6, <1>7, <1>8, <1>9, <1>10 DEF OnStep

\* A step of an off does.
LEMMA WindowOff ==
  ASSUME WindowInv, NEW p \in Closers, OffAsked(p) \/ OffStep(p)
  PROVE  WindowInv'
<1> USE Distinct
    DEF WindowInv, TypeOK, OnPcs, OffPcs, fileVars, unitVars, procVars, histVars, Goto
<1>1. CASE OffAsked(p)
  <2>1. UnitTypes'
    BY <1>1 DEF OffAsked, UnitTypes, ProcTypes
  <2>2. ProcTypes' /\ UndoLeft'
    BY <1>1 DEF OffAsked, ProcTypes, UndoLeft
  <2>3. NeverInterleave'
    BY <1>1 DEF OffAsked, UnitTypes, ProcTypes, NeverInterleave, InSection
  <2>4. Overtaken' /\ OffSettles'
    BY <1>1 DEF OffAsked, UnitTypes, ProcTypes, Overtaken, OffSettles, NeverInterleave, InSection
  <2> QED
    BY <2>1, <2>2, <2>3, <2>4 DEF WindowInv, TypeOK
<1>2. CASE OffBegin(p)
  <2>1. UnitTypes'
    BY <1>2 DEF OffBegin, UnitTypes, ProcTypes
  <2>2. ProcTypes' /\ UndoLeft'
    BY <1>2 DEF OffBegin, ProcTypes, UndoLeft
  <2>3. NeverInterleave'
    BY <1>2 DEF OffBegin, UnitTypes, ProcTypes, NeverInterleave, InSection
  <2>4. Overtaken' /\ OffSettles'
    BY <1>2 DEF OffBegin, UnitTypes, ProcTypes, Overtaken, OffSettles, NeverInterleave, InSection
  <2> QED
    BY <2>1, <2>2, <2>3, <2>4 DEF WindowInv, TypeOK
<1>3. CASE OffReceiver(p)
  <2>1. UnitTypes'
    BY <1>3 DEF OffReceiver, UnitTypes, ProcTypes
  <2>2. ProcTypes' /\ UndoLeft'
    BY <1>3 DEF OffReceiver, ProcTypes, UndoLeft
  <2>3. NeverInterleave'
    BY <1>3 DEF OffReceiver, UnitTypes, ProcTypes, NeverInterleave, InSection
  <2>4. Overtaken' /\ OffSettles'
    BY <1>3 DEF OffReceiver, UnitTypes, ProcTypes, Overtaken, OffSettles, NeverInterleave,
        InSection
  <2> QED
    BY <2>1, <2>2, <2>3, <2>4 DEF WindowInv, TypeOK
<1>4. CASE OffCancel(p)
  <2>1. UnitTypes'
    BY <1>4 DEF OffCancel, CancelWindow, Inside, Closing, UnitTypes, ProcTypes
  <2>2. ProcTypes' /\ UndoLeft'
    BY <1>4 DEF OffCancel, CancelWindow, Inside, Closing, ProcTypes, UndoLeft
  <2>3. NeverInterleave'
    BY <1>4 DEF OffCancel, CancelWindow, Inside, Closing, UnitTypes, ProcTypes,
        NeverInterleave, InSection
  <2>4. Overtaken' /\ OffSettles'
    BY <1>4 DEF OffCancel, CancelWindow, Inside, Closing, UnitTypes, ProcTypes, Overtaken,
        OffSettles, NeverInterleave, InSection
  <2> QED
    BY <2>1, <2>2, <2>3, <2>4 DEF WindowInv, TypeOK
<1>5. CASE OffRadio(p)
  <2>1. UnitTypes'
    BY <1>5 DEF OffRadio, UnitTypes, ProcTypes
  <2>2. ProcTypes' /\ UndoLeft'
    BY <1>5 DEF OffRadio, ProcTypes, UndoLeft
  <2>3. NeverInterleave'
    BY <1>5 DEF OffRadio, UnitTypes, ProcTypes, NeverInterleave, InSection
  <2>4. Overtaken' /\ OffSettles'
    BY <1>5 DEF OffRadio, UnitTypes, ProcTypes, Overtaken, OffSettles, NeverInterleave, InSection
  <2> QED
    BY <2>1, <2>2, <2>3, <2>4 DEF WindowInv, TypeOK
<1>6. CASE OffEnd(p)
  <2>1. UnitTypes'
    BY <1>6 DEF OffEnd, UnitTypes, ProcTypes
  <2>2. ProcTypes' /\ UndoLeft'
    BY <1>6 DEF OffEnd, ProcTypes, UndoLeft
  <2>3. NeverInterleave'
    BY <1>6 DEF OffEnd, UnitTypes, ProcTypes, NeverInterleave, InSection
  <2>4. Overtaken' /\ OffSettles'
    BY <1>6 DEF OffEnd, UnitTypes, ProcTypes, Overtaken, OffSettles, NeverInterleave, InSection
  <2> QED
    BY <2>1, <2>2, <2>3, <2>4 DEF WindowInv, TypeOK
<1> QED
  BY <1>1, <1>2, <1>3, <1>4, <1>5, <1>6 DEF OffStep

\* So do the timers, the watcher, the receiver and the radio.
LEMMA WindowWorld ==
  ASSUME WindowInv, World
  PROVE  WindowInv'
<1> USE Distinct
    DEF WindowInv, TypeOK, OnPcs, OffPcs, fileVars, unitVars, procVars, histVars, Goto
<1>1. CASE WindowEnds
  <2>1. UnitTypes'
    BY <1>1 DEF WindowEnds, UnitTypes, ProcTypes
  <2>2. ProcTypes' /\ UndoLeft'
    BY <1>1 DEF WindowEnds, ProcTypes, UndoLeft
  <2>3. NeverInterleave'
    BY <1>1 DEF WindowEnds, UnitTypes, ProcTypes, NeverInterleave, InSection
  <2>4. Overtaken' /\ OffSettles'
    BY <1>1 DEF WindowEnds, UnitTypes, ProcTypes, Overtaken, OffSettles, NeverInterleave,
        InSection
  <2> QED
    BY <2>1, <2>2, <2>3, <2>4 DEF WindowInv, TypeOK
<1>2. CASE HardExpires
  <2>1. UnitTypes'
    BY <1>2 DEF HardExpires, UnitTypes, ProcTypes
  <2>2. ProcTypes' /\ UndoLeft'
    BY <1>2 DEF HardExpires, ProcTypes, UndoLeft
  <2>3. NeverInterleave'
    BY <1>2 DEF HardExpires, UnitTypes, ProcTypes, NeverInterleave, InSection
  <2>4. Overtaken' /\ OffSettles'
    BY <1>2 DEF HardExpires, UnitTypes, ProcTypes, Overtaken, OffSettles, NeverInterleave,
        InSection
  <2> QED
    BY <2>1, <2>2, <2>3, <2>4 DEF WindowInv, TypeOK
<1>3. CASE ExpiryEnds
  <2>1. UnitTypes'
    BY <1>3 DEF ExpiryEnds, UnitTypes, ProcTypes
  <2>2. ProcTypes' /\ UndoLeft'
    BY <1>3 DEF ExpiryEnds, ProcTypes, UndoLeft
  <2>3. NeverInterleave'
    BY <1>3 DEF ExpiryEnds, UnitTypes, ProcTypes, NeverInterleave, InSection
  <2>4. Overtaken' /\ OffSettles'
    BY <1>3 DEF ExpiryEnds, UnitTypes, ProcTypes, Overtaken, OffSettles, NeverInterleave,
        InSection
  <2> QED
    BY <2>1, <2>2, <2>3, <2>4 DEF WindowInv, TypeOK
<1>4. CASE Arrive
  <2>1. UnitTypes'
    BY <1>4 DEF Arrive, Down, UnitTypes, ProcTypes
  <2>2. ProcTypes' /\ UndoLeft'
    BY <1>4 DEF Arrive, Down, ProcTypes, UndoLeft
  <2>3. NeverInterleave'
    BY <1>4 DEF Arrive, Down, UnitTypes, ProcTypes, NeverInterleave, InSection
  <2>4. Overtaken' /\ OffSettles'
    BY <1>4 DEF Arrive, Down, UnitTypes, ProcTypes, Overtaken, OffSettles, NeverInterleave, InSection
  <2> QED
    BY <2>1, <2>2, <2>3, <2>4 DEF WindowInv, TypeOK
<1>5. CASE ReceiverCrash
  <2>1. UnitTypes'
    BY <1>5 DEF ReceiverCrash, Down, UnitTypes, ProcTypes
  <2>2. ProcTypes' /\ UndoLeft'
    BY <1>5 DEF ReceiverCrash, Down, ProcTypes, UndoLeft
  <2>3. NeverInterleave'
    BY <1>5 DEF ReceiverCrash, Down, UnitTypes, ProcTypes, NeverInterleave, InSection
  <2>4. Overtaken' /\ OffSettles'
    BY <1>5 DEF ReceiverCrash, Down, UnitTypes, ProcTypes, Overtaken, OffSettles, NeverInterleave,
        InSection
  <2> QED
    BY <2>1, <2>2, <2>3, <2>4 DEF WindowInv, TypeOK
<1>6. CASE ReceiverRestart
  <2>1. UnitTypes'
    BY <1>6 DEF ReceiverRestart, Loads, UnitTypes, ProcTypes
  <2>2. ProcTypes' /\ UndoLeft'
    BY <1>6 DEF ReceiverRestart, Loads, ProcTypes, UndoLeft
  <2>3. NeverInterleave'
    BY <1>6 DEF ReceiverRestart, Loads, UnitTypes, ProcTypes, NeverInterleave, InSection
  <2>4. Overtaken' /\ OffSettles'
    BY <1>6 DEF ReceiverRestart, Loads, UnitTypes, ProcTypes, Overtaken, OffSettles,
        NeverInterleave, InSection
  <2> QED
    BY <2>1, <2>2, <2>3, <2>4 DEF WindowInv, TypeOK
<1>7. CASE RadioChanges
  <2>1. UnitTypes'
    BY <1>7 DEF RadioChanges, UnitTypes, ProcTypes
  <2>2. ProcTypes' /\ UndoLeft'
    BY <1>7 DEF RadioChanges, ProcTypes, UndoLeft
  <2>3. NeverInterleave'
    BY <1>7 DEF RadioChanges, UnitTypes, ProcTypes, NeverInterleave, InSection
  <2>4. Overtaken' /\ OffSettles'
    BY <1>7 DEF RadioChanges, UnitTypes, ProcTypes, Overtaken, OffSettles, NeverInterleave,
        InSection
  <2> QED
    BY <2>1, <2>2, <2>3, <2>4 DEF WindowInv, TypeOK
<1> QED
  BY <1>1, <1>2, <1>3, <1>4, <1>5, <1>6, <1>7 DEF World

\* The invariant is inductive.
LEMMA WindowStep == WindowInv /\ [Next]_vars => WindowInv'
<1> SUFFICES ASSUME WindowInv, [Next]_vars PROVE WindowInv'
  OBVIOUS
<1>1. ASSUME NEW p \in Ons, OnBegin(p) \/ OnStep(p) PROVE WindowInv'
  BY <1>1, WindowOn
<1>2. ASSUME NEW p \in Closers, OffAsked(p) \/ OffStep(p) PROVE WindowInv'
  BY <1>2, WindowOff
<1>3. CASE World
  BY <1>3, WindowWorld
<1>4. CASE UNCHANGED vars
  BY <1>4
  DEF WindowInv, TypeOK, UndoLeft, NeverInterleave, Overtaken, OffSettles, InSection,
      UnitTypes, ProcTypes,
      vars, fileVars, unitVars, procVars, histVars
<1> QED
  BY <1>1, <1>2, <1>3, <1>4 DEF Next, Quiet

\* It always holds.
LEMMA WindowInvariant == Spec => []WindowInv
BY WindowInit, WindowStep, PTL DEF Spec

\* Every variable keeps its type (the state of on and off, cli/window.rs).
THEOREM WindowTyping == Spec => []TypeOK
BY WindowInvariant, PTL DEF WindowInv

\* on and off never interleave (identity_lock): whoever is between `window` and
\* its end, or between stop-begin and its end, holds the lock, and nobody else.
THEOREM NeverInterleaveAlways == Spec => []NeverInterleave
BY WindowInvariant, PTL DEF WindowInv

\* off settles it (cmd_window's check of `seq`): an on that had begun when an off
\* ran brings nothing up, whatever fails.
THEOREM OffSettlesAlways == Spec => []OffSettles
BY WindowInvariant, PTL DEF WindowInv

-----------------------------------------------------------------------------
(* Every window is bounded, and closes. *)

\* What an off has done so far; and what services may not become.
OffInv ==
  /\ \A c \in Closers :
       /\ pc[c] \in {"cancel", "radio", "end"} => receiver = "off"
       /\ pc[c] \in {"radio", "end"} => armed = {} /\ watch = "none"
       /\ pc[c] = "end" /\ "stop" \notin may => radio = "down"
       /\ pc[c] = "failed" => "stop" \in may
  /\ \A c \in Services : pc[c] # "done"
  /\ watch = "closing" => "arm" \in may
  /\ receiver = "off" => ~orphan

\* The timer of the hard expiry, or of the window, or the off that it started.
ExpirySet == "expiry" \in armed \/ Closing("expiry")
WindowSet == "window" \in armed \/ Closing("window")

\* What an on that is at work has set up: a window, and its timers.
OnInv ==
  \A p \in Ons :
    /\ InSection(p) => window # "none"
    /\ pc[p] = "expiry" => armed = {}
    /\ pc[p] \in {"watch", "first", "receiver", "radio", "arm", "again"} /\ window = "1password"
         => ExpirySet
    /\ pc[p] = "again" => WindowSet

\* What a failed on has left to do that stops the timers, the receiver, the radio.
CancelLeft   == {<<"cancel", "abort">>, <<"cancel", "radio", "abort">>,
                 <<"cancel", "receiver", "radio", "abort">>}
ReceiverLeft == {<<"receiver", "radio", "abort">>, <<"cancel", "receiver", "radio", "abort">>}
RadioLeft    == {<<"radio", "abort">>, <<"receiver", "radio", "abort">>, <<"cancel", "radio", "abort">>,
                 <<"cancel", "receiver", "radio", "abort">>}

\* Nothing of a window is left, but for a receiver that is left to systemd.
Gone == (receiver = "off" \/ orphan) /\ radio = "down" /\ armed = {} /\ watch = "none"

Resting == {"idle", "refused", "done"}

\* Where windows are not opened again, an on that is at work is the only one, ...
Alone(p) == pc[p] \notin Resting => \A q \in Ons \ {p} : pc[q] \in Resting

\* ... found nothing of a window, and has to undo only what it has set up.
SetUp(p) ==
  /\ pc[p] = "begun" => window = "none"
  /\ pc[p] \in {"begun", "cancel", "expiry", "watch", "first", "receiver"} =>
       receiver = "off" \/ orphan
  /\ pc[p] \in {"cancel", "expiry", "watch", "first", "radio"} => radio = "down"
  /\ pc[p] \in {"cancel", "expiry"} => armed = {} /\ watch = "none"
  /\ pc[p] = "undo" =>
       /\ undo[p] \notin CancelLeft => armed = {} /\ watch = "none"
       /\ undo[p] \notin ReceiverLeft => receiver = "off" \/ orphan
       /\ undo[p] \notin RadioLeft => radio = "down"

FreshInv ==
  may \cap {"stop", "repeat"} = {} =>
    /\ lock = None /\ window = "none" => Gone
    /\ watch # "none" => window # "none"
    /\ receiver = "1password" => orphan \/ window = "1password"
    /\ \A p \in Ons : Alone(p) /\ SetUp(p)

\* Where they are and no start fails, an on gives up only for an off that is to come.
AgainInv ==
  "repeat" \in may /\ Orderly => \A p \in Ons : pc[p] = "undo" => undo[p] = <<"abort">> /\ pc["expiry"] = "begin"

\* Why every window is bounded and closed.
BoundInv ==
  /\ NameFree
  /\ Orderly =>
       /\ receiver = "1password" /\ window # "1password" => orphan \/ Closing("expiry")
       /\ lock = None /\ window = "1password" /\ receiver # "off" => ExpirySet
       /\ lock = None /\ window = "none" /\ (\A c \in Closers : ~Closing(c)) => Gone
  /\ TimedBounded

\* What the next thing to undo is, and what is left after it.
LEMMA UndoNext ==
  ASSUME NEW u \in Undos \ {<<>>}
  PROVE  /\ Head(u) \in {"cancel", "receiver", "radio", "abort"}
         /\ Head(u) = "cancel" <=> u \in CancelLeft
         /\ Head(u) = "abort" <=> u = <<"abort">>
         /\ u = <<"abort">> => u \notin CancelLeft \cup ReceiverLeft \cup RadioLeft
         /\ u # <<"abort">> =>
              /\ Tail(u) \in Undos \ {<<>>} /\ Tail(u) \notin CancelLeft
              /\ Tail(u) \notin ReceiverLeft => u \notin ReceiverLeft \/ Head(u) = "receiver"
              /\ Tail(u) \notin RadioLeft => u \notin RadioLeft \/ Head(u) = "radio"
<1> USE DEF Undos, CancelLeft, ReceiverLeft, RadioLeft
<1>1. CASE u = <<"abort">>
  BY <1>1
<1>2. CASE u = <<"radio", "abort">>
  BY <1>2
<1>3. CASE u = <<"receiver", "radio", "abort">>
  BY <1>3
<1>4. CASE u = <<"cancel", "abort">>
  BY <1>4
<1>5. CASE u = <<"cancel", "radio", "abort">>
  BY <1>5
<1>6. CASE u = <<"cancel", "receiver", "radio", "abort">>
  BY <1>6
<1> QED
  BY <1>1, <1>2, <1>3, <1>4, <1>5, <1>6

\* What cancel_window does to the processes, when it is run under the lock.
LEMMA CancelFacts ==
  ASSUME WindowInv, NEW p \in Ons \cup Closers, lock = p, NEW l, CancelWindow(p, l),
         p \in Closers => Closing(p)
  PROVE  /\ armed' = {} /\ watch' = "none"
         /\ \A q \in Ons \ {p} : pc'[q] = pc[q]
         /\ p \in Ons => pc'[p] = l /\ lock' = p
         /\ \A c \in Closers \ {p} :
              \/ pc'[c] = pc[c] /\ ~(c \in Services /\ pc[c] = "failed")
              \/ pc'[c] = "idle" /\ c \in Services /\ (pc[c] = "failed" \/ (c = "once" /\ watch = "closing"))
         /\ p \in Closers =>
              \/ pc'[p] = l /\ lock' = p
              \/ pc'[p] = "idle" /\ lock' = None /\ p = "once" /\ watch = "closing"
<1> USE Distinct
<1>1. pc \in [Ons \cup Closers -> OnPcs \cup OffPcs]
  BY DEF WindowInv, TypeOK, ProcTypes
<1>2. /\ armed' = {} /\ watch' = "none"
      /\ \A q \in Ons \cup Closers :
           pc'[q] = IF Inside(q) THEN "idle" ELSE IF q = p THEN l
                    ELSE IF q \in Services /\ pc[q] = "failed" THEN "idle" ELSE pc[q]
      /\ lock' = IF Inside(p) THEN None ELSE p
  BY <1>1 DEF CancelWindow
<1>3. \A q \in Ons : ~Inside(q) /\ q \notin Services
  BY DEF Inside, Services, Closers
<1>4. \A q \in Closers : Inside(q) => q = "once" /\ watch = "closing"
  BY DEF Inside
<1>5. /\ \A q \in Ons \ {p} : pc'[q] = pc[q]
      /\ p \in Ons => pc'[p] = l /\ lock' = p
  BY <1>2, <1>3
<1>6. p \in Closers =>
     \/ pc'[p] = l /\ lock' = p
     \/ pc'[p] = "idle" /\ lock' = None /\ p = "once" /\ watch = "closing"
  BY <1>2, <1>4
<1>7. ASSUME NEW c \in Closers \ {p}
      PROVE  \/ pc'[c] = pc[c] /\ ~(c \in Services /\ pc[c] = "failed")
             \/ pc'[c] = "idle" /\ c \in Services /\ (pc[c] = "failed" \/ (c = "once" /\ watch = "closing"))
  <2>1. CASE Inside(c)
    BY <1>2, <1>4, <2>1 DEF Services
  <2>2. CASE ~Inside(c)
    BY <1>2, <2>2
  <2> QED
    BY <2>1, <2>2
<1> QED
  BY <1>2, <1>5, <1>6, <1>7

\* What the lists that a failing on starts from hold.
LEMMA StartLists ==
  /\ <<"abort">> \notin CancelLeft \cup ReceiverLeft \cup RadioLeft
  /\ <<"cancel", "abort">> \in CancelLeft /\ <<"cancel", "abort">> \notin ReceiverLeft \cup RadioLeft
  /\ <<"cancel", "radio", "abort">> \in CancelLeft \cap RadioLeft
  /\ <<"cancel", "radio", "abort">> \notin ReceiverLeft
  /\ <<"cancel", "receiver", "radio", "abort">> \in CancelLeft \cap ReceiverLeft \cap RadioLeft
BY DEF CancelLeft, ReceiverLeft, RadioLeft

\* A cancel by an on, and by an off, which may thereby end itself.
LEMMA OnCancelFacts ==
  ASSUME WindowInv, NEW p \in Ons, OnCancel(p)
  PROVE  /\ lock = p /\ pc[p] = "cancel" /\ lock' = p /\ pc'[p] = "expiry"
         /\ armed' = {} /\ watch' = "none"
         /\ \A q \in Ons \ {p} : pc'[q] = pc[q]
         /\ \A c \in Closers :
              \/ pc'[c] = pc[c] /\ ~(c \in Services /\ pc[c] = "failed")
              \/ pc'[c] = "idle" /\ c \in Services /\ (pc[c] = "failed" \/ (c = "once" /\ watch = "closing"))
         /\ UNCHANGED <<seq, window, receiver, radio, age, mySeq, shape, undo, overtaken, last, orphan, may>>
<1>1. /\ CancelWindow(p, "expiry") /\ pc[p] = "cancel"
      /\ UNCHANGED <<seq, window, receiver, radio, age, mySeq, shape, undo, overtaken, last, orphan, may>>
  BY DEF OnCancel, histVars
<1>2. lock = p
  BY <1>1 DEF WindowInv, NeverInterleave, InSection
<1> QED
  BY <1>1, <1>2, CancelFacts, Distinct

LEMMA OffCancelFacts ==
  ASSUME WindowInv, NEW p \in Closers, OffCancel(p)
  PROVE  /\ lock = p /\ pc[p] = "cancel"
         /\ armed' = {} /\ watch' = "none"
         /\ \/ pc'[p] = "radio" /\ lock' = p
            \/ pc'[p] = "idle" /\ lock' = None /\ p = "once" /\ watch = "closing"
         /\ \A q \in Ons : pc'[q] = pc[q]
         /\ \A c \in Closers \ {p} :
              \/ pc'[c] = pc[c]
              \/ pc'[c] = "idle" /\ (pc[c] = "failed" \/ (c = "once" /\ watch = "closing"))
         /\ UNCHANGED <<seq, window, receiver, radio, age, mySeq, shape, undo, overtaken, last, orphan, may>>
<1>1. /\ CancelWindow(p, "radio") /\ pc[p] = "cancel"
      /\ UNCHANGED <<seq, window, receiver, radio, age, mySeq, shape, undo, overtaken, last, orphan, may>>
  BY DEF OffCancel, histVars
<1>2. lock = p
  BY <1>1, Distinct DEF WindowInv, NeverInterleave, InSection
<1> QED
  BY <1>1, <1>2, CancelFacts, Distinct DEF Closing

\* One step of a failed on's undoing.
UndoCancels(p) ==
  /\ undo[p] \in CancelLeft /\ undo'[p] \notin CancelLeft
  /\ undo'[p] \notin ReceiverLeft => undo[p] \notin ReceiverLeft
  /\ undo'[p] \notin RadioLeft => undo[p] \notin RadioLeft
  /\ undo[p] # <<"abort">>
  /\ armed' = {} /\ watch' = "none" /\ lock' = p /\ pc'[p] = "undo"
  /\ \A q \in Ons \ {p} : pc'[q] = pc[q]
  /\ \A c \in Closers :
       \/ pc'[c] = pc[c]
       \/ pc'[c] = "idle" /\ (pc[c] = "failed" \/ (c = "once" /\ watch = "closing"))
  /\ UNCHANGED <<window, receiver, radio>> /\ (orphan' <=> orphan)
UndoReceives(p) ==
  /\ undo[p] \notin CancelLeft /\ undo'[p] \notin CancelLeft /\ undo[p] # <<"abort">>
  /\ undo'[p] \notin RadioLeft => undo[p] \notin RadioLeft
  /\ \/ receiver' = "off" /\ ~orphan'
     \/ "stop" \in may /\ receiver' = receiver /\ (orphan' <=> orphan)
  /\ UNCHANGED <<window, lock, radio, armed, watch, pc>>
UndoRadios(p) ==
  /\ undo[p] \notin CancelLeft /\ undo'[p] \notin CancelLeft /\ undo[p] # <<"abort">>
  /\ undo'[p] \notin ReceiverLeft => undo[p] \notin ReceiverLeft
  /\ radio' = "down" \/ ("stop" \in may /\ UNCHANGED radio)
  /\ UNCHANGED <<window, lock, receiver, armed, watch, pc>> /\ (orphan' <=> orphan)
UndoAborts(p) ==
  /\ undo[p] = <<"abort">> /\ undo[p] \notin CancelLeft \cup ReceiverLeft \cup RadioLeft
  /\ window' = "none" /\ lock' = None /\ pc' = [pc EXCEPT ![p] = "done"]
  /\ UNCHANGED <<receiver, radio, armed, watch>> /\ (orphan' <=> orphan)

LEMMA UndoFacts ==
  ASSUME WindowInv, NEW p \in Ons, UndoStep(p)
  PROVE  /\ lock = p /\ pc[p] = "undo" /\ \A q \in Ons \ {p} : undo'[q] = undo[q]
         /\ UNCHANGED <<age, mySeq, shape, overtaken, last, may>>
         /\ UndoCancels(p) \/ UndoReceives(p) \/ UndoRadios(p) \/ UndoAborts(p)
<1>1. lock = p /\ pc[p] = "undo" /\ undo[p] \in Undos \ {<<>>}
  BY DEF UndoStep, WindowInv, UndoLeft, TypeOK, ProcTypes, NeverInterleave, InSection
<1>2. /\ undo'[p] = Tail(undo[p]) /\ \A q \in Ons \ {p} : undo'[q] = undo[q]
      /\ UNCHANGED <<age, mySeq, shape, overtaken, last, may>>
  BY DEF UndoStep, WindowInv, TypeOK, ProcTypes, histVars
<1>3. /\ Head(undo[p]) \in {"cancel", "receiver", "radio", "abort"}
      /\ Head(undo[p]) = "cancel" <=> undo[p] \in CancelLeft
      /\ Head(undo[p]) = "abort" <=> undo[p] = <<"abort">>
      /\ undo[p] = <<"abort">> => undo[p] \notin CancelLeft \cup ReceiverLeft \cup RadioLeft
      /\ undo[p] # <<"abort">> =>
           /\ undo'[p] \notin CancelLeft
           /\ undo'[p] \notin ReceiverLeft => undo[p] \notin ReceiverLeft \/ Head(undo[p]) = "receiver"
           /\ undo'[p] \notin RadioLeft => undo[p] \notin RadioLeft \/ Head(undo[p]) = "radio"
  BY <1>1, <1>2, UndoNext
<1>4. CASE Head(undo[p]) = "cancel"
  <2>1. CancelWindow(p, "undo") /\ UNCHANGED <<window, receiver, radio, orphan>>
    BY <1>4 DEF UndoStep
  <2>2. UndoCancels(p)
    BY <1>1, <1>3, <1>4, <2>1, CancelFacts, Distinct DEF UndoCancels
  <2> QED
    BY <1>1, <1>2, <2>2
<1>5. CASE Head(undo[p]) = "receiver"
  BY <1>1, <1>2, <1>3, <1>5 DEF UndoStep, UndoReceives
<1>6. CASE Head(undo[p]) = "radio"
  BY <1>1, <1>2, <1>3, <1>6 DEF UndoStep, UndoRadios
<1>7. CASE Head(undo[p]) = "abort"
  BY <1>1, <1>2, <1>3, <1>7 DEF UndoStep, UndoAborts, Goto
<1> QED
  BY <1>3, <1>4, <1>5, <1>6, <1>7

LEMMA HalfOn ==
  ASSUME WindowInv, OffInv, NEW p \in Ons, OnBegin(p) \/ OnStep(p)
  PROVE  OffInv'
<1> USE Distinct
    DEF OffInv, InSection, OnPcs, OffPcs, Services, Closing,
        fileVars, unitVars, procVars, histVars, Goto
<1>t. /\ pc \in [Ons \cup Closers -> OnPcs \cup OffPcs]
      /\ (\A q \in Ons : pc[q] \in OnPcs) /\ (\A c \in Closers : pc[c] \in OffPcs)
      /\ UnitTypes /\ orphan \in BOOLEAN
      /\ window \in {"none", "self-signed", "1password"}
      /\ receiver \in {"off", "restarting", "self-signed", "1password"}
      /\ armed \subseteq {"window", "expiry"} /\ lock \in Ons \cup Closers \cup {None}
      /\ undo \in [Ons -> Undos] /\ shape \in [Ons -> {"timed", "forever", "once"}]
  BY DEF WindowInv, TypeOK, UnitTypes, ProcTypes
<1>l. \A q \in Ons \cup Closers : InSection(q) <=> lock = q
  BY DEF WindowInv, NeverInterleave
<1>1. CASE OnBegin(p)
  BY <1>1, <1>t, <1>l, SMTT(60) DEF OnBegin
<1>2. CASE OnWindow(p)
  BY <1>2, <1>t, <1>l, SMTT(60) DEF OnWindow
<1>3. CASE OnCancel(p)
  BY <1>3, <1>t, <1>l, OnCancelFacts, SMTT(60)
<1>4. CASE OnExpiry(p)
  BY <1>4, <1>t, <1>l, SMTT(60) DEF OnExpiry, Abandon, Refused
<1>5. CASE OnWatch(p)
  BY <1>5, <1>t, <1>l, SMTT(60) DEF OnWatch
<1>6. CASE OnReceiver(p)
  BY <1>6, <1>t, <1>l, OnReceiverFacts, StartLists, SMTT(60) DEF Received, NotReceived, Abandon
<1>7. CASE OnRadio(p)
  BY <1>7, <1>t, <1>l, SMTT(60) DEF OnRadio, Abandon
<1>8. CASE OnArm(p)
  BY <1>8, <1>t, <1>l, SMTT(60) DEF OnArm, Refused
<1>9. CASE OnAgain(p)
  BY <1>9, <1>t, <1>l, SMTT(60) DEF OnAgain
<1>10. CASE UndoStep(p)
  BY <1>10, <1>t, <1>l, UndoFacts, SMTT(60) DEF UndoCancels, UndoReceives, UndoRadios, UndoAborts
<1> QED
  BY <1>1, <1>2, <1>3, <1>4, <1>5, <1>6, <1>7, <1>8, <1>9, <1>10 DEF OnStep

LEMMA HalfOff ==
  ASSUME WindowInv, OffInv, NEW p \in Closers, OffAsked(p) \/ OffStep(p)
  PROVE  OffInv'
<1> USE Distinct
    DEF OffInv, InSection, OnPcs, OffPcs, Services, Closing,
        fileVars, unitVars, procVars, histVars, Goto
<1>t. /\ pc \in [Ons \cup Closers -> OnPcs \cup OffPcs]
      /\ (\A q \in Ons : pc[q] \in OnPcs) /\ (\A c \in Closers : pc[c] \in OffPcs)
      /\ UnitTypes /\ orphan \in BOOLEAN
      /\ window \in {"none", "self-signed", "1password"}
      /\ receiver \in {"off", "restarting", "self-signed", "1password"}
      /\ armed \subseteq {"window", "expiry"} /\ lock \in Ons \cup Closers \cup {None}
      /\ undo \in [Ons -> Undos] /\ shape \in [Ons -> {"timed", "forever", "once"}]
  BY DEF WindowInv, TypeOK, UnitTypes, ProcTypes
<1>l. \A q \in Ons \cup Closers : InSection(q) <=> lock = q
  BY DEF WindowInv, NeverInterleave
<1>1. CASE OffAsked(p)
  BY <1>1, <1>t, <1>l, WindowAssumption, SMTT(60) DEF OffAsked
<1>2. CASE OffBegin(p)
  BY <1>2, <1>t, <1>l, SMTT(60) DEF OffBegin
<1>3. CASE OffReceiver(p)
  BY <1>3, <1>t, <1>l, SMTT(60) DEF OffReceiver
<1>4. CASE OffCancel(p)
  BY <1>4, <1>t, <1>l, OffCancelFacts, SMTT(60)
<1>5. CASE OffRadio(p)
  BY <1>5, <1>t, <1>l, SMTT(60) DEF OffRadio
<1>6. CASE OffEnd(p)
  BY <1>6, <1>t, <1>l, SMTT(60) DEF OffEnd
<1> QED
  BY <1>1, <1>2, <1>3, <1>4, <1>5, <1>6 DEF OffStep

LEMMA HalfWorld ==
  ASSUME WindowInv, OffInv, World
  PROVE  OffInv'
<1> USE Distinct
    DEF OffInv, InSection, OnPcs, OffPcs, Services, Closing,
        fileVars, unitVars, procVars, histVars, Goto
<1>t. /\ pc \in [Ons \cup Closers -> OnPcs \cup OffPcs]
      /\ (\A q \in Ons : pc[q] \in OnPcs) /\ (\A c \in Closers : pc[c] \in OffPcs)
      /\ UnitTypes /\ orphan \in BOOLEAN
      /\ window \in {"none", "self-signed", "1password"}
      /\ receiver \in {"off", "restarting", "self-signed", "1password"}
      /\ armed \subseteq {"window", "expiry"} /\ lock \in Ons \cup Closers \cup {None}
      /\ undo \in [Ons -> Undos] /\ shape \in [Ons -> {"timed", "forever", "once"}]
  BY DEF WindowInv, TypeOK, UnitTypes, ProcTypes
<1>l. \A q \in Ons \cup Closers : InSection(q) <=> lock = q
  BY DEF WindowInv, NeverInterleave
<1>1. CASE WindowEnds
  BY <1>1, <1>t, <1>l, SMTT(60) DEF WindowEnds
<1>2. CASE HardExpires
  BY <1>2, <1>t, <1>l, SMTT(60) DEF HardExpires
<1>3. CASE ExpiryEnds
  BY <1>3, <1>t, <1>l, SMTT(60) DEF ExpiryEnds
<1>4. CASE Arrive
  BY <1>4, <1>t, <1>l, SMTT(60) DEF Arrive, Down
<1>5. CASE ReceiverCrash
  BY <1>5, <1>t, <1>l, SMTT(60) DEF ReceiverCrash, Down
<1>6. CASE ReceiverRestart
  BY <1>6, <1>t, <1>l, RestartFacts, SMTT(60)
<1>7. CASE RadioChanges
  BY <1>7, <1>t, <1>l, SMTT(60) DEF RadioChanges
<1> QED
  BY <1>1, <1>2, <1>3, <1>4, <1>5, <1>6, <1>7 DEF World

LEMMA HeldOn ==
  ASSUME WindowInv, OffInv, OnInv, NEW p \in Ons, OnBegin(p) \/ OnStep(p)
  PROVE  OnInv'
<1> USE Distinct
    DEF OffInv, OnInv, ExpirySet, WindowSet, InSection, OnPcs, OffPcs, Services, Closing,
        fileVars, unitVars, procVars, histVars, Goto
<1>t. /\ pc \in [Ons \cup Closers -> OnPcs \cup OffPcs]
      /\ (\A q \in Ons : pc[q] \in OnPcs) /\ (\A c \in Closers : pc[c] \in OffPcs)
      /\ UnitTypes /\ orphan \in BOOLEAN
      /\ window \in {"none", "self-signed", "1password"}
      /\ receiver \in {"off", "restarting", "self-signed", "1password"}
      /\ armed \subseteq {"window", "expiry"} /\ lock \in Ons \cup Closers \cup {None}
      /\ undo \in [Ons -> Undos] /\ shape \in [Ons -> {"timed", "forever", "once"}]
  BY DEF WindowInv, TypeOK, UnitTypes, ProcTypes
<1>l. \A q \in Ons \cup Closers : InSection(q) <=> lock = q
  BY DEF WindowInv, NeverInterleave
<1>1. CASE OnBegin(p)
  BY <1>1, <1>t, <1>l, SMTT(60) DEF OnBegin
<1>2. CASE OnWindow(p)
  BY <1>2, <1>t, <1>l, SMTT(60) DEF OnWindow
<1>3. CASE OnCancel(p)
  BY <1>3, <1>t, <1>l, OnCancelFacts, SMTT(60)
<1>4. CASE OnExpiry(p)
  BY <1>4, <1>t, <1>l, SMTT(60) DEF OnExpiry, Abandon, Refused
<1>5. CASE OnWatch(p)
  BY <1>5, <1>t, <1>l, SMTT(60) DEF OnWatch
<1>6. CASE OnReceiver(p)
  BY <1>6, <1>t, <1>l, OnReceiverFacts, StartLists, SMTT(60) DEF Received, NotReceived, Abandon
<1>7. CASE OnRadio(p)
  BY <1>7, <1>t, <1>l, SMTT(60) DEF OnRadio, Abandon
<1>8. CASE OnArm(p)
  BY <1>8, <1>t, <1>l, SMTT(60) DEF OnArm, Refused
<1>9. CASE OnAgain(p)
  BY <1>9, <1>t, <1>l, SMTT(60) DEF OnAgain
<1>10. CASE UndoStep(p)
  BY <1>10, <1>t, <1>l, UndoFacts, SMTT(60) DEF UndoCancels, UndoReceives, UndoRadios, UndoAborts
<1> QED
  BY <1>1, <1>2, <1>3, <1>4, <1>5, <1>6, <1>7, <1>8, <1>9, <1>10 DEF OnStep

LEMMA HeldOff ==
  ASSUME WindowInv, OffInv, OnInv, NEW p \in Closers, OffAsked(p) \/ OffStep(p)
  PROVE  OnInv'
<1> USE Distinct
    DEF OffInv, OnInv, ExpirySet, WindowSet, InSection, OnPcs, OffPcs, Services, Closing,
        fileVars, unitVars, procVars, histVars, Goto
<1>t. /\ pc \in [Ons \cup Closers -> OnPcs \cup OffPcs]
      /\ (\A q \in Ons : pc[q] \in OnPcs) /\ (\A c \in Closers : pc[c] \in OffPcs)
      /\ UnitTypes /\ orphan \in BOOLEAN
      /\ window \in {"none", "self-signed", "1password"}
      /\ receiver \in {"off", "restarting", "self-signed", "1password"}
      /\ armed \subseteq {"window", "expiry"} /\ lock \in Ons \cup Closers \cup {None}
      /\ undo \in [Ons -> Undos] /\ shape \in [Ons -> {"timed", "forever", "once"}]
  BY DEF WindowInv, TypeOK, UnitTypes, ProcTypes
<1>l. \A q \in Ons \cup Closers : InSection(q) <=> lock = q
  BY DEF WindowInv, NeverInterleave
<1>1. CASE OffAsked(p)
  BY <1>1, <1>t, <1>l, WindowAssumption, SMTT(60) DEF OffAsked
<1>2. CASE OffBegin(p)
  BY <1>2, <1>t, <1>l, SMTT(60) DEF OffBegin
<1>3. CASE OffReceiver(p)
  BY <1>3, <1>t, <1>l, SMTT(60) DEF OffReceiver
<1>4. CASE OffCancel(p)
  BY <1>4, <1>t, <1>l, OffCancelFacts, SMTT(60)
<1>5. CASE OffRadio(p)
  BY <1>5, <1>t, <1>l, SMTT(60) DEF OffRadio
<1>6. CASE OffEnd(p)
  BY <1>6, <1>t, <1>l, SMTT(60) DEF OffEnd
<1> QED
  BY <1>1, <1>2, <1>3, <1>4, <1>5, <1>6 DEF OffStep

LEMMA HeldWorld ==
  ASSUME WindowInv, OffInv, OnInv, World
  PROVE  OnInv'
<1> USE Distinct
    DEF OffInv, OnInv, ExpirySet, WindowSet, InSection, OnPcs, OffPcs, Services, Closing,
        fileVars, unitVars, procVars, histVars, Goto
<1>t. /\ pc \in [Ons \cup Closers -> OnPcs \cup OffPcs]
      /\ (\A q \in Ons : pc[q] \in OnPcs) /\ (\A c \in Closers : pc[c] \in OffPcs)
      /\ UnitTypes /\ orphan \in BOOLEAN
      /\ window \in {"none", "self-signed", "1password"}
      /\ receiver \in {"off", "restarting", "self-signed", "1password"}
      /\ armed \subseteq {"window", "expiry"} /\ lock \in Ons \cup Closers \cup {None}
      /\ undo \in [Ons -> Undos] /\ shape \in [Ons -> {"timed", "forever", "once"}]
  BY DEF WindowInv, TypeOK, UnitTypes, ProcTypes
<1>l. \A q \in Ons \cup Closers : InSection(q) <=> lock = q
  BY DEF WindowInv, NeverInterleave
<1>1. CASE WindowEnds
  BY <1>1, <1>t, <1>l, SMTT(60) DEF WindowEnds
<1>2. CASE HardExpires
  BY <1>2, <1>t, <1>l, SMTT(60) DEF HardExpires
<1>3. CASE ExpiryEnds
  BY <1>3, <1>t, <1>l, SMTT(60) DEF ExpiryEnds
<1>4. CASE Arrive
  BY <1>4, <1>t, <1>l, SMTT(60) DEF Arrive, Down
<1>5. CASE ReceiverCrash
  BY <1>5, <1>t, <1>l, SMTT(60) DEF ReceiverCrash, Down
<1>6. CASE ReceiverRestart
  BY <1>6, <1>t, <1>l, SMTT(60) DEF ReceiverRestart
<1>7. CASE RadioChanges
  BY <1>7, <1>t, <1>l, SMTT(60) DEF RadioChanges
<1> QED
  BY <1>1, <1>2, <1>3, <1>4, <1>5, <1>6, <1>7 DEF World

LEMMA FreshOn ==
  ASSUME WindowInv, OffInv, OnInv, FreshInv, NEW p \in Ons, OnBegin(p) \/ OnStep(p)
  PROVE  FreshInv'
<1> USE Distinct
    DEF OffInv, OnInv, FreshInv, Gone, Resting, Alone, SetUp, InSection, OnPcs, OffPcs, Services, Closing,
        fileVars, unitVars, procVars, histVars, Goto
<1>t. /\ pc \in [Ons \cup Closers -> OnPcs \cup OffPcs]
      /\ (\A q \in Ons : pc[q] \in OnPcs) /\ (\A c \in Closers : pc[c] \in OffPcs)
      /\ UnitTypes /\ orphan \in BOOLEAN
      /\ window \in {"none", "self-signed", "1password"}
      /\ receiver \in {"off", "restarting", "self-signed", "1password"}
      /\ armed \subseteq {"window", "expiry"} /\ lock \in Ons \cup Closers \cup {None}
      /\ undo \in [Ons -> Undos] /\ shape \in [Ons -> {"timed", "forever", "once"}]
  BY DEF WindowInv, TypeOK, UnitTypes, ProcTypes
<1>l. \A q \in Ons \cup Closers : InSection(q) <=> lock = q
  BY DEF WindowInv, NeverInterleave
<1>1. CASE OnBegin(p)
  BY <1>1, <1>t, <1>l, SMTT(60) DEF OnBegin
<1>2. CASE OnWindow(p)
  BY <1>2, <1>t, <1>l, SMTT(60) DEF OnWindow
<1>3. CASE OnCancel(p)
  BY <1>3, <1>t, <1>l, OnCancelFacts, SMTT(60)
<1>4. CASE OnExpiry(p)
  <2>1. /\ lock = p /\ pc[p] = "expiry" /\ pc'[p] \in {"watch", "undo"} /\ (\A q \in Ons \ {p} : pc'[q] = pc[q])
        /\ pc'[p] = "undo" => undo'[p] = <<"abort">> /\ armed' = armed
        /\ UNCHANGED <<window, lock, receiver, radio, watch, orphan, may>>
    BY <1>4, <1>t, <1>l DEF OnExpiry, Abandon
  <2>2. may \cap {"stop", "repeat"} = {} => Alone(p) /\ SetUp(p) /\ \A q \in Ons \ {p} : pc[q] \in Resting
    BY <2>1
  <2>3. ASSUME may \cap {"stop", "repeat"} = {} PROVE SetUp(p)'
    BY <2>1, <2>2, <2>3, StartLists
  <2>4. ASSUME may \cap {"stop", "repeat"} = {}, NEW q \in Ons \ {p} PROVE SetUp(q)'
    BY <2>1, <2>2, <2>4
  <2>5. ASSUME may \cap {"stop", "repeat"} = {} PROVE \A q \in Ons : Alone(q)'
    BY <2>1, <2>2, <2>5
  <2> QED
    BY <2>1, <2>3, <2>4, <2>5
<1>5. CASE OnWatch(p)
  BY <1>5, <1>t, <1>l, SMTT(60) DEF OnWatch
<1>6. CASE OnReceiver(p)
  BY <1>6, <1>t, <1>l, OnReceiverFacts, StartLists, SMTT(60) DEF Received, NotReceived, Abandon
<1>7. CASE OnRadio(p)
  BY <1>7, <1>t, <1>l, StartLists, SMTT(60) DEF OnRadio, Abandon
<1>8. CASE OnArm(p)
  BY <1>8, <1>t, <1>l, SMTT(60) DEF OnArm, Refused
<1>9. CASE OnAgain(p)
  BY <1>9, <1>t, <1>l, SMTT(60) DEF OnAgain
<1>10. CASE UndoStep(p)
  <2>1. /\ lock = p /\ pc[p] = "undo" /\ (\A q \in Ons \ {p} : undo'[q] = undo[q]) /\ may' = may
        /\ UndoCancels(p) \/ UndoReceives(p) \/ UndoRadios(p) \/ UndoAborts(p)
    BY <1>10, UndoFacts
  <2>2. may \cap {"stop", "repeat"} = {} => Alone(p) /\ SetUp(p) /\ \A q \in Ons \ {p} : pc[q] \in Resting
    BY <2>1
  <2>3. CASE UndoCancels(p)
    <3>1. ASSUME may \cap {"stop", "repeat"} = {} PROVE SetUp(p)'
      BY <1>t, <2>1, <2>2, <2>3, <3>1 DEF UndoCancels
    <3>2. ASSUME may \cap {"stop", "repeat"} = {} PROVE \A q \in Ons : SetUp(q)' /\ Alone(q)'
      BY <1>t, <2>1, <2>2, <2>3, <3>1, <3>2 DEF UndoCancels
    <3>3. ASSUME may \cap {"stop", "repeat"} = {}
          PROVE  /\ lock' = None /\ window' = "none" => Gone'
                 /\ watch' # "none" => window' # "none"
                 /\ receiver' = "1password" => orphan' \/ window' = "1password"
      BY <1>t, <1>l, <2>1, <2>2, <2>3, <3>3 DEF UndoCancels
    <3> QED
      BY <2>1, <3>2, <3>3 DEF FreshInv
  <2>4. CASE UndoReceives(p)
    <3>1. ASSUME may \cap {"stop", "repeat"} = {} PROVE SetUp(p)'
      BY <1>t, <2>1, <2>2, <2>4, <3>1 DEF UndoReceives
    <3>2. ASSUME may \cap {"stop", "repeat"} = {} PROVE \A q \in Ons : SetUp(q)' /\ Alone(q)'
      BY <1>t, <2>1, <2>2, <2>4, <3>1, <3>2 DEF UndoReceives
    <3>3. ASSUME may \cap {"stop", "repeat"} = {}
          PROVE  /\ lock' = None /\ window' = "none" => Gone'
                 /\ watch' # "none" => window' # "none"
                 /\ receiver' = "1password" => orphan' \/ window' = "1password"
      BY <1>t, <1>l, <2>1, <2>2, <2>4, <3>3 DEF UndoReceives
    <3> QED
      BY <2>1, <3>2, <3>3 DEF FreshInv
  <2>5. CASE UndoRadios(p)
    <3>1. ASSUME may \cap {"stop", "repeat"} = {} PROVE SetUp(p)'
      BY <1>t, <2>1, <2>2, <2>5, <3>1 DEF UndoRadios
    <3>2. ASSUME may \cap {"stop", "repeat"} = {} PROVE \A q \in Ons : SetUp(q)' /\ Alone(q)'
      BY <1>t, <2>1, <2>2, <2>5, <3>1, <3>2 DEF UndoRadios
    <3>3. ASSUME may \cap {"stop", "repeat"} = {}
          PROVE  /\ lock' = None /\ window' = "none" => Gone'
                 /\ watch' # "none" => window' # "none"
                 /\ receiver' = "1password" => orphan' \/ window' = "1password"
      BY <1>t, <1>l, <2>1, <2>2, <2>5, <3>3 DEF UndoRadios
    <3> QED
      BY <2>1, <3>2, <3>3 DEF FreshInv
  <2>6. CASE UndoAborts(p)
    <3>1. ASSUME may \cap {"stop", "repeat"} = {} PROVE SetUp(p)'
      BY <1>t, <2>1, <2>2, <2>6, <3>1 DEF UndoAborts
    <3>2. ASSUME may \cap {"stop", "repeat"} = {} PROVE \A q \in Ons : SetUp(q)' /\ Alone(q)'
      BY <1>t, <2>1, <2>2, <2>6, <3>1, <3>2 DEF UndoAborts
    <3>3. ASSUME may \cap {"stop", "repeat"} = {}
          PROVE  /\ lock' = None /\ window' = "none" => Gone'
                 /\ watch' # "none" => window' # "none"
                 /\ receiver' = "1password" => orphan' \/ window' = "1password"
      BY <1>t, <1>l, <2>1, <2>2, <2>6, <3>3 DEF UndoAborts
    <3> QED
      BY <2>1, <3>2, <3>3 DEF FreshInv
  <2> QED
    BY <2>1, <2>3, <2>4, <2>5, <2>6
<1> QED
  BY <1>1, <1>2, <1>3, <1>4, <1>5, <1>6, <1>7, <1>8, <1>9, <1>10 DEF OnStep

LEMMA FreshOff ==
  ASSUME WindowInv, OffInv, OnInv, FreshInv, NEW p \in Closers, OffAsked(p) \/ OffStep(p)
  PROVE  FreshInv'
<1> USE Distinct
    DEF OffInv, OnInv, FreshInv, Gone, Resting, Alone, SetUp, InSection, OnPcs, OffPcs, Services, Closing,
        fileVars, unitVars, procVars, histVars, Goto
<1>t. /\ pc \in [Ons \cup Closers -> OnPcs \cup OffPcs]
      /\ (\A q \in Ons : pc[q] \in OnPcs) /\ (\A c \in Closers : pc[c] \in OffPcs)
      /\ UnitTypes /\ orphan \in BOOLEAN
      /\ window \in {"none", "self-signed", "1password"}
      /\ receiver \in {"off", "restarting", "self-signed", "1password"}
      /\ armed \subseteq {"window", "expiry"} /\ lock \in Ons \cup Closers \cup {None}
      /\ undo \in [Ons -> Undos] /\ shape \in [Ons -> {"timed", "forever", "once"}]
  BY DEF WindowInv, TypeOK, UnitTypes, ProcTypes
<1>l. \A q \in Ons \cup Closers : InSection(q) <=> lock = q
  BY DEF WindowInv, NeverInterleave
<1>1. CASE OffAsked(p)
  BY <1>1, <1>t, <1>l, WindowAssumption, SMTT(60) DEF OffAsked
<1>2. CASE OffBegin(p)
  BY <1>2, <1>t, <1>l, SMTT(60) DEF OffBegin
<1>3. CASE OffReceiver(p)
  BY <1>3, <1>t, <1>l, SMTT(60) DEF OffReceiver
<1>4. CASE OffCancel(p)
  BY <1>4, <1>t, <1>l, OffCancelFacts, SMTT(60)
<1>5. CASE OffRadio(p)
  BY <1>5, <1>t, <1>l, SMTT(60) DEF OffRadio
<1>6. CASE OffEnd(p)
  BY <1>6, <1>t, <1>l, SMTT(60) DEF OffEnd
<1> QED
  BY <1>1, <1>2, <1>3, <1>4, <1>5, <1>6 DEF OffStep

LEMMA FreshWorld ==
  ASSUME WindowInv, OffInv, OnInv, FreshInv, World
  PROVE  FreshInv'
<1> USE Distinct
    DEF OffInv, OnInv, FreshInv, Gone, Resting, Alone, SetUp, InSection, OnPcs, OffPcs, Services, Closing,
        fileVars, unitVars, procVars, histVars, Goto
<1>t. /\ pc \in [Ons \cup Closers -> OnPcs \cup OffPcs]
      /\ (\A q \in Ons : pc[q] \in OnPcs) /\ (\A c \in Closers : pc[c] \in OffPcs)
      /\ UnitTypes /\ orphan \in BOOLEAN
      /\ window \in {"none", "self-signed", "1password"}
      /\ receiver \in {"off", "restarting", "self-signed", "1password"}
      /\ armed \subseteq {"window", "expiry"} /\ lock \in Ons \cup Closers \cup {None}
      /\ undo \in [Ons -> Undos] /\ shape \in [Ons -> {"timed", "forever", "once"}]
  BY DEF WindowInv, TypeOK, UnitTypes, ProcTypes
<1>l. \A q \in Ons \cup Closers : InSection(q) <=> lock = q
  BY DEF WindowInv, NeverInterleave
<1>1. CASE WindowEnds
  BY <1>1, <1>t, <1>l, SMTT(60) DEF WindowEnds
<1>2. CASE HardExpires
  BY <1>2, <1>t, <1>l, SMTT(60) DEF HardExpires
<1>3. CASE ExpiryEnds
  BY <1>3, <1>t, <1>l, SMTT(60) DEF ExpiryEnds
<1>4. CASE Arrive
  BY <1>4, <1>t, <1>l, SMTT(60) DEF Arrive, Down
<1>5. CASE ReceiverCrash
  BY <1>5, <1>t, <1>l, SMTT(60) DEF ReceiverCrash, Down
<1>6. CASE ReceiverRestart
  <2>1. /\ receiver = "restarting" /\ receiver' \in {"off", "restarting", "self-signed", "1password"}
        /\ receiver' = "off" => ~orphan'
        /\ receiver' # "off" => (orphan' <=> orphan)
        /\ receiver' = "1password" => window = "1password"
        /\ window' = window /\ lock' = lock /\ radio' = radio /\ armed' = armed /\ watch' = watch
        /\ pc' = pc /\ shape' = shape /\ undo' = undo /\ last' = last /\ may' = may /\ age' = age
    BY <1>6, <1>t, RestartFacts
  <2>2. ASSUME may \cap {"stop", "repeat"} = {}, lock = None, window = "none" PROVE Gone'
    BY <2>1, <2>2
  <2>3. ASSUME may \cap {"stop", "repeat"} = {}, receiver' = "1password"
        PROVE  orphan' \/ window' = "1password"
    BY <2>1, <2>3
  <2>4. ASSUME may \cap {"stop", "repeat"} = {}, NEW q \in Ons PROVE Alone(q)' /\ SetUp(q)'
    BY <2>1, <2>4
  <2> QED
    BY <2>1, <2>2, <2>3, <2>4
<1>7. CASE RadioChanges
  BY <1>7, <1>t, <1>l, SMTT(60) DEF RadioChanges
<1> QED
  BY <1>1, <1>2, <1>3, <1>4, <1>5, <1>6, <1>7 DEF World

LEMMA AgainOn ==
  ASSUME WindowInv, OffInv, OnInv, AgainInv, NEW p \in Ons, OnBegin(p) \/ OnStep(p)
  PROVE  AgainInv'
<1> USE Distinct
    DEF OffInv, OnInv, AgainInv, Orderly, InSection, OnPcs, OffPcs, Services, Closing,
        fileVars, unitVars, procVars, histVars, Goto
<1>t. /\ pc \in [Ons \cup Closers -> OnPcs \cup OffPcs]
      /\ (\A q \in Ons : pc[q] \in OnPcs) /\ (\A c \in Closers : pc[c] \in OffPcs)
      /\ UnitTypes /\ orphan \in BOOLEAN
      /\ window \in {"none", "self-signed", "1password"}
      /\ receiver \in {"off", "restarting", "self-signed", "1password"}
      /\ armed \subseteq {"window", "expiry"} /\ lock \in Ons \cup Closers \cup {None}
      /\ undo \in [Ons -> Undos] /\ shape \in [Ons -> {"timed", "forever", "once"}]
  BY DEF WindowInv, TypeOK, UnitTypes, ProcTypes
<1>l. \A q \in Ons \cup Closers : InSection(q) <=> lock = q
  BY DEF WindowInv, NeverInterleave
<1>1. CASE OnBegin(p)
  BY <1>1, <1>t, <1>l, SMTT(60) DEF OnBegin
<1>2. CASE OnWindow(p)
  BY <1>2, <1>t, <1>l, SMTT(60) DEF OnWindow
<1>3. CASE OnCancel(p)
  BY <1>3, <1>t, <1>l, OnCancelFacts, SMTT(60)
<1>4. CASE OnExpiry(p)
  BY <1>4, <1>t, <1>l, SMTT(60) DEF OnExpiry, Abandon, Refused
<1>5. CASE OnWatch(p)
  BY <1>5, <1>t, <1>l, SMTT(60) DEF OnWatch
<1>6. CASE OnReceiver(p)
  BY <1>6, <1>t, <1>l, OnReceiverFacts, StartLists, SMTT(60) DEF Received, NotReceived, Abandon
<1>7. CASE OnRadio(p)
  BY <1>7, <1>t, <1>l, SMTT(60) DEF OnRadio, Abandon
<1>8. CASE OnArm(p)
  BY <1>8, <1>t, <1>l, SMTT(60) DEF OnArm, Refused
<1>9. CASE OnAgain(p)
  BY <1>9, <1>t, <1>l, SMTT(60) DEF OnAgain
<1>10. CASE UndoStep(p)
  BY <1>10, <1>t, <1>l, UndoFacts, SMTT(60) DEF UndoCancels, UndoReceives, UndoRadios, UndoAborts
<1> QED
  BY <1>1, <1>2, <1>3, <1>4, <1>5, <1>6, <1>7, <1>8, <1>9, <1>10 DEF OnStep

LEMMA AgainOff ==
  ASSUME WindowInv, OffInv, OnInv, AgainInv, NEW p \in Closers, OffAsked(p) \/ OffStep(p)
  PROVE  AgainInv'
<1> USE Distinct
    DEF OffInv, OnInv, AgainInv, Orderly, InSection, OnPcs, OffPcs, Services, Closing,
        fileVars, unitVars, procVars, histVars, Goto
<1>t. /\ pc \in [Ons \cup Closers -> OnPcs \cup OffPcs]
      /\ (\A q \in Ons : pc[q] \in OnPcs) /\ (\A c \in Closers : pc[c] \in OffPcs)
      /\ UnitTypes /\ orphan \in BOOLEAN
      /\ window \in {"none", "self-signed", "1password"}
      /\ receiver \in {"off", "restarting", "self-signed", "1password"}
      /\ armed \subseteq {"window", "expiry"} /\ lock \in Ons \cup Closers \cup {None}
      /\ undo \in [Ons -> Undos] /\ shape \in [Ons -> {"timed", "forever", "once"}]
  BY DEF WindowInv, TypeOK, UnitTypes, ProcTypes
<1>l. \A q \in Ons \cup Closers : InSection(q) <=> lock = q
  BY DEF WindowInv, NeverInterleave
<1>1. CASE OffAsked(p)
  BY <1>1, <1>t, <1>l, WindowAssumption, SMTT(60) DEF OffAsked
<1>2. CASE OffBegin(p)
  BY <1>2, <1>t, <1>l, SMTT(60) DEF OffBegin
<1>3. CASE OffReceiver(p)
  BY <1>3, <1>t, <1>l, SMTT(60) DEF OffReceiver
<1>4. CASE OffCancel(p)
  BY <1>4, <1>t, <1>l, OffCancelFacts, SMTT(60)
<1>5. CASE OffRadio(p)
  BY <1>5, <1>t, <1>l, SMTT(60) DEF OffRadio
<1>6. CASE OffEnd(p)
  BY <1>6, <1>t, <1>l, SMTT(60) DEF OffEnd
<1> QED
  BY <1>1, <1>2, <1>3, <1>4, <1>5, <1>6 DEF OffStep

LEMMA AgainWorld ==
  ASSUME WindowInv, OffInv, OnInv, AgainInv, World
  PROVE  AgainInv'
<1> USE Distinct
    DEF OffInv, OnInv, AgainInv, Orderly, InSection, OnPcs, OffPcs, Services, Closing,
        fileVars, unitVars, procVars, histVars, Goto
<1>t. /\ pc \in [Ons \cup Closers -> OnPcs \cup OffPcs]
      /\ (\A q \in Ons : pc[q] \in OnPcs) /\ (\A c \in Closers : pc[c] \in OffPcs)
      /\ UnitTypes /\ orphan \in BOOLEAN
      /\ window \in {"none", "self-signed", "1password"}
      /\ receiver \in {"off", "restarting", "self-signed", "1password"}
      /\ armed \subseteq {"window", "expiry"} /\ lock \in Ons \cup Closers \cup {None}
      /\ undo \in [Ons -> Undos] /\ shape \in [Ons -> {"timed", "forever", "once"}]
  BY DEF WindowInv, TypeOK, UnitTypes, ProcTypes
<1>l. \A q \in Ons \cup Closers : InSection(q) <=> lock = q
  BY DEF WindowInv, NeverInterleave
<1>1. CASE WindowEnds
  BY <1>1, <1>t, <1>l, SMTT(60) DEF WindowEnds
<1>2. CASE HardExpires
  BY <1>2, <1>t, <1>l, SMTT(60) DEF HardExpires
<1>3. CASE ExpiryEnds
  BY <1>3, <1>t, <1>l, SMTT(60) DEF ExpiryEnds
<1>4. CASE Arrive
  BY <1>4, <1>t, <1>l, SMTT(60) DEF Arrive, Down
<1>5. CASE ReceiverCrash
  BY <1>5, <1>t, <1>l, SMTT(60) DEF ReceiverCrash, Down
<1>6. CASE ReceiverRestart
  BY <1>6, <1>t, <1>l, RestartFacts, SMTT(60)
<1>7. CASE RadioChanges
  BY <1>7, <1>t, <1>l, SMTT(60) DEF RadioChanges
<1> QED
  BY <1>1, <1>2, <1>3, <1>4, <1>5, <1>6, <1>7 DEF World

LEMMA BoundOn ==
  ASSUME WindowInv, OffInv, OnInv, FreshInv, AgainInv, BoundInv, NEW p \in Ons, OnBegin(p) \/ OnStep(p)
  PROVE  BoundInv'
<1> USE Distinct
    DEF OffInv, OnInv, FreshInv, AgainInv, BoundInv, NameFree, TimedBounded, Orderly,
        ExpirySet, WindowSet, Gone, Resting, Alone, SetUp, InSection, OnPcs, OffPcs, Services, Closing,
        fileVars, unitVars, procVars, histVars, Goto
<1>t. /\ pc \in [Ons \cup Closers -> OnPcs \cup OffPcs]
      /\ (\A q \in Ons : pc[q] \in OnPcs) /\ (\A c \in Closers : pc[c] \in OffPcs)
      /\ UnitTypes /\ orphan \in BOOLEAN
      /\ window \in {"none", "self-signed", "1password"}
      /\ receiver \in {"off", "restarting", "self-signed", "1password"}
      /\ armed \subseteq {"window", "expiry"} /\ lock \in Ons \cup Closers \cup {None}
      /\ undo \in [Ons -> Undos] /\ shape \in [Ons -> {"timed", "forever", "once"}]
  BY DEF WindowInv, TypeOK, UnitTypes, ProcTypes
<1>l. \A q \in Ons \cup Closers : InSection(q) <=> lock = q
  BY DEF WindowInv, NeverInterleave
<1>1. CASE OnBegin(p)
  BY <1>1, <1>t, <1>l, SMTT(60) DEF OnBegin
<1>2. CASE OnWindow(p)
  BY <1>2, <1>t, <1>l, SMTT(60) DEF OnWindow
<1>3. CASE OnCancel(p)
  BY <1>3, <1>t, <1>l, OnCancelFacts, SMTT(60)
<1>4. CASE OnExpiry(p)
  BY <1>4, <1>t, <1>l, SMTT(60) DEF OnExpiry, Abandon, Refused
<1>5. CASE OnWatch(p)
  BY <1>5, <1>t, <1>l, SMTT(60) DEF OnWatch
<1>6. CASE OnReceiver(p)
  BY <1>6, <1>t, <1>l, OnReceiverFacts, StartLists, SMTT(60) DEF Received, NotReceived, Abandon
<1>7. CASE OnRadio(p)
  BY <1>7, <1>t, <1>l, SMTT(60) DEF OnRadio, Abandon
<1>8. CASE OnArm(p)
  BY <1>8, <1>t, <1>l, SMTT(60) DEF OnArm, Refused
<1>9. CASE OnAgain(p)
  BY <1>9, <1>t, <1>l, SMTT(60) DEF OnAgain
<1>10. CASE UndoStep(p)
  <2>1. /\ lock = p /\ pc[p] = "undo" /\ (\A q \in Ons \ {p} : undo'[q] = undo[q])
        /\ UNCHANGED <<age, mySeq, shape, overtaken, last, may>>
        /\ UndoCancels(p) \/ UndoReceives(p) \/ UndoRadios(p) \/ UndoAborts(p)
    BY <1>10, UndoFacts
  <2>2. CASE UndoCancels(p)
    BY <1>t, <1>l, <2>1, <2>2, SMTT(60) DEF UndoCancels
  <2>3. CASE UndoReceives(p)
    BY <1>t, <1>l, <2>1, <2>3, SMTT(60) DEF UndoReceives
  <2>4. CASE UndoRadios(p)
    BY <1>t, <1>l, <2>1, <2>4, SMTT(60) DEF UndoRadios
  <2>5. CASE UndoAborts(p)
    BY <1>t, <1>l, <2>1, <2>5, SMTT(60) DEF UndoAborts
  <2> QED
    BY <2>1, <2>2, <2>3, <2>4, <2>5
<1> QED
  BY <1>1, <1>2, <1>3, <1>4, <1>5, <1>6, <1>7, <1>8, <1>9, <1>10 DEF OnStep

LEMMA BoundOff ==
  ASSUME WindowInv, OffInv, OnInv, FreshInv, AgainInv, BoundInv, NEW p \in Closers, OffAsked(p) \/ OffStep(p)
  PROVE  BoundInv'
<1> USE Distinct
    DEF OffInv, OnInv, FreshInv, AgainInv, BoundInv, NameFree, TimedBounded, Orderly,
        ExpirySet, WindowSet, Gone, Resting, Alone, SetUp, InSection, OnPcs, OffPcs, Services, Closing,
        fileVars, unitVars, procVars, histVars, Goto
<1>t. /\ pc \in [Ons \cup Closers -> OnPcs \cup OffPcs]
      /\ (\A q \in Ons : pc[q] \in OnPcs) /\ (\A c \in Closers : pc[c] \in OffPcs)
      /\ UnitTypes /\ orphan \in BOOLEAN
      /\ window \in {"none", "self-signed", "1password"}
      /\ receiver \in {"off", "restarting", "self-signed", "1password"}
      /\ armed \subseteq {"window", "expiry"} /\ lock \in Ons \cup Closers \cup {None}
      /\ undo \in [Ons -> Undos] /\ shape \in [Ons -> {"timed", "forever", "once"}]
  BY DEF WindowInv, TypeOK, UnitTypes, ProcTypes
<1>l. \A q \in Ons \cup Closers : InSection(q) <=> lock = q
  BY DEF WindowInv, NeverInterleave
<1>1. CASE OffAsked(p)
  BY <1>1, <1>t, <1>l, WindowAssumption, SMTT(60) DEF OffAsked
<1>2. CASE OffBegin(p)
  BY <1>2, <1>t, <1>l, SMTT(60) DEF OffBegin
<1>3. CASE OffReceiver(p)
  BY <1>3, <1>t, <1>l, SMTT(60) DEF OffReceiver
<1>4. CASE OffCancel(p)
  BY <1>4, <1>t, <1>l, OffCancelFacts, SMTT(60)
<1>5. CASE OffRadio(p)
  BY <1>5, <1>t, <1>l, SMTT(60) DEF OffRadio
<1>6. CASE OffEnd(p)
  BY <1>6, <1>t, <1>l, SMTT(60) DEF OffEnd
<1> QED
  BY <1>1, <1>2, <1>3, <1>4, <1>5, <1>6 DEF OffStep

LEMMA BoundWorld ==
  ASSUME WindowInv, OffInv, OnInv, FreshInv, AgainInv, BoundInv, World
  PROVE  BoundInv'
<1> USE Distinct
    DEF OffInv, OnInv, FreshInv, AgainInv, BoundInv, NameFree, TimedBounded, Orderly,
        ExpirySet, WindowSet, Gone, Resting, Alone, SetUp, InSection, OnPcs, OffPcs, Services, Closing,
        fileVars, unitVars, procVars, histVars, Goto
<1>t. /\ pc \in [Ons \cup Closers -> OnPcs \cup OffPcs]
      /\ (\A q \in Ons : pc[q] \in OnPcs) /\ (\A c \in Closers : pc[c] \in OffPcs)
      /\ UnitTypes /\ orphan \in BOOLEAN
      /\ window \in {"none", "self-signed", "1password"}
      /\ receiver \in {"off", "restarting", "self-signed", "1password"}
      /\ armed \subseteq {"window", "expiry"} /\ lock \in Ons \cup Closers \cup {None}
      /\ undo \in [Ons -> Undos] /\ shape \in [Ons -> {"timed", "forever", "once"}]
  BY DEF WindowInv, TypeOK, UnitTypes, ProcTypes
<1>l. \A q \in Ons \cup Closers : InSection(q) <=> lock = q
  BY DEF WindowInv, NeverInterleave
<1>1. CASE WindowEnds
  BY <1>1, <1>t, <1>l, SMTT(60) DEF WindowEnds
<1>2. CASE HardExpires
  BY <1>2, <1>t, <1>l, SMTT(60) DEF HardExpires
<1>3. CASE ExpiryEnds
  BY <1>3, <1>t, <1>l, SMTT(60) DEF ExpiryEnds
<1>4. CASE Arrive
  BY <1>4, <1>t, <1>l, SMTT(60) DEF Arrive, Down
<1>5. CASE ReceiverCrash
  BY <1>5, <1>t, <1>l, SMTT(60) DEF ReceiverCrash, Down
<1>6. CASE ReceiverRestart
  <2>1. /\ receiver = "restarting" /\ receiver' \in {"off", "restarting", "self-signed", "1password"}
        /\ receiver' = "off" => ~orphan'
        /\ receiver' # "off" => (orphan' <=> orphan)
        /\ receiver' = "1password" => window = "1password"
        /\ window' = window /\ lock' = lock /\ radio' = radio /\ armed' = armed /\ watch' = watch
        /\ pc' = pc /\ shape' = shape /\ undo' = undo /\ last' = last /\ may' = may /\ age' = age
    BY <1>6, <1>t, RestartFacts
  <2> QED
    BY <1>t, <1>l, <2>1, SMTT(60)
<1>7. CASE RadioChanges
  BY <1>7, <1>t, <1>l, SMTT(60) DEF RadioChanges
<1> QED
  BY <1>1, <1>2, <1>3, <1>4, <1>5, <1>6, <1>7 DEF World

\* The first state.
LEMMA BoundInit == Init => OffInv /\ OnInv /\ FreshInv /\ AgainInv /\ BoundInv
<1> SUFFICES ASSUME Init PROVE OffInv /\ OnInv /\ FreshInv /\ AgainInv /\ BoundInv
  OBVIOUS
<1>1. /\ \A q \in Ons \cup Closers : pc[q] = "idle"
      /\ lock = None /\ window = "none" /\ receiver = "off" /\ radio = "down" /\ armed = {} /\ watch = "none"
      /\ orphan = FALSE
  BY DEF Init
<1>2. OffInv /\ OnInv
  BY <1>1 DEF OffInv, OnInv, InSection, Closers
<1>3. FreshInv /\ AgainInv
  BY <1>1 DEF FreshInv, AgainInv, Gone, Alone, SetUp, Resting
<1>4. BoundInv
  BY <1>1, Distinct DEF BoundInv, NameFree, TimedBounded, Gone
<1> QED
  BY <1>2, <1>3, <1>4

\* The argument for bounded windows is inductive, and always holds.
LEMMA BoundInvariant == Spec => [](WindowInv /\ OffInv /\ OnInv /\ FreshInv /\ AgainInv /\ BoundInv)
<1>1. /\ WindowInv /\ OffInv /\ OnInv /\ FreshInv /\ AgainInv /\ BoundInv
      /\ [Next]_vars
      => OffInv' /\ OnInv' /\ FreshInv' /\ AgainInv' /\ BoundInv'
  <2> SUFFICES ASSUME WindowInv, OffInv, OnInv, FreshInv, AgainInv, BoundInv, [Next]_vars
               PROVE  OffInv' /\ OnInv' /\ FreshInv' /\ AgainInv' /\ BoundInv'
    OBVIOUS
  <2>1. ASSUME NEW p \in Ons, OnBegin(p) \/ OnStep(p)
        PROVE  OffInv' /\ OnInv' /\ FreshInv' /\ AgainInv' /\ BoundInv'
    BY <2>1, HalfOn, HeldOn, FreshOn, AgainOn, BoundOn
  <2>2. ASSUME NEW p \in Closers, OffAsked(p) \/ OffStep(p)
        PROVE  OffInv' /\ OnInv' /\ FreshInv' /\ AgainInv' /\ BoundInv'
    BY <2>2, HalfOff, HeldOff, FreshOff, AgainOff, BoundOff
  <2>3. CASE World
    BY <2>3, HalfWorld, HeldWorld, FreshWorld, AgainWorld, BoundWorld
  <2>4. CASE UNCHANGED vars
    <3> USE <2>4 DEF vars, fileVars, unitVars, procVars, histVars
    <3>1. OffInv' /\ OnInv'
      BY DEF OffInv, OnInv, ExpirySet, WindowSet, Closing, InSection
    <3>2. FreshInv' /\ AgainInv'
      BY DEF FreshInv, AgainInv, Gone, Alone, SetUp, Resting, Orderly
    <3>3. BoundInv'
      BY DEF BoundInv, NameFree, TimedBounded, Orderly, ExpirySet, Closing, Gone
    <3> QED
      BY <3>1, <3>2, <3>3
  <2> QED
    BY <2>1, <2>2, <2>3, <2>4 DEF Next, Quiet
<1> QED
  BY <1>1, WindowInvariant, BoundInit, PTL DEF Spec

\* Every open window is bounded (cmd_on's timers): a receiver with a cached identity
\* has the hard expiry's timer, a timed window has its own, and a closing service that
\* failed occupies neither name.  Of an orphan, a receiver whose failed start systemd
\* goes on with and which has no window, it does not speak.
THEOREM WindowsBoundedAlways == Spec => []WindowsBounded
<1>1. WindowInv /\ BoundInv => WindowsBounded
  BY DEF WindowInv, TypeOK, UnitTypes, BoundInv, WindowsBounded, ExpiryArmed, ExpirySet
<1> QED
  BY <1>1, BoundInvariant, PTL

\* With no window file, nobody at work and no off on the way, no radio, timer or watcher
\* is left, and no receiver but an orphan (cmd_on's ways out, cmd_off), as long as
\* whatever is told to stop stops, and no start fails over an open window.
THEOREM ClosedIsClosedAlways == Spec => []ClosedIsClosed
<1>1. BoundInv => ClosedIsClosed
  BY DEF BoundInv, ClosedIsClosed, Gone
<1> QED
  BY <1>1, BoundInvariant, PTL

\* The receiver stops before the identity it loaded is released, by off and by an on
\* that fails; unless it is an orphan, which that on did not stop.
THEOREM IdentityHeldAlways == Spec => []IdentityHeld
<1>1. FreshInv => IdentityHeld
  BY DEF FreshInv, IdentityHeld
<1> QED
  BY <1>1, BoundInvariant, PTL

-----------------------------------------------------------------------------
(* WindowTurns. *)

Asked == {p \in Ons : pc[p] = "begun"}

Units == {"receiver", "radio", "window", "expiry", "watcher"}

\* Nothing is up but the five units, and what changes in none of them changes
\* nothing of what is up.
LEMMA UpUnits ==
  /\ UnitTypes => Up \subseteq Units
  /\ UNCHANGED <<receiver, radio, armed, watch>> => Up' = Up
<1>1. UnitTypes => Up \subseteq Units
  BY DEF UnitTypes, Up, Units
<1>2. UNCHANGED <<receiver, radio, armed, watch>> => Up' = Up
  BY DEF Up
<1> QED
  BY <1>1, <1>2

\* A step in which no unit but those in S can have come up.
LEMMA UpShrinks ==
  ASSUME NEW S, armed' \subseteq armed,
         receiver = "off" => receiver' = "off",
         radio = "down" => radio' = "down" \/ "radio" \in S,
         watch = "none" => watch' = "none"
  PROVE  Up' \subseteq Up \cup S
BY DEF Up

\* Every step of an on is one of its abstract steps, or none.
LEMMA TurnsOn ==
  ASSUME WindowInv, WindowInv', NEW p \in Ons, OnBegin(p) \/ OnStep(p)
  PROVE  [T!TNext]_(T!tvars)
<1> USE Distinct DEF fileVars, unitVars, procVars, histVars, Goto
<1>t. /\ UnitTypes /\ ProcTypes /\ UnitTypes' /\ ProcTypes' /\ NeverInterleave /\ OffSettles
      /\ Up' \subseteq Units
  BY UpUnits DEF WindowInv, TypeOK, Up, Units, UnitTypes
<1>n. /\ T!Ask(p) => T!TNext
      /\ T!GiveUp(p) => T!TNext
      /\ T!Open(p) => T!TNext
      /\ T!Work(p) => T!TNext
      /\ T!Leave => T!TNext
  BY DEF T!TNext
<1>1. CASE OnBegin(p)
  <2>1. Up' = Up
    BY <1>1, UpUnits DEF OnBegin
  <2>2. Asked' = Asked \cup {p}
    BY <1>1, <1>t DEF OnBegin, Asked, ProcTypes
  <2>3. lock = None /\ p \notin Asked \cup overtaken
    BY <1>1, <1>t DEF OnBegin, Asked, OffSettles
  <2>4. T!Ask(p)
    BY <1>1, <2>1, <2>2, <2>3 DEF OnBegin, T!Ask, Asked
  <2> QED
    BY <2>4, <1>n
<1>2. CASE OnWindow(p)
  <2>1. Up' = Up
    BY <1>2, UpUnits DEF OnWindow
  <2>2. Asked' = Asked \ {p} /\ p \in Asked
    BY <1>2, <1>t DEF OnWindow, Asked, ProcTypes
  <2>3. CASE lock' = lock
    <3>1. UNCHANGED <<window, lock, overtaken>>
      BY <1>2, <2>3 DEF OnWindow
    <3>2. T!GiveUp(p)
      BY <2>1, <2>2, <3>1 DEF T!GiveUp, Asked
    <3> QED
      BY <3>2, <1>n
  <2>4. CASE lock' # lock
    <3>1. /\ lock = None /\ lock' = p /\ overtaken' = overtaken
          /\ mySeq[p] = seq
          /\ IF window = "none" THEN window' \in {"self-signed", "1password"}
                                ELSE UNCHANGED window
      BY <1>2, <2>4 DEF OnWindow
    <3>2. p \notin overtaken
      BY <3>1, <1>2 DEF WindowInv, Overtaken, OnWindow
    <3>3. T!Open(p)
      BY <2>1, <2>2, <3>1, <3>2 DEF T!Open, Asked
    <3> QED
      BY <3>3, <1>n
  <2> QED
    BY <2>3, <2>4
<1>3. CASE \/ OnCancel(p) \/ OnExpiry(p) \/ OnWatch(p) \/ OnReceiver(p) \/ OnRadio(p)
           \/ OnArm(p) \/ OnAgain(p) \/ UndoStep(p)
  <2>1. lock = p /\ pc[p] # "begun"
    BY <1>3, <1>t DEF OnCancel, OnExpiry, OnWatch, OnReceiver, OnRadio, OnArm, OnAgain, UndoStep,
        NeverInterleave, InSection
  <2>2. Asked' = Asked
    <3>1. ~Inside(p) /\ \A q \in Ons : ~Inside(q)
      BY DEF Inside
    <3>2. \A q \in Ons \ {p} : pc'[q] = pc[q]
      BY <1>3, <1>t, <3>1 DEF OnCancel, OnExpiry, OnWatch, OnReceiver, OnRadio, OnArm, OnAgain,
          UndoStep, CancelWindow, Abandon, ProcTypes, Services
    <3>3. pc'[p] # "begun"
      BY <1>3, <1>t, <3>1, <2>1 DEF OnCancel, OnExpiry, OnWatch, OnReceiver, OnRadio, OnArm,
          OnAgain, UndoStep, CancelWindow, Abandon, ProcTypes, Services
    <3> QED
      BY <2>1, <3>2, <3>3 DEF Asked
  <2>3. overtaken' = overtaken
    BY <1>3 DEF OnCancel, OnExpiry, OnWatch, OnReceiver, OnRadio, OnArm, OnAgain, UndoStep
  <2>4. CASE lock' = lock
    <3>1. window' = window
      BY <1>3, <2>1, <2>4 DEF OnCancel, OnExpiry, OnWatch, OnReceiver, OnRadio, OnArm, OnAgain,
          UndoStep
    <3>2. T!Work(p)
      BY <1>t, <2>1, <2>2, <2>3, <2>4, <3>1 DEF T!Work, Asked, Units
    <3> QED
      BY <3>2, <1>n
  <2>5. CASE lock' # lock
    <3>1. ~Inside(lock)
      BY <2>1 DEF Inside
    <3>2. OnArm(p) \/ OnAgain(p) \/ (UndoStep(p) /\ Head(undo[p]) = "abort")
      BY <1>3, <2>5, <3>1 DEF OnCancel, OnExpiry, OnWatch, OnReceiver, OnRadio, UndoStep,
          CancelWindow
    <3>3. lock' = None /\ window' \in {window, "none"}
      BY <2>5, <3>2 DEF OnArm, OnAgain, UndoStep
    <3>4. /\ armed' = armed /\ watch' = watch /\ receiver' = receiver
          /\ radio' \in {radio, "up"}
      BY <2>5, <3>2 DEF OnArm, OnAgain, UndoStep
    <3>5. Up' \subseteq Up \cup {"radio"}
      BY <3>4, UpShrinks
    <3>6. T!Leave
      BY <2>1, <2>2, <2>3, <3>3, <3>5 DEF T!Leave, Asked
    <3> QED
      BY <3>6, <1>n
  <2> QED
    BY <2>4, <2>5
<1> QED
  BY <1>1, <1>2, <1>3 DEF OnStep

\* So is every step of an off.
LEMMA TurnsOff ==
  ASSUME WindowInv, WindowInv', NEW p \in Closers, OffAsked(p) \/ OffStep(p)
  PROVE  [T!TNext]_(T!tvars)
<1> USE Distinct DEF fileVars, unitVars, procVars, histVars, Goto
<1>t. UnitTypes /\ ProcTypes /\ NeverInterleave
  BY DEF WindowInv, TypeOK
<1>n. /\ T!Overtake(p) => T!TNext
      /\ T!Drop => T!TNext
      /\ T!Leave => T!TNext
  BY DEF T!TNext
<1>a. Asked' = Asked
  <2>1. \A q \in Ons : ~Inside(q)
    BY DEF Inside
  <2>2. \A q \in Ons : pc'[q] = pc[q]
    BY <1>t, <2>1 DEF OffAsked, OffStep, OffBegin, OffReceiver, OffCancel, OffRadio, OffEnd,
        CancelWindow, ProcTypes, Services
  <2> QED
    BY <2>2 DEF Asked
<1>u. Up' \subseteq Up
  <2>1. /\ armed' \subseteq armed
        /\ receiver' \in {receiver, "off"}
        /\ radio' \in {radio, "down"}
        /\ watch' \in {watch, "none"}
    BY DEF OffAsked, OffStep, OffBegin, OffReceiver, OffCancel, OffRadio, OffEnd, CancelWindow
  <2> QED
    BY <2>1, UpShrinks
<1>1. CASE OffBegin(p)
  <2>1. Up' = Up
    BY <1>1, UpUnits DEF OffBegin
  <2>2. T!Overtake(p)
    BY <1>1, <1>a, <2>1 DEF OffBegin, T!Overtake, Asked
  <2> QED
    BY <2>2, <1>n
<1>2. CASE ~OffBegin(p) /\ lock' = lock
  <2>1. UNCHANGED <<window, overtaken>>
    <3>1. OffEnd(p) => lock = p /\ lock' = None
      BY <1>t DEF OffEnd, NeverInterleave, InSection
    <3> QED
      BY <1>2, <3>1 DEF OffAsked, OffStep, OffReceiver, OffCancel, OffRadio, OffEnd
  <2>2. T!Drop
    BY <1>2, <1>a, <1>u, <2>1 DEF T!Drop, Asked
  <2> QED
    BY <2>2, <1>n
<1>3. CASE ~OffBegin(p) /\ lock' # lock
  <2>1. OffReceiver(p) \/ OffCancel(p) \/ OffEnd(p)
    BY <1>3 DEF OffAsked, OffStep, OffRadio
  <2>2. lock' = None /\ window' \in {window, "none"} /\ overtaken' = overtaken
    BY <1>3, <2>1 DEF OffReceiver, OffCancel, OffEnd, CancelWindow
  <2>3. lock # None
    BY <1>3, <2>2
  <2>4. T!Leave
    BY <1>a, <1>u, <2>2, <2>3 DEF T!Leave, Asked
  <2> QED
    BY <2>4, <1>n
<1> QED
  BY <1>1, <1>2, <1>3

\* The timers, the watcher, the receiver and the radio only ever drop units.
LEMMA TurnsWorld ==
  ASSUME WindowInv, World
  PROVE  [T!TNext]_(T!tvars)
<1> USE Distinct DEF fileVars, unitVars, procVars, histVars, Goto
<1>t. UnitTypes /\ ProcTypes
  BY DEF WindowInv, TypeOK
<1>1. UNCHANGED <<lock, window, overtaken>>
  BY DEF World, WindowEnds, HardExpires, ExpiryEnds, Arrive, ReceiverCrash, ReceiverRestart,
      RadioChanges
<1>2. \A q \in Ons : pc'[q] = pc[q]
  BY <1>t DEF World, WindowEnds, HardExpires, ExpiryEnds, Arrive, ReceiverCrash,
      ReceiverRestart, RadioChanges, ProcTypes
<1>3. Asked' = Asked
  BY <1>2 DEF Asked
<1>4. /\ armed' \subseteq armed
      /\ receiver = "off" => receiver' = "off"
      /\ radio = "down" => radio' = "down"
      /\ watch = "none" => watch' = "none"
  BY DEF World, WindowEnds, HardExpires, ExpiryEnds, Arrive, Down, ReceiverCrash, ReceiverRestart,
      RadioChanges
<1>5. Up' \subseteq Up
  BY <1>4, UpShrinks
<1>6. T!Drop
  BY <1>1, <1>3, <1>5 DEF T!Drop, Asked
<1> QED
  BY <1>6 DEF T!TNext

\* on and off implement WindowTurns (cmd_on, off_under_lock, identity_lock and the
\* check of `seq`), for any number of each, whatever fails and however often a
\* window is opened again.
THEOREM TurnsKeptAlways == Spec => TurnsKept
<1>1. Init => T!TInit
  BY Distinct DEF Init, T!TInit, Up
<1>2. WindowInv /\ WindowInv' /\ [Next]_vars => [T!TNext]_(T!tvars)
  <2> SUFFICES ASSUME WindowInv, WindowInv', [Next]_vars PROVE [T!TNext]_(T!tvars)
    OBVIOUS
  <2>1. ASSUME NEW p \in Ons, OnBegin(p) \/ OnStep(p) PROVE [T!TNext]_(T!tvars)
    BY <2>1, TurnsOn
  <2>2. ASSUME NEW p \in Closers, OffAsked(p) \/ OffStep(p) PROVE [T!TNext]_(T!tvars)
    BY <2>2, TurnsOff
  <2>3. CASE World
    BY <2>3, TurnsWorld
  <2>4. CASE UNCHANGED vars
    BY <2>4 DEF vars, fileVars, unitVars, procVars, histVars, T!tvars, Up
  <2> QED
    BY <2>1, <2>2, <2>3, <2>4 DEF Next, Quiet
<1> QED
  BY <1>1, <1>2, WindowInvariant, PTL DEF Spec, TurnsKept, T!TSpec

=============================================================================
