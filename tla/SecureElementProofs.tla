------------------------- MODULE SecureElementProofs -------------------------
(***************************************************************************)
(* Proofs about SecureElement, for any elements, .conf files and bounds.   *)
(***************************************************************************)
EXTENDS SecureElement, FiniteSetTheorems, TLAPS

-----------------------------------------------------------------------------
(* The cached modes, and the flag that says an exchange was answered. *)

SeFields == {"mIsInit", "hci", "ee", "active", "piping", "pipe", "gate", "ok",
             "waitOk", "told", "atrWait", "listen"}

(* SuccessIsAnswered rests on this: mTransceiveWaitOk is set by an answer    *)
(* only, and both are cleared when an exchange begins.                       *)
ElementInv ==
    /\ DOMAIN se = SeFields
    /\ DOMAIN chip = {"mode", "activated", "links"}
    /\ DOMAIN se.ee = Handles /\ DOMAIN chip.mode = Handles
    /\ CacheIsCurrent
    /\ se.waitOk => se.told

(* A step that touches neither keeps the invariant. *)
QuietElement ==
    /\ DOMAIN se' = DOMAIN se /\ DOMAIN chip' = DOMAIN chip
    /\ se'.ee = se.ee /\ chip'.mode = chip.mode
    /\ se'.waitOk => se'.told

LEMMA QuietKeepsElement ==
    ASSUME ElementInv, QuietElement
    PROVE  ElementInv'
BY DEF ElementInv, QuietElement, CacheIsCurrent

LEMMA ElementInit == Init => ElementInv
BY DEF Init, ElementInv, NewElement, SeFields, CacheIsCurrent

LEMMA ElementCalls == ASSUME ElementInv, Calls PROVE ElementInv'
<1>1. CASE initialize
  <2>1. PICK m \in {chip.mode, NewElement.ee} :
            se' = [NewElement EXCEPT !.ee = m, !.piping = se.piping, !.waitOk = se.waitOk,
                                     !.told = se.told, !.atrWait = se.atrWait]
    BY <1>1 DEF initialize
  <2>2. DOMAIN m = Handles /\ \A s \in Handles : m[s] \in {None, chip.mode[s]}
    BY <2>1 DEF NewElement, ElementInv
  <2>3. DOMAIN se' = SeFields /\ se'.ee = m /\ (se'.waitOk => se'.told)
    BY <2>1 DEF NewElement, ElementInv, SeFields
  <2>4. chip' = chip
    BY <1>1 DEF initialize, notSe
  <2>5. QED
    BY <2>2, <2>3, <2>4 DEF ElementInv, CacheIsCurrent
<1>2. CASE finalize
  <2>1. /\ se' = [se EXCEPT !.hci = FALSE, !.mIsInit = FALSE, !.ee = NewElement.ee,
                            !.pipe = None, !.gate = FALSE, !.piping = FALSE]
        /\ chip' = chip
    BY <1>2 DEF finalize, notSe
  <2>2. DOMAIN se' = SeFields /\ se'.ee = [s \in Handles |-> None] /\ (se'.waitOk => se'.told)
    BY <2>1 DEF ElementInv, SeFields, NewElement
  <2>3. QED
    BY <2>1, <2>2 DEF ElementInv, CacheIsCurrent
<1>3. CASE transceive
  <2>1. QuietElement
    BY <1>3 DEF transceive, notSe, ElementInv, QuietElement, SeFields
  <2>2. QED
    BY <2>1, QuietKeepsElement
<1>4. CASE open \/ close \/ loaderOpen \/ loaderClose \/ doeSE_Reset \/ select
           \/ deselect \/ getAtr
  <2>1. QuietElement
    BY <1>4 DEF open, close, loaderOpen, loaderClose, doeSE_Reset, select, deselect, getAtr,
                state, ElementInv, QuietElement
  <2>2. QED
    BY <2>1, QuietKeepsElement
<1>5. QED
  BY <1>1, <1>2, <1>3, <1>4 DEF Calls

LEMMA ElementStep == ASSUME NEW t \in Threads, ElementInv, Step(t) PROVE ElementInv'
<1>1. QuietElement
  <2> USE DEF ElementInv, QuietElement
  <2>1. CASE register(t) \/ registered(t) \/ activate(t) \/ activateDone(t) \/ deactivate(t)
             \/ deactivateDone(t) \/ connectEE(t)
    BY <2>1 DEF register, registered, activate, activateDone, Activated, deactivate,
                deactivateDone, connectEE, state, notSe, SeFields
  <2>2. CASE addStaticPipe(t) \/ getGateAndPipeList(t) \/ gatesDone(t) \/ allocGate(t)
             \/ createPipe(t) \/ openPipe(t) \/ connectRefused(t) \/ connectStep(t)
    BY <2>2 DEF addStaticPipe, getGateAndPipeList, gatesDone, allocGate, createPipe, openPipe,
                connectRefused, connectStep, Connected, state, notSe, SeFields
  <2>3. CASE warmReset(t) \/ warmResetDone(t) \/ deallocGate(t) \/ deallocDone(t)
             \/ startRfDiscovery(t) \/ rfDone(t) \/ setLevel(t) \/ linkIsDown(t)
             \/ switchDown(t) \/ switchUp(t) \/ switched(t)
    BY <2>3 DEF warmReset, warmResetDone, deallocGate, deallocDone, Disconnected,
                startRfDiscovery, rfDone, setLevel, linkIsDown, switchDown, switchUp, switched,
                state, notSe, notPower, SeFields
  <2>4. CASE openIsUp(t) \/ SecEle_Modeset(t) \/ modesetDone(t) \/ loaderWired(t)
             \/ goOnActivated(t) \/ goOnConnected(t) \/ endOfApduTransfer(t)
             \/ goOnDisconnected(t) \/ goOnDeactivated(t) \/ unmode(t) \/ returns(t)
    BY <2>4 DEF openIsUp, setMode, setModeOff, SecEle_Modeset, modesetDone, loaderWired, Jump,
                goOnActivated, goOnConnected, endOfApduTransfer, goOnDisconnected,
                goOnDeactivated, unmode, returns, state, notPower
  <2>5. CASE selectIsUp(t) \/ selectRfIsOff(t) \/ selectActivated(t) \/ selectRfIsOn(t)
             \/ deselectRfIsOff(t) \/ deselectDeactivated(t) \/ deselectRfIsOn(t) \/ unroute(t)
    BY <2>5 DEF selectIsUp, selectRfIsOff, selectActivated, selectRfIsOn, deselectRfIsOff,
                deselectDeactivated, deselectRfIsOn, unroute, setMode, setModeOff, Jump,
                state, notPower
  <2>6. CASE getRegistry(t) \/ atrSleeps(t) \/ atrDone(t) \/ sendEvent(t)
             \/ transceiveSleeps(t) \/ transceiveDone(t) \/ sleeps(t)
    BY <2>6 DEF getRegistry, atrSleeps, atrDone, sendEvent, transceiveSleeps, transceiveDone,
                sleeps, state, notSe, SeFields
  <2>7. QED
    BY <2>1, <2>2, <2>3, <2>4, <2>5, <2>6 DEF Step
<1>2. QED
  BY <1>1, QuietKeepsElement

LEMMA ElementCallbacks == ASSUME ElementInv, Callbacks PROVE ElementInv'
<1>1. CASE notifyModeSet
  <2>1. PICK r \in Requests("mode"), ok \in BOOLEAN :
            IF ~ok THEN UNCHANGED <<chip, se>>
            ELSE /\ chip' = [chip EXCEPT !.mode[r.what[1]] = r.what[2]]
                 /\ se' = [se EXCEPT !.ee[r.what[1]] = IF @ = None THEN @ ELSE r.what[2]]
    BY <1>1 DEF notifyModeSet
  <2>2. CASE ~ok
    BY <2>1, <2>2 DEF ElementInv, CacheIsCurrent
  <2>3. CASE ok
    <3>1. /\ chip'.mode = [chip.mode EXCEPT ![r.what[1]] = r.what[2]]
          /\ se'.ee = [se.ee EXCEPT ![r.what[1]] = IF @ = None THEN @ ELSE r.what[2]]
          /\ DOMAIN chip' = DOMAIN chip /\ DOMAIN se' = DOMAIN se
          /\ se'.waitOk = se.waitOk /\ se'.told = se.told
      BY <2>1, <2>3 DEF ElementInv, SeFields
    <3>2. QED
      BY <3>1 DEF ElementInv, CacheIsCurrent
  <2>4. QED
    BY <2>2, <2>3
<1>2. CASE nfaHciCallback
  <2>1. PICK r \in asked, ok \in BOOLEAN : se' = hciAnswer(r, ok) /\ chip' = chip
    BY <1>2 DEF nfaHciCallback, notSe
  <2>2. QuietElement
    BY <2>1 DEF hciAnswer, ElementInv, QuietElement, SeFields
  <2>3. QED
    BY <2>2, QuietKeepsElement
<1>3. CASE getRegRsp \/ eventRcvd \/ waitingTimeExtension \/ rfEvent \/ powerModeChange
           \/ listenActivated \/ listenDeactivated \/ timerExpires \/ transceiveTimerProc
  <2>1. QuietElement
    BY <1>3 DEF getRegRsp, eventRcvd, waitingTimeExtension, rfEvent, powerModeChange,
                listenActivated, listenDeactivated, timerExpires, transceiveTimerProc,
                state, notSe, notPower, ElementInv, QuietElement, SeFields
  <2>2. QED
    BY <2>1, QuietKeepsElement
<1>4. QED
  BY <1>1, <1>2, <1>3 DEF Callbacks

LEMMA ElementStutter == ASSUME ElementInv, UNCHANGED vars PROVE ElementInv'
BY DEF ElementInv, CacheIsCurrent, vars

THEOREM ElementInvHolds == Spec => []ElementInv
<1>1. ElementInv /\ [Next]_vars => ElementInv'
  BY ElementCalls, ElementStep, ElementCallbacks, ElementStutter DEF Next
<1>2. QED
  BY <1>1, ElementInit, PTL DEF Spec

(* The cached status of every element is the controller's own. *)
THEOREM CacheCorrect == Spec => []CacheIsCurrent
<1>1. ElementInv => CacheIsCurrent
  BY DEF ElementInv
<1>2. QED
  BY <1>1, ElementInvHolds, PTL

-----------------------------------------------------------------------------
(* An exchange that succeeds. *)

(* A thread is the record of its point, its wait and its call. *)
CallFields == {"op", "h", "ok", "rf", "n"}
ThreadShape ==
    /\ DOMAIN thread = Threads
    /\ \A t \in Threads : /\ DOMAIN thread[t] = {"pc", "st", "ev", "call"}
                          /\ DOMAIN thread[t].call = CallFields

(* What the steps do to a thread: it goes on, it waits, or it is woken. *)
Goes(t, l, c) == DOMAIN c = CallFields /\ thread' = Moved(t, l, c)
Waits(t) ==
    \/ \E e : thread' = [thread EXCEPT ![t].st = "holds", ![t].ev = e]
    \/ thread' = [thread EXCEPT ![t].st = "sleeps"]

LEMMA GoesEffect ==
    ASSUME ThreadShape, NEW t \in Threads, NEW l, NEW c, Goes(t, l, c)
    PROVE  /\ ThreadShape' /\ thread'[t].pc = l /\ thread'[t].call = c
           /\ \A u \in Threads \ {t} : thread'[u] = thread[u]
BY DEF ThreadShape, Goes, Moved, Idle

LEMMA WaitsEffect ==
    ASSUME ThreadShape, NEW t \in Threads, Waits(t)
    PROVE  /\ ThreadShape'
           /\ \A u \in Threads : thread'[u].pc = thread[u].pc /\ thread'[u].call = thread[u].call
BY DEF ThreadShape, Waits

LEMMA NotifyEffect ==
    ASSUME ThreadShape, NEW e, Notify(e)
    PROVE  /\ ThreadShape'
           /\ \A u \in Threads : thread'[u].pc = thread[u].pc /\ thread'[u].call = thread[u].call
BY DEF ThreadShape, Notify, Sleepers

(* Callbacks move no thread. *)
LEMMA CallbackEffect ==
    ASSUME ThreadShape, Callbacks
    PROVE  /\ ThreadShape'
           /\ \A u \in Threads : thread'[u].pc = thread[u].pc /\ thread'[u].call = thread[u].call
<1>1. CASE \E e : Notify(e)
  BY <1>1, NotifyEffect
<1>2. CASE UNCHANGED thread
  BY <1>2 DEF ThreadShape
<1>3. (\E e : Notify(e)) \/ UNCHANGED thread
  <2>1. CASE notifyModeSet \/ nfaHciCallback \/ eventRcvd \/ rfEvent \/ powerModeChange
    BY <2>1 DEF notifyModeSet, nfaHciCallback, eventRcvd, rfEvent, powerModeChange, Answers
  <2>2. CASE getRegRsp
    BY <2>2 DEF getRegRsp, Answers
  <2>3. CASE transceiveTimerProc \/ listenDeactivated
    BY <2>3 DEF transceiveTimerProc, listenDeactivated
  <2>4. CASE waitingTimeExtension \/ listenActivated \/ timerExpires
    BY <2>4 DEF waitingTimeExtension, listenActivated, timerExpires
  <2>5. QED
    BY <2>1, <2>2, <2>3, <2>4 DEF Callbacks
<1>4. QED
  BY <1>1, <1>2, <1>3

(* Every step moves or blocks the thread that takes it, and no other.  Only *)
(* two of them leave the point of an exchange, and end it.                  *)
Moves(t) == \E l, c : Goes(t, l, c) /\ (l = "end" => thread[t].pc # "send")
EndsSend(t) ==
    /\ thread[t].pc = "send"
    /\ \E ok \in {FALSE, se.waitOk} : Goes(t, "end", [Call(t) EXCEPT !.ok = ok])

LEMMA StepEffect ==
    ASSUME ThreadShape, NEW t \in Threads, Step(t)
    PROVE  Moves(t) \/ Waits(t) \/ EndsSend(t)
<1>0. /\ DOMAIN Call(t) = CallFields /\ DOMAIN NoCall = CallFields
      /\ \A ok : DOMAIN [Call(t) EXCEPT !.ok = ok] = CallFields
      /\ \A h, ok : DOMAIN [Call(t) EXCEPT !.h = h, !.ok = ok] = CallFields
  BY DEF ThreadShape, Call, NoCall, CallFields
<1>a. \A l : Go(t, l) /\ thread[t].pc # "send" => Moves(t)
  BY <1>0 DEF Go, GoWith, Goes, Moves, Call
<1>b. \A l, ok : With(t, l, ok) /\ thread[t].pc # "send" => Moves(t)
  BY <1>0 DEF With, GoWith, Goes, Moves
<1>c. \A h, ok : Deactivate(t, h, ok) => Moves(t)
  <2> TAKE h, ok
  <2> DEFINE c == [Call(t) EXCEPT !.h = h, !.ok = ok]
  <2>1. DOMAIN c = CallFields
    BY <1>0
  <2>2. Deactivate(t, h, ok) => thread' = Moved(t, "deactivate", c)
    BY DEF Deactivate, GoWith
  <2> HIDE DEF c
  <2>3. QED
    BY <2>1, <2>2 DEF Goes, Moves
<1>d. End(t) => Moves(t)
  BY <1>0 DEF End, GoWith, Goes, Moves
<1>e. \A e : Takes(t, e) => Waits(t)
  BY DEF Takes, Waits
<1>f. \A e, what : Asks(t, e, what) => Waits(t)
  BY <1>e DEF Asks
<1>g. Sleeps(t) => Waits(t)
  BY DEF Sleeps, Waits
<1> USE DEF At, Wakes, Request, Refused, Fails, Jump, Activated, Deactivated, Connected,
            Disconnected, setMode, setModeOff
<1> DEFINE Done == Moves(t) \/ Waits(t) \/ EndsSend(t)
<1> HIDE DEF Moves, Waits
<1>1. CASE register(t) \/ registered(t) \/ activate(t) \/ activateDone(t) \/ deactivate(t)
           \/ deactivateDone(t) \/ connectEE(t) \/ addStaticPipe(t)
  BY <1>1, <1>a, <1>b, <1>f DEF register, registered, activate, activateDone, deactivate,
     deactivateDone, connectEE, addStaticPipe
<1>2. CASE getGateAndPipeList(t) \/ gatesDone(t) \/ allocGate(t) \/ createPipe(t)
           \/ openPipe(t) \/ connectRefused(t) \/ connectStep(t)
  BY <1>2, <1>a, <1>b, <1>f DEF getGateAndPipeList, gatesDone, allocGate, createPipe, openPipe,
     connectRefused, connectStep
<1>3. CASE warmReset(t) \/ warmResetDone(t) \/ deallocGate(t) \/ deallocDone(t)
           \/ startRfDiscovery(t) \/ rfDone(t)
  BY <1>3, <1>a, <1>f DEF warmReset, warmResetDone, deallocGate, deallocDone,
     startRfDiscovery, rfDone, RfPoint
<1>4. CASE setLevel(t) \/ linkIsDown(t) \/ switchDown(t) \/ switchUp(t) \/ switched(t)
  BY <1>4, <1>a, <1>e, <1>f DEF setLevel, linkIsDown, switchDown, switchUp, switched, Levels
<1>5. CASE openIsUp(t) \/ SecEle_Modeset(t) \/ modesetDone(t) \/ loaderWired(t)
           \/ goOnActivated(t) \/ goOnConnected(t) \/ endOfApduTransfer(t)
           \/ goOnDisconnected(t) \/ goOnDeactivated(t) \/ unmode(t) \/ returns(t)
  BY <1>5, <1>a, <1>b, <1>c, <1>d, <1>f DEF openIsUp, SecEle_Modeset, modesetDone, loaderWired,
     goOnActivated, goOnConnected, endOfApduTransfer, goOnDisconnected, goOnDeactivated,
     unmode, returns, ModesetPoint
<1>6. CASE selectIsUp(t) \/ selectRfIsOff(t) \/ selectActivated(t) \/ selectRfIsOn(t)
           \/ deselectRfIsOff(t) \/ deselectDeactivated(t) \/ deselectRfIsOn(t) \/ unroute(t)
  BY <1>6, <1>a, <1>b DEF selectIsUp, selectRfIsOff, selectActivated, selectRfIsOn,
     deselectRfIsOff, deselectDeactivated, deselectRfIsOn, unroute
<1>7. CASE getRegistry(t) \/ atrSleeps(t) \/ atrDone(t) \/ transceiveSleeps(t) \/ sleeps(t)
  BY <1>7, <1>a, <1>f, <1>g DEF getRegistry, atrSleeps, atrDone, transceiveSleeps, sleeps
<1>8. CASE sendEvent(t) \/ transceiveDone(t)
  <2>1. \A ok \in {FALSE, se.waitOk} : With(t, "end", ok) /\ thread[t].pc = "send" => EndsSend(t)
    BY <1>0 DEF With, GoWith, Goes, EndsSend
  <2>2. QED
    BY <1>8, <2>1, <1>f DEF sendEvent, transceiveDone
<1>9. QED
  BY <1>1, <1>2, <1>3, <1>4, <1>5, <1>6, <1>7, <1>8 DEF Step

LEMMA CallsEffect ==
    ASSUME ThreadShape, Calls
    PROVE  \E t \in Threads : thread[t].pc = "idle" /\ \E l, c : Goes(t, l, c)
<1>1. "service" \in Threads /\ "client" \in Threads
  BY SecureElementAssumption
<1>2. \A t, op, h, l : t \in Threads /\ Begin(t, op, h, l)
          => thread[t].pc = "idle" /\ \E c : Goes(t, l, c)
  <2> TAKE t, op, h, l
  <2> DEFINE c == [op |-> op, h |-> h, ok |-> TRUE, rf |-> manager.rf, n |-> calls + 1]
  <2>1. DOMAIN c = CallFields
    BY DEF CallFields
  <2>2. Begin(t, op, h, l) => thread[t].pc = "idle" /\ thread' = Moved(t, l, c)
    BY DEF Begin, At, GoWith
  <2> HIDE DEF c
  <2>3. QED
    BY <2>1, <2>2 DEF Goes
<1>3. CASE initialize
  <2> DEFINE c == [NoCall EXCEPT !.op = "initialize"]
  <2>1. DOMAIN c = CallFields
    BY DEF NoCall, CallFields
  <2>2. thread["service"].pc = "idle" /\ thread' = Moved("service", "register", c)
    BY <1>3 DEF initialize, At, GoWith
  <2> HIDE DEF c
  <2>3. QED
    BY <1>1, <2>1, <2>2 DEF Goes
<1>4. CASE ~initialize
  <2>1. \E t \in Threads : \E op, h, l : Begin(t, op, h, l)
    BY <1>1, <1>4 DEF Calls, finalize, open, close, loaderOpen, loaderClose, doeSE_Reset,
       select, deselect, getAtr, transceive
  <2>2. QED
    BY <2>1, <1>2
<1>5. QED
  BY <1>3, <1>4

LEMMA ShapeInvariant == Spec => []ThreadShape
<1>1. Init => ThreadShape
  BY DEF Init, ThreadShape, Idle, NoCall, CallFields
<1>2. ASSUME ThreadShape, [Next]_vars PROVE ThreadShape'
  <2>1. CASE Calls
    BY <1>2, <2>1, CallsEffect, GoesEffect
  <2>2. ASSUME NEW t \in Threads, Step(t) PROVE ThreadShape'
    <3>1. CASE Moves(t)
      BY <1>2, <3>1, GoesEffect DEF Moves
    <3>2. CASE EndsSend(t)
      BY <1>2, <3>2, GoesEffect DEF EndsSend
    <3>3. QED
      BY <1>2, <2>2, <3>1, <3>2, StepEffect, WaitsEffect
  <2>3. CASE UNCHANGED vars
    BY <1>2, <2>3 DEF ThreadShape, vars
  <2>4. QED
    BY <1>2, <2>1, <2>2, <2>3, CallbackEffect DEF Next
<1>3. QED
  BY <1>1, <1>2, PTL DEF Spec

(* transceive reports success only if the element has answered since the    *)
(* exchange began: whoever woke the thread, mTransceiveWaitOk decides.      *)
THEOREM SuccessCorrect == Spec => SuccessIsAnswered
<1> DEFINE Success == \A t \in Threads :
               thread[t].pc = "send" /\ thread'[t].pc = "end" /\ Call(t)'.ok => se.told
<1>1. ASSUME ThreadShape, ElementInv, Next PROVE Success
  <2> SUFFICES ASSUME NEW t \in Threads, thread[t].pc = "send", thread'[t].pc = "end",
                      Call(t)'.ok
               PROVE  se.told
    OBVIOUS
  <2>1. CASE Calls
    <3>1. PICK u \in Threads : thread[u].pc = "idle" /\ \E l, c : Goes(u, l, c)
      BY <1>1, <2>1, CallsEffect
    <3>2. u # t
      BY <3>1
    <3>3. QED
      BY <1>1, <3>1, <3>2, GoesEffect
  <2>2. ASSUME NEW u \in Threads, Step(u) PROVE se.told
    <3>1. CASE u # t
      <4>1. thread'[t].pc = thread[t].pc
        BY <1>1, <2>2, <3>1, StepEffect, GoesEffect, WaitsEffect DEF Moves, EndsSend
      <4>2. QED
        BY <4>1
    <3>2. CASE u = t /\ EndsSend(t)
      <4>1. PICK ok \in {FALSE, se.waitOk} : Goes(t, "end", [Call(t) EXCEPT !.ok = ok])
        BY <3>2 DEF EndsSend
      <4>2. thread'[t].call = [Call(t) EXCEPT !.ok = ok]
        BY <1>1, <4>1, GoesEffect
      <4>3. "ok" \in DOMAIN Call(t)
        BY <1>1 DEF ThreadShape, Call, CallFields
      <4>4. thread'[t].call.ok = ok
        BY <4>2, <4>3
      <4>5. QED
        BY <1>1, <4>4 DEF Call, ElementInv
    <3>3. CASE u = t /\ ~EndsSend(t)
      <4>1. Moves(t) \/ Waits(t)
        BY <1>1, <2>2, <3>3, StepEffect
      <4>2. QED
        BY <1>1, <4>1, GoesEffect, WaitsEffect DEF Moves
    <3>4. QED
      BY <3>1, <3>2, <3>3
  <2>3. CASE Callbacks
    BY <1>1, <2>3, CallbackEffect
  <2>4. QED
    BY <1>1, <2>1, <2>2, <2>3 DEF Next
<1>2. ASSUME ThreadShape, ElementInv, [Next]_vars PROVE [Success]_vars
  BY <1>1, <1>2
<1>3. QED
  BY <1>2, ShapeInvariant, ElementInvHolds, PTL DEF Spec, SuccessIsAnswered

-----------------------------------------------------------------------------
(* An open connection keeps the controller awake. *)

(* Before and after these points an open call does not need the power. *)
Unpowered == {"idle", "powerUp", "switchUp", "isUp", "unmode", "powerDown", "switchDown", "end"}

pc == thread["service"].pc
op == thread["service"].call.op

(* A call that opens has the mode from the point where it sets it to the one  *)
(* where it has failed, and opened is set only at its end.  The mode is       *)
(* cleared at one point, by a call that opens or closes.  The other thread is *)
(* never there.                                                               *)
PowerInv ==
    /\ DOMAIN power = {"level", "dm", "expected", "modes"} /\ opened \in BOOLEAN
    /\ thread["client"].pc \in {"idle", "send", "end"}
    /\ ConnectionKeepsPower
    /\ op = "open" /\ pc \notin Unpowered => "SE_CONNECTED" \in power.modes
    /\ op = "open" /\ opened => pc \in {"end", "idle"}
    /\ op = "close" /\ opened => pc = "idle"
    /\ pc = "unmode" => op \in {"open", "close"}

LEMMA PowerInit == Init => PowerInv
<1>1. "service" \in Threads /\ "client" \in Threads
  BY SecureElementAssumption
<1>2. ASSUME Init PROVE PowerInv
  <2>1. thread["service"].pc = "idle" /\ thread["client"].pc = "idle"
    BY <1>1, <1>2 DEF Init, Idle
  <2>2. DOMAIN power = {"level", "dm", "expected", "modes"}
    BY <1>2 DEF Init
  <2>3. opened = FALSE
    BY <1>2 DEF Init
  <2>4. QED
    BY <2>1, <2>2, <2>3 DEF PowerInv, pc, op, Unpowered, ConnectionKeepsPower
<1>3. QED
  BY <1>2

(* A step of the service that leaves the modes and the connection alone and *)
(* does not enter a point that the invariant speaks of.                     *)
LEMMA QuietKeepsPower ==
    ASSUME PowerInv, opened' = opened, power'.modes = power.modes, DOMAIN power' = DOMAIN power,
           thread'["client"].pc \in {"idle", "send", "end"},
           op' = op, pc' # "unmode",
           op = "open" /\ pc \in Unpowered => pc' \in Unpowered,
           op = "open" /\ opened /\ pc \in {"end", "idle"} => pc' \in {"end", "idle"},
           op = "close" /\ opened /\ pc = "idle" => pc' = "idle"
    PROVE  PowerInv'
BY DEF PowerInv, ConnectionKeepsPower, Unpowered, pc, op

LEMMA PowerCallbacks == ASSUME ThreadShape, PowerInv, Callbacks PROVE PowerInv'
<1>1. pc' = pc /\ op' = op /\ thread'["client"].pc = thread["client"].pc
  BY CallbackEffect, SecureElementAssumption DEF pc, op
<1>2. opened' = opened /\ power'.modes = power.modes /\ DOMAIN power' = DOMAIN power
  BY DEF PowerInv, Callbacks, notifyModeSet, nfaHciCallback, getRegRsp, eventRcvd,
     waitingTimeExtension, rfEvent, powerModeChange, listenActivated, listenDeactivated,
     timerExpires, transceiveTimerProc, state, notSe, notPower
<1>3. QED
  BY <1>1, <1>2 DEF PowerInv, ConnectionKeepsPower, Unpowered, pc, op

LEMMA PowerCalls == ASSUME ThreadShape, PowerInv, Calls PROVE PowerInv'
<1> USE SecureElementAssumption
<1>1. CASE transceive
  <2>1. /\ opened' = opened /\ power' = power
        /\ \E c : Goes("client", "send", c)
    <3> DEFINE c == [op |-> "transceive", h |-> "eSE", ok |-> TRUE, rf |-> manager.rf,
                     n |-> calls + 1]
    <3>1. DOMAIN c = CallFields /\ thread' = Moved("client", "send", c)
      BY <1>1 DEF transceive, Begin, GoWith, CallFields
    <3>2. QED
      BY <1>1, <3>1 DEF transceive, notSe, Goes
  <2>2. thread'["client"].pc = "send" /\ thread'["service"] = thread["service"]
    BY <2>1, GoesEffect
  <2>3. QED
    BY <2>1, <2>2 DEF PowerInv, ConnectionKeepsPower, Unpowered, pc, op
<1>2. CASE initialize
  <2> DEFINE c == [NoCall EXCEPT !.op = "initialize"]
  <2>1. DOMAIN c = CallFields /\ c.op = "initialize"
    BY DEF NoCall, CallFields
  <2>2. thread' = Moved("service", "register", c) /\ opened' = opened /\ power' = power
    BY <1>2 DEF initialize, GoWith, notSe
  <2> HIDE DEF c
  <2>3. pc' = "register" /\ op' = "initialize" /\ thread'["client"] = thread["client"]
    BY <2>1, <2>2, GoesEffect DEF Goes, pc, op
  <2>4. QED
    BY <2>2, <2>3 DEF PowerInv, ConnectionKeepsPower, Unpowered, pc, op
<1>3. CASE finalize \/ open \/ close \/ loaderOpen \/ loaderClose \/ doeSE_Reset \/ select
           \/ deselect \/ getAtr
  <2> DEFINE Begun(o, l) ==
            /\ \E h : Begin("service", o, h, l)
            /\ power' = power
            /\ l # "unmode"
            /\ opened' \in BOOLEAN /\ (opened' => opened)
            /\ o = "open" => ~opened /\ l \in Unpowered
            /\ o = "close" => ~opened'
  <2>1. \E o, l : Begun(o, l)
    <3> USE DEF state, notSe, Unpowered, PowerInv
    <3>1. CASE finalize
      <4>1. Begun("finalize", "end")
        BY <3>1 DEF finalize
      <4>2. QED
        BY <4>1
    <3>2. CASE open
      <4>1. Begun("open", IF se.listen THEN "end" ELSE "powerUp")
        BY <3>2 DEF open
      <4>2. QED
        BY <4>1
    <3>3. CASE close
      <4>1. Begun("close", IF se.hci THEN "endApdu" ELSE "end")
        BY <3>3 DEF close
      <4>2. QED
        BY <4>1
    <3>4. CASE loaderOpen
      <4>1. Begun("loader", IF chip.mode["eSE"] = "inactive" THEN "wire"
                            ELSE IF se.piping THEN "connect" ELSE "activate")
        BY <3>4 DEF loaderOpen
      <4>2. QED
        BY <4>1
    <3>5. CASE loaderClose
      <4>1. Begun("loaderClose", IF se.hci THEN "endApdu" ELSE "end")
        BY <3>5 DEF loaderClose
      <4>2. QED
        BY <4>1
    <3>6. CASE doeSE_Reset
      <4>1. Begun("reset", "reset0")
        BY <3>6 DEF doeSE_Reset
      <4>2. QED
        BY <4>1
    <3>7. CASE select
      <4>1. Begun("select", "powerUp")
        BY <3>7 DEF select
      <4>2. QED
        BY <4>1
    <3>8. CASE deselect
      <4>1. Begun("deselect", IF power.level = "low" THEN "unroute"
                              ELSE IF manager.rf THEN "rfOff" ELSE "rfIsOff")
        BY <3>8 DEF deselect
      <4>2. QED
        BY <4>1
    <3>9. CASE getAtr
      <4>1. Begun("getAtr", "atr")
        BY <3>9 DEF getAtr
      <4>2. QED
        BY <4>1
    <3>10. QED
      BY <1>3, <3>1, <3>2, <3>3, <3>4, <3>5, <3>6, <3>7, <3>8, <3>9
  <2>2. PICK o, h, l : Begun(o, l) /\ Begin("service", o, h, l)
    BY <2>1
  <2> DEFINE c == [op |-> o, h |-> h, ok |-> TRUE, rf |-> manager.rf, n |-> calls + 1]
  <2>3. DOMAIN c = CallFields /\ c.op = o
    BY DEF CallFields
  <2>4. thread' = Moved("service", l, c)
    BY <2>2 DEF Begin, GoWith
  <2> HIDE DEF c
  <2>5. pc' = l /\ op' = o /\ thread'["client"] = thread["client"]
    BY <2>3, <2>4, GoesEffect DEF Goes, pc, op
  <2>6. QED
    BY <2>2, <2>5 DEF PowerInv, ConnectionKeepsPower, Unpowered, pc, op
<1>4. QED
  BY <1>1, <1>2, <1>3 DEF Calls

(* The client only sends, and ends. *)
(* The other thread makes exchanges, and nothing else. *)
LEMMA ClientSteps ==
    ASSUME PowerInv, Step("client")
    PROVE  \/ sendEvent("client") \/ transceiveSleeps("client")
           \/ transceiveDone("client") \/ returns("client") \/ sleeps("client")
<1>0. thread["client"].pc \in {"idle", "send", "end"}
  BY DEF PowerInv
<1> USE <1>0 DEF At, Wakes, Request, Refused, Fails, Jump, Activated, Deactivated, Connected,
            Disconnected, setMode, setModeOff
<1> DEFINE t == "client"
<1>1. ~(register(t) \/ registered(t) \/ activate(t) \/ activateDone(t) \/ deactivate(t)
        \/ deactivateDone(t) \/ connectEE(t) \/ addStaticPipe(t))
  BY DEF register, registered, activate, activateDone, deactivate, deactivateDone, connectEE,
     addStaticPipe
<1>2. ~(getGateAndPipeList(t) \/ gatesDone(t) \/ allocGate(t) \/ createPipe(t)
        \/ openPipe(t) \/ connectRefused(t) \/ connectStep(t))
  BY DEF getGateAndPipeList, gatesDone, allocGate, createPipe, openPipe, connectRefused,
     connectStep
<1>3. ~(warmReset(t) \/ warmResetDone(t) \/ deallocGate(t) \/ deallocDone(t)
        \/ startRfDiscovery(t) \/ rfDone(t))
  BY DEF warmReset, warmResetDone, deallocGate, deallocDone, startRfDiscovery, rfDone, RfPoint
<1>4. ~(setLevel(t) \/ linkIsDown(t) \/ switchDown(t) \/ switchUp(t) \/ switched(t))
  BY DEF setLevel, linkIsDown, switchDown, switchUp, switched, Levels
<1>5. ~(openIsUp(t) \/ SecEle_Modeset(t) \/ modesetDone(t) \/ loaderWired(t)
        \/ goOnActivated(t) \/ goOnConnected(t) \/ endOfApduTransfer(t)
        \/ goOnDisconnected(t) \/ goOnDeactivated(t) \/ unmode(t))
  BY DEF openIsUp, SecEle_Modeset, modesetDone, loaderWired, goOnActivated, goOnConnected,
     endOfApduTransfer, goOnDisconnected, goOnDeactivated, unmode, ModesetPoint
<1>6. ~(selectIsUp(t) \/ selectRfIsOff(t) \/ selectActivated(t) \/ selectRfIsOn(t)
        \/ deselectRfIsOff(t) \/ deselectDeactivated(t) \/ deselectRfIsOn(t) \/ unroute(t))
  BY DEF selectIsUp, selectRfIsOff, selectActivated, selectRfIsOn, deselectRfIsOff,
     deselectDeactivated, deselectRfIsOn, unroute
<1>7. ~(getRegistry(t) \/ atrSleeps(t) \/ atrDone(t))
  BY DEF getRegistry, atrSleeps, atrDone
<1>8. QED
  BY <1>1, <1>2, <1>3, <1>4, <1>5, <1>6, <1>7 DEF Step

LEMMA PowerClient == ASSUME ThreadShape, PowerInv, Step("client") PROVE PowerInv'
<1>0. "client" \in Threads /\ "service" \in Threads /\ "client" # "service"
  BY SecureElementAssumption
<1>1. \/ sendEvent("client") \/ transceiveSleeps("client")
      \/ transceiveDone("client") \/ returns("client") \/ sleeps("client")
  BY ClientSteps
<1>2. power' = power /\ opened' = opened
  BY <1>1 DEF sendEvent, transceiveSleeps, transceiveDone, returns, sleeps, state
<1>3. Waits("client") \/ (\E l \in {"end", "idle"} : \E c : Goes("client", l, c))
  <2>1. CASE sendEvent("client") \/ transceiveDone("client")
    <3>1. DOMAIN Call("client") = CallFields
      BY <1>0 DEF ThreadShape, Call
    <3>2. \A ok : With("client", "end", ok) => \E c : Goes("client", "end", c)
      <4> TAKE ok
      <4>1. DOMAIN [Call("client") EXCEPT !.ok = ok] = CallFields
        BY <3>1
      <4>2. QED
        BY <4>1 DEF With, GoWith, Goes
    <3>3. \A e, what : Asks("client", e, what) => Waits("client")
      BY DEF Asks, Takes, Waits
    <3>4. QED
      BY <2>1, <3>2, <3>3 DEF sendEvent, transceiveDone, Request, Fails
  <2>2. CASE transceiveSleeps("client") \/ sleeps("client")
    BY <2>2 DEF transceiveSleeps, sleeps, Sleeps, Waits
  <2>3. CASE returns("client")
    <3>1. DOMAIN NoCall = CallFields
      BY DEF NoCall, CallFields
    <3>2. Goes("client", "idle", NoCall)
      BY <2>3, <3>1 DEF returns, End, GoWith, Goes
    <3>3. QED
      BY <3>2
  <2>4. QED
    BY <1>1, <2>1, <2>2, <2>3
<1>4. thread'["client"].pc \in {"idle", "send", "end"} /\ pc' = pc /\ op' = op
  <2>1. CASE Waits("client")
    BY <1>0, <2>1, WaitsEffect DEF PowerInv, pc, op
  <2>2. CASE \E l \in {"end", "idle"} : \E c : Goes("client", l, c)
    BY <1>0, <2>2, GoesEffect DEF pc, op
  <2>3. QED
    BY <1>3, <2>1, <2>2
<1>5. QED
  BY <1>2, <1>4 DEF PowerInv, ConnectionKeepsPower, Unpowered, pc, op

(* The service, point by point. *)
LEMMA PowerService == ASSUME ThreadShape, PowerInv, Step("service") PROVE PowerInv'
<1> DEFINE t == "service"
           To(l) == pc' = l /\ op' = op /\ thread'["client"].pc = thread["client"].pc
<1>0. t \in Threads /\ "client" \in Threads \ {t}
  BY SecureElementAssumption
<1>1. /\ DOMAIN Call(t) = CallFields /\ "op" \in CallFields /\ Call(t).op = op
      /\ \A ok : DOMAIN [Call(t) EXCEPT !.ok = ok] = CallFields
      /\ \A h, ok : DOMAIN [Call(t) EXCEPT !.h = h, !.ok = ok] = CallFields
  BY <1>0 DEF ThreadShape, Call, CallFields, op
<1>a. \A l : Go(t, l) => To(l)
  BY <1>0, <1>1, GoesEffect DEF Go, GoWith, Goes, Call, pc, op
<1>b. \A l, ok : With(t, l, ok) => To(l)
  <2> TAKE l, ok
  <2> DEFINE c == [Call(t) EXCEPT !.ok = ok]
  <2>1. DOMAIN c = CallFields /\ c.op = op
    BY <1>1
  <2>2. With(t, l, ok) => Goes(t, l, c)
    BY <2>1 DEF With, GoWith, Goes
  <2> HIDE DEF c
  <2>3. QED
    BY <1>0, <2>1, <2>2, GoesEffect DEF pc, op
<1>c. \A h, ok : Deactivate(t, h, ok) => To("deactivate")
  <2> TAKE h, ok
  <2> DEFINE c == [Call(t) EXCEPT !.h = h, !.ok = ok]
  <2>1. DOMAIN c = CallFields /\ c.op = op
    BY <1>1
  <2>2. Deactivate(t, h, ok) => Goes(t, "deactivate", c)
    BY <2>1 DEF Deactivate, GoWith, Goes
  <2> HIDE DEF c
  <2>3. QED
    BY <1>0, <2>1, <2>2, GoesEffect DEF pc, op
<1>e. \A e : Takes(t, e) => To(pc)
  BY <1>0, WaitsEffect DEF Takes, Waits, pc, op
<1>f. \A e, what : Asks(t, e, what) => To(pc)
  BY <1>e DEF Asks
<1>g. Sleeps(t) => To(pc)
  BY <1>0, WaitsEffect DEF Sleeps, Waits, pc, op
<1> DEFINE Quiet ==
            /\ opened' = opened /\ power'.modes = power.modes /\ DOMAIN power' = DOMAIN power
            /\ op' = op /\ pc' # "unmode" /\ thread'["client"].pc = thread["client"].pc
            /\ op = "open" /\ pc \in Unpowered => pc' \in Unpowered
            /\ op = "open" /\ opened /\ pc \in {"end", "idle"} => pc' \in {"end", "idle"}
            /\ op = "close" /\ opened /\ pc = "idle" => pc' = "idle"
<1>q. Quiet => PowerInv'
  <2>1. Quiet => thread'["client"].pc \in {"idle", "send", "end"}
    BY DEF PowerInv
  <2>2. QED
    BY <2>1, QuietKeepsPower
<1>p. \A l : At(t, l) \/ Wakes(t, l) => pc = l
  BY DEF At, Wakes, pc
<1> HIDE DEF To
<1> DEFINE Onward == pc' # "unmode" /\ op' = op /\ thread'["client"].pc = thread["client"].pc
           Passes == pc \notin Unpowered /\ Onward
           Kept == opened' = opened /\ power'.modes = power.modes /\ DOMAIN power' = DOMAIN power
<1>r. Passes /\ Kept => PowerInv'
  BY <1>q DEF Unpowered
<1>h. \A l : To(l) /\ l # "unmode" => Onward
  BY DEF To
<1>i. pc # "unmode" => /\ \A e, what : Asks(t, e, what) => Onward
                       /\ Sleeps(t) => Onward
  BY <1>f, <1>g, <1>h
<1>j. \A l : l # "unmode" => /\ Go(t, l) => Onward
                           /\ \A ok : With(t, l, ok) => Onward
  BY <1>a, <1>b, <1>h
<1>k. \A h, ok : Deactivate(t, h, ok) => Onward
  BY <1>c, <1>h
<1> HIDE DEF Onward
<1>2. CASE register(t) \/ registered(t) \/ activate(t) \/ activateDone(t) \/ deactivate(t)
           \/ deactivateDone(t) \/ connectEE(t) \/ addStaticPipe(t)
  <2>1. Kept
    BY <1>2 DEF register, registered, activate, activateDone, deactivate, deactivateDone,
       connectEE, addStaticPipe, Connected, Activated, state, notSe
  <2>2. pc \in {"register", "activate", "deactivate", "connect", "static"}
    BY <1>2, <1>p DEF register, registered, activate, activateDone, deactivate, deactivateDone,
       connectEE, addStaticPipe, Request, Refused
  <2>3. Onward
    BY <1>2, <2>2, <1>i, <1>j, <1>k DEF register, registered, activate, activateDone, deactivate,
       deactivateDone, connectEE, addStaticPipe, Request, Refused, Connected, Activated,
       Deactivated
  <2>4. QED
    BY <2>1, <2>2, <2>3, <1>r DEF Unpowered
<1>3. CASE getGateAndPipeList(t) \/ gatesDone(t) \/ allocGate(t) \/ createPipe(t)
           \/ openPipe(t) \/ connectRefused(t) \/ connectStep(t)
  <2>1. Kept
    BY <1>3 DEF getGateAndPipeList, gatesDone, allocGate, createPipe, openPipe, connectRefused,
       connectStep, Connected, state, notSe
  <2>2. pc \in {"gates", "alloc", "create", "open"}
    BY <1>3, <1>p DEF getGateAndPipeList, gatesDone, allocGate, createPipe, openPipe,
       connectRefused, connectStep, Request, Refused
  <2>3. Onward
    BY <1>3, <2>2, <1>i, <1>j, <1>k DEF getGateAndPipeList, gatesDone, allocGate, createPipe,
       openPipe, connectRefused, connectStep, Request, Refused, Connected, AfterList
  <2>4. QED
    BY <2>1, <2>2, <2>3, <1>r DEF Unpowered
<1>4. CASE warmReset(t) \/ warmResetDone(t) \/ deallocGate(t) \/ deallocDone(t)
           \/ startRfDiscovery(t) \/ rfDone(t)
  <2>1. Kept
    BY <1>4 DEF warmReset, warmResetDone, deallocGate, deallocDone, Disconnected,
       startRfDiscovery, rfDone, state, notSe
  <2>2. pc \in {"warm", "dealloc", "restart", "rfOff", "rfOn"}
    BY <1>4, <1>p DEF warmReset, warmResetDone, deallocGate, deallocDone, startRfDiscovery,
       rfDone, Request, Refused, RfPoint
  <2>3. Onward
    <3>1. pc # "unmode" /\ \A l \in DOMAIN RfPoint : RfPoint[l].next # "unmode"
      BY <2>2 DEF RfPoint
    <3>2. CASE startRfDiscovery(t)
      BY <3>1, <3>2, <1>i, <1>j DEF startRfDiscovery, Request, Refused
    <3>3. CASE rfDone(t)
      BY <3>1, <3>3, <1>j DEF rfDone
    <3>4. QED
      BY <1>4, <3>1, <3>2, <3>3, <1>i, <1>j DEF warmReset, warmResetDone, deallocGate,
         deallocDone, Disconnected, Request, Refused
  <2>4. QED
    BY <2>1, <2>2, <2>3, <1>r DEF Unpowered
<1>5. CASE setLevel(t) \/ linkIsDown(t) \/ switchDown(t) \/ switchUp(t) \/ switched(t)
  <2>1. Kept
    BY <1>5 DEF setLevel, linkIsDown, switchDown, switchUp, switched, state, notPower, PowerInv
  <2>2. pc \in {"powerUp", "powerDown", "switchUp", "switchDown"}
    BY <1>5, <1>p DEF setLevel, linkIsDown, switchDown, switchUp, switched, Levels
  <2>3. \E l : To(l) /\ l \in {"powerUp", "powerDown", "switchUp", "switchDown", "isUp", "end"}
    BY <1>5, <2>2, <1>a, <1>e, <1>f DEF setLevel, linkIsDown, switchDown, switchUp, switched,
       Levels, Switching
  <2>4. Quiet
    BY <2>1, <2>2, <2>3 DEF To, Unpowered
  <2>5. QED
    BY <2>4, <1>q
<1>6. CASE SecEle_Modeset(t) \/ modesetDone(t) \/ loaderWired(t) \/ endOfApduTransfer(t)
           \/ goOnDisconnected(t)
  <2>1. Kept
    BY <1>6 DEF SecEle_Modeset, modesetDone, loaderWired, endOfApduTransfer, goOnDisconnected,
       Jump, state
  <2>2. pc \in {"wire", "reset0", "reset1", "wired", "endApdu", "disconnected"}
    BY <1>6, <1>p DEF SecEle_Modeset, modesetDone, loaderWired, endOfApduTransfer,
       goOnDisconnected, Request, Refused, ModesetPoint
  <2>3. Onward
    <3>1. pc # "unmode" /\ \A l \in DOMAIN ModesetPoint : ModesetPoint[l].next # "unmode"
      BY <2>2 DEF ModesetPoint
    <3>2. CASE SecEle_Modeset(t)
      BY <3>1, <3>2, <1>i, <1>j DEF SecEle_Modeset, Request, Refused
    <3>3. CASE modesetDone(t)
      BY <3>1, <3>3, <1>j DEF modesetDone
    <3>4. QED
      BY <1>6, <3>2, <3>3, <1>j, <1>k DEF loaderWired, endOfApduTransfer, goOnDisconnected, Jump
  <2>4. QED
    BY <2>1, <2>2, <2>3, <1>r DEF Unpowered
<1>7. CASE selectRfIsOff(t) \/ selectActivated(t) \/ deselectRfIsOff(t)
           \/ deselectDeactivated(t) \/ deselectRfIsOn(t)
  <2>1. Kept
    BY <1>7 DEF selectRfIsOff, selectActivated, deselectRfIsOff, deselectDeactivated,
       deselectRfIsOn, Jump, state
  <2>2. pc \in {"rfIsOff", "activated", "deactivated", "rfIsOn"}
    BY <1>7, <1>p DEF selectRfIsOff, selectActivated, deselectRfIsOff, deselectDeactivated,
       deselectRfIsOn
  <2>3. Onward
    BY <1>7, <2>2, <1>i, <1>j, <1>k DEF selectRfIsOff, selectActivated, deselectRfIsOff,
       deselectDeactivated, deselectRfIsOn, Jump
  <2>4. QED
    BY <2>1, <2>2, <2>3, <1>r DEF Unpowered
<1>8. CASE getRegistry(t) \/ atrSleeps(t) \/ atrDone(t) \/ sendEvent(t) \/ transceiveSleeps(t)
           \/ transceiveDone(t)
  <2>1. Kept
    BY <1>8 DEF getRegistry, atrSleeps, atrDone, sendEvent, transceiveSleeps, transceiveDone,
       state, notSe
  <2>2. pc \in {"atr", "send"}
    BY <1>8, <1>p DEF getRegistry, atrSleeps, atrDone, sendEvent, transceiveSleeps,
       transceiveDone, Request, Refused, Fails, pc
  <2>3. Onward
    BY <1>8, <2>2, <1>i, <1>j, <1>k DEF getRegistry, atrSleeps, atrDone, sendEvent,
       transceiveSleeps, transceiveDone, Request, Refused, Fails
  <2>4. QED
    BY <2>1, <2>2, <2>3, <1>r DEF Unpowered
<1>9. CASE sleeps(t)
  <2>1. Kept /\ To(pc)
    BY <1>9, <1>g DEF sleeps, state
  <2>2. QED
    BY <2>1 DEF To, PowerInv, ConnectionKeepsPower, Unpowered, pc, op
(* The steps that set or clear the mode, or decide the connection. *)
<1>10. CASE openIsUp(t) \/ selectRfIsOn(t)
  <2>1. /\ opened' = opened /\ DOMAIN power' = DOMAIN power
        /\ power.modes \subseteq power'.modes
        /\ op = "open" => "SE_CONNECTED" \in power'.modes
    BY <1>10, <1>1 DEF openIsUp, selectRfIsOn, setMode, notPower, PowerInv, Op
  <2>2. pc \in {"isUp", "rfIsOn"} /\ op \in {"open", "select"}
    BY <1>10, <1>1, <1>p DEF openIsUp, selectRfIsOn, setMode, Op
  <2>3. \E l \in {"connect", "activate", "end"} : To(l)
    BY <1>10, <1>a DEF openIsUp, selectRfIsOn, setMode
  <2>4. QED
    BY <2>1, <2>2, <2>3 DEF To, PowerInv, ConnectionKeepsPower, Unpowered, pc, op
<1>11. CASE unmode(t)
  <2>1. opened' = opened /\ DOMAIN power' = DOMAIN power
    BY <1>11 DEF unmode, setModeOff, setMode, notPower, PowerInv
  <2>2. pc = "unmode" /\ ~opened
    BY <1>11, <1>p DEF unmode, setModeOff, setMode, PowerInv
  <2>3. \E l \in {"powerDown", "end"} : To(l)
    BY <1>11, <1>a DEF unmode, setModeOff, setMode
  <2>4. QED
    BY <2>1, <2>2, <2>3 DEF To, PowerInv, ConnectionKeepsPower, Unpowered, pc, op
<1>12. CASE unroute(t)
  <2>1. /\ opened' = opened /\ DOMAIN power' = DOMAIN power
        /\ "SE_CONNECTED" \in power.modes => "SE_CONNECTED" \in power'.modes
    BY <1>12 DEF unroute, setModeOff, setMode, notPower, PowerInv
  <2>2. pc = "unroute"
    BY <1>12, <1>p DEF unroute, setModeOff, setMode
  <2>3. \E l \in {"powerDown", "end"} : To(l)
    BY <1>12, <1>a DEF unroute, setModeOff, setMode
  <2>4. QED
    BY <2>1, <2>2, <2>3 DEF To, PowerInv, ConnectionKeepsPower, Unpowered, pc, op
<1>13. CASE goOnConnected(t)
  <2>1. power' = power /\ opened' \in BOOLEAN /\ (opened' => opened \/ op = "open")
    BY <1>13, <1>1 DEF goOnConnected, PowerInv, Op
  <2>2. pc = "connected"
    BY <1>13, <1>p DEF goOnConnected
  <2>3. To("end") \/ (To("deactivate") /\ (opened' => opened))
    BY <1>13, <1>a, <1>c DEF goOnConnected
  <2>4. QED
    BY <2>1, <2>2, <2>3 DEF To, PowerInv, ConnectionKeepsPower, Unpowered, pc, op
<1>14. CASE goOnActivated(t) \/ goOnDeactivated(t)
  <2>1. power' = power /\ opened' = opened
    BY <1>14 DEF goOnActivated, goOnDeactivated, Jump, state
  <2>2. pc \in {"activated", "deactivated"}
    BY <1>14, <1>p DEF goOnActivated, goOnDeactivated
  <2>3. \E l \in {"connect", "unmode", "end"} : To(l) /\ (l = "unmode" => op \in {"open", "close"})
    BY <1>14, <1>1, <1>b DEF goOnActivated, goOnDeactivated, Jump, Op
  <2>4. QED
    BY <2>1, <2>2, <2>3 DEF To, PowerInv, ConnectionKeepsPower, Unpowered, pc, op
<1>15. CASE selectIsUp(t)
  <2>1. Kept /\ op = "select" /\ pc = "isUp"
    BY <1>15, <1>1, <1>p DEF selectIsUp, Jump, state, Op
  <2>2. \E l \in {"rfOff", "rfIsOff"} : To(l)
    BY <1>15, <1>b DEF selectIsUp, Jump
  <2>3. Quiet
    BY <2>1, <2>2 DEF To, Unpowered
  <2>4. QED
    BY <2>3, <1>q
<1>16. CASE returns(t)
  <2>1. Goes(t, "idle", NoCall)
    BY <1>16 DEF returns, End, GoWith, Goes, NoCall, CallFields
  <2>2. pc' = "idle" /\ thread'["client"].pc = thread["client"].pc
    BY <1>0, <2>1, GoesEffect DEF pc
  <2>3. opened' = opened /\ power' = power
    BY <1>16 DEF returns, state
  <2>4. QED
    BY <2>2, <2>3 DEF PowerInv, ConnectionKeepsPower, Unpowered, pc, op
<1>17. QED
  BY <1>2, <1>3, <1>4, <1>5, <1>6, <1>7, <1>8, <1>9, <1>10, <1>11, <1>12, <1>13, <1>14, <1>15,
     <1>16 DEF Step

LEMMA PowerInvHolds == Spec => []PowerInv
<1>1. ASSUME ThreadShape, PowerInv, [Next]_vars PROVE PowerInv'
  <2>1. CASE \E t \in Threads : Step(t)
    BY <1>1, <2>1, PowerService, PowerClient, SecureElementAssumption
  <2>2. CASE UNCHANGED vars
    BY <1>1, <2>2 DEF PowerInv, ConnectionKeepsPower, Unpowered, pc, op, vars
  <2>3. QED
    BY <1>1, <2>1, <2>2, PowerCalls, PowerCallbacks DEF Next
<1>2. QED
  BY <1>1, PowerInit, ShapeInvariant, PTL DEF Spec

(* While the service holds a connection, SE_CONNECTED keeps the controller  *)
(* awake, whatever selects, deselects and downloads come between.           *)
THEOREM PowerCorrect == Spec => []ConnectionKeepsPower
<1>1. PowerInv => ConnectionKeepsPower
  BY DEF PowerInv
<1>2. QED
  BY <1>1, PowerInvHolds, PTL

-----------------------------------------------------------------------------
(* No wake-up is lost. *)

\* The events that an answer of the stack signals, whatever the state.
AnswerEvents == hciEvents \cup {"mode", "rf", "power"}

\* The thread is in the guard of its event, or asleep on it.
Blocked(t) == thread[t].st \in {"holds", "sleeps"}

(* What wakes the service: its answer has not come, or the reader is there. *)
StillToCome(e) ==
    \/ e = "atr"
    \/ e = "deactivated" /\ chip.activated
    \/ e \in AnswerEvents /\ Requests(e) # {}

(* Only the client waits for an exchange, and it waits for nothing else: no  *)
(* event has two sleepers, so the one that is notified is the right one.     *)
WaitInv ==
    /\ IsFiniteSet(asked)
    /\ DOMAIN timer = {"armed", "fires"}
    /\ thread["service"].pc # "send"
    /\ Blocked("service") => StillToCome(thread["service"].ev)
    /\ Blocked("client") => thread["client"].ev = "transceive" /\ thread["client"].pc = "send"
    /\ thread["client"].st = "sleeps" => timer.armed \/ timer.fires

LEMMA WaitInit == Init => WaitInv
BY SecureElementAssumption, FS_EmptySet DEF Init, WaitInv, Blocked, Idle

LEMMA WaitEnough == WaitInv => NoLostWakeUp
<1> SUFFICES ASSUME WaitInv PROVE NoLostWakeUp
  OBVIOUS
<1> USE SecureElementAssumption
<1>1. \A e : e # "transceive" => Sleepers(e) \subseteq {"service"}
  BY DEF WaitInv, Blocked, Sleepers
<1>2. Sleepers("transceive") # {} => timer.armed \/ timer.fires
  BY DEF WaitInv, Blocked, Sleepers, StillToCome, AnswerEvents, hciEvents
<1>3. Sleepers("deactivated") # {} => chip.activated
  BY <1>1 DEF WaitInv, Blocked, Sleepers, StillToCome, AnswerEvents, hciEvents
<1>4. ASSUME NEW e \in AnswerEvents PROVE Cardinality(Sleepers(e)) <= Cardinality(Requests(e))
  <2>1. IsFiniteSet(Requests(e)) /\ Cardinality(Requests(e)) \in Nat
    BY FS_Subset, FS_CardinalityType DEF WaitInv, Requests
  <2>2. CASE Sleepers(e) = {}
    BY <2>1, <2>2, FS_EmptySet
  <2>3. CASE Sleepers(e) # {}
    <3>1. Sleepers(e) = {"service"}
      BY <1>1, <1>4, <2>3 DEF AnswerEvents, hciEvents
    <3>2. Requests(e) # {}
      BY <1>4, <3>1 DEF WaitInv, Blocked, Sleepers, StillToCome, AnswerEvents, hciEvents
    <3>3. Cardinality(Requests(e)) # 0
      BY <2>1, <3>2, FS_EmptySet
    <3>4. Cardinality(Sleepers(e)) = 1
      BY <3>1, FS_Singleton
    <3>5. QED
      BY <2>1, <3>3, <3>4
  <2>4. QED
    BY <2>2, <2>3
<1>5. QED
  BY <1>2, <1>3, <1>4 DEF NoLostWakeUp, AnswerEvents

(* What a step of a thread does: it goes on; it asks and takes the guard; it *)
(* takes the guard to wait for the reader; or it falls asleep.               *)
GoesOn(t) == asked' = asked /\ \E l, c : Goes(t, l, c) /\ l # "send"
AsksFor(t) ==
    \/ thread[t].pc # "send" /\ \E e \in AnswerEvents \cup {"atr"} : \E what : Asks(t, e, what)
    \/ thread[t].pc = "send" /\ \E what : Asks(t, "transceive", what)
AwaitsReader(t) ==
    thread[t].pc # "send" /\ asked' = asked /\ chip.activated /\ Takes(t, "deactivated")
FallsAsleep(t) == asked' = asked /\ Sleeps(t) /\ (thread[t].pc = "send" => timer'.armed)

LEMMA WaitStepKind ==
    ASSUME ThreadShape, WaitInv, NEW t \in Threads, Step(t)
    PROVE  /\ GoesOn(t) \/ AsksFor(t) \/ AwaitsReader(t) \/ FallsAsleep(t)
           /\ chip' = chip /\ DOMAIN timer' = DOMAIN timer
           /\ timer' = timer \/ timer' = [timer EXCEPT !.armed = TRUE]
<1>0. /\ DOMAIN Call(t) = CallFields /\ DOMAIN NoCall = CallFields
      /\ \A ok : DOMAIN [Call(t) EXCEPT !.ok = ok] = CallFields
      /\ \A h, ok : DOMAIN [Call(t) EXCEPT !.h = h, !.ok = ok] = CallFields
  BY DEF ThreadShape, Call, NoCall, CallFields
<1>a. \A l : Go(t, l) /\ UNCHANGED asked /\ l # "send" => GoesOn(t)
  BY <1>0 DEF Go, GoWith, Goes, GoesOn, Call
<1>b. \A l, ok : With(t, l, ok) /\ UNCHANGED asked /\ l # "send" => GoesOn(t)
  BY <1>0 DEF With, GoWith, Goes, GoesOn
<1>c. \A h, ok : Deactivate(t, h, ok) /\ UNCHANGED asked => GoesOn(t)
  <2> TAKE h, ok
  <2> DEFINE c == [Call(t) EXCEPT !.h = h, !.ok = ok]
  <2>1. DOMAIN c = CallFields
    BY <1>0
  <2>2. Deactivate(t, h, ok) => thread' = Moved(t, "deactivate", c)
    BY DEF Deactivate, GoWith
  <2> HIDE DEF c
  <2>3. QED
    BY <2>1, <2>2 DEF Goes, GoesOn
<1>d. End(t) /\ UNCHANGED asked => GoesOn(t)
  BY <1>0 DEF End, GoWith, Goes, GoesOn
<1>f. thread[t].pc # "send" =>
        \A e, what : Asks(t, e, what) /\ e \in AnswerEvents \cup {"atr"} => AsksFor(t)
  BY DEF AsksFor
<1>g. thread[t].pc = "send" => \A what : Asks(t, "transceive", what) => AsksFor(t)
  BY DEF AsksFor
<1> DEFINE Kind == GoesOn(t) \/ AsksFor(t) \/ AwaitsReader(t) \/ FallsAsleep(t)
           Kept == /\ chip' = chip /\ DOMAIN timer' = DOMAIN timer
                   /\ timer' = timer \/ timer' = [timer EXCEPT !.armed = TRUE]
<1>e. AnswerEvents = {"register", "gates", "alloc", "create", "open", "registry", "dealloc",
                      "mode", "rf", "power"}
  BY DEF AnswerEvents, hciEvents
<1> USE DEF At, Wakes, Request, Refused, Fails, Jump, Activated, Deactivated, Connected,
            Disconnected, setMode, setModeOff
<1> HIDE DEF Kept
<1>1. CASE register(t) \/ registered(t) \/ activate(t) \/ activateDone(t) \/ deactivate(t)
           \/ deactivateDone(t) \/ connectEE(t) \/ addStaticPipe(t)
  <2>1. Kept
    BY <1>1 DEF Kept, register, registered, activate, activateDone, deactivate, deactivateDone,
       connectEE, addStaticPipe, state, notSe
  <2>2. QED
    BY <1>1, <2>1, <1>a, <1>b, <1>e, <1>f DEF Kept, register, registered, activate, activateDone,
       deactivate, deactivateDone, connectEE, addStaticPipe
<1>2. CASE getGateAndPipeList(t) \/ gatesDone(t) \/ allocGate(t) \/ createPipe(t)
           \/ openPipe(t) \/ connectRefused(t) \/ connectStep(t)
  <2>1. Kept
    BY <1>2 DEF Kept, getGateAndPipeList, gatesDone, allocGate, createPipe, openPipe,
       connectRefused, connectStep, state, notSe
  <2>2. QED
    BY <1>2, <2>1, <1>a, <1>b, <1>e, <1>f DEF Kept, getGateAndPipeList, gatesDone, allocGate,
       createPipe, openPipe, connectRefused, connectStep, AfterList
<1>3. CASE warmReset(t) \/ warmResetDone(t) \/ deallocGate(t) \/ deallocDone(t)
           \/ startRfDiscovery(t) \/ rfDone(t)
  <2>1. Kept
    BY <1>3 DEF Kept, warmReset, warmResetDone, deallocGate, deallocDone, startRfDiscovery,
       rfDone, state, notSe
  <2>2. CASE startRfDiscovery(t)
    <3>1. PICK l \in DOMAIN RfPoint :
              Request(t, l, "rf", <<RfPoint[l].on>>) \/ Refused(t, l, RfPoint[l].next)
      BY <2>2 DEF startRfDiscovery
    <3>2. thread[t].pc # "send" /\ RfPoint[l].next # "send" /\ "rf" \in AnswerEvents
      BY <3>1, <1>e DEF RfPoint
    <3>3. QED
      BY <2>1, <3>1, <3>2, <1>a, <1>f DEF Kept
  <2>3. CASE rfDone(t)
    <3>1. PICK l \in DOMAIN RfPoint : Go(t, RfPoint[l].next) /\ UNCHANGED asked
      BY <2>3 DEF rfDone
    <3>2. RfPoint[l].next # "send"
      BY DEF RfPoint
    <3>3. QED
      BY <2>1, <3>1, <3>2, <1>a DEF Kept
  <2>4. QED
    BY <1>3, <2>1, <2>2, <2>3, <1>a, <1>e, <1>f DEF Kept, warmReset, warmResetDone, deallocGate,
       deallocDone
<1>4. CASE setLevel(t) \/ linkIsDown(t) \/ switchDown(t) \/ switchUp(t) \/ switched(t)
  <2>1. Kept
    BY <1>4 DEF Kept, setLevel, linkIsDown, switchDown, switchUp, switched, state, notPower
  <2>2. CASE \E l \in DOMAIN Levels : At(t, l) /\ chip.activated /\ Takes(t, "deactivated")
    BY <1>4, <2>1, <2>2 DEF Kept, setLevel, linkIsDown, switchDown, switchUp, switched, Levels,
       AwaitsReader, Takes
  <2>3. QED
    BY <1>4, <2>1, <2>2, <1>a, <1>e, <1>f DEF Kept, setLevel, linkIsDown, switchDown, switchUp,
       switched, Levels, Switching
<1>5. CASE openIsUp(t) \/ SecEle_Modeset(t) \/ modesetDone(t) \/ loaderWired(t)
           \/ goOnActivated(t) \/ goOnConnected(t) \/ endOfApduTransfer(t)
           \/ goOnDisconnected(t) \/ goOnDeactivated(t) \/ unmode(t) \/ returns(t)
  <2>1. Kept
    BY <1>5 DEF Kept, openIsUp, SecEle_Modeset, modesetDone, loaderWired, goOnActivated,
       goOnConnected, endOfApduTransfer, goOnDisconnected, goOnDeactivated, unmode, returns,
       state, notPower
  <2>2. CASE SecEle_Modeset(t)
    <3>1. PICK l \in DOMAIN ModesetPoint :
              \/ Request(t, l, "mode", <<"eSE", ModesetPoint[l].mode>>)
              \/ Refused(t, l, ModesetPoint[l].next)
      BY <2>2 DEF SecEle_Modeset
    <3>2. thread[t].pc # "send" /\ ModesetPoint[l].next # "send" /\ "mode" \in AnswerEvents
      BY <3>1, <1>e DEF ModesetPoint
    <3>3. QED
      BY <2>1, <3>1, <3>2, <1>a, <1>f DEF Kept
  <2>3. CASE modesetDone(t)
    <3>1. PICK l \in DOMAIN ModesetPoint : Go(t, ModesetPoint[l].next) /\ UNCHANGED asked
      BY <2>3 DEF modesetDone
    <3>2. ModesetPoint[l].next # "send"
      BY DEF ModesetPoint
    <3>3. QED
      BY <2>1, <3>1, <3>2, <1>a DEF Kept
  <2>4. CASE openIsUp(t) \/ loaderWired(t) \/ goOnActivated(t) \/ unmode(t) \/ returns(t)
             \/ endOfApduTransfer(t)
    BY <2>1, <2>4, <1>a, <1>b, <1>d DEF Kept, openIsUp, loaderWired, goOnActivated, unmode,
       returns, endOfApduTransfer
  <2>5. CASE goOnConnected(t) \/ goOnDisconnected(t) \/ goOnDeactivated(t)
    BY <2>1, <2>5, <1>a, <1>b, <1>c DEF Kept, goOnConnected, goOnDisconnected, goOnDeactivated
  <2>6. QED
    BY <1>5, <2>2, <2>3, <2>4, <2>5
<1>6. CASE selectIsUp(t) \/ selectRfIsOff(t) \/ selectActivated(t) \/ selectRfIsOn(t)
           \/ deselectRfIsOff(t) \/ deselectDeactivated(t) \/ deselectRfIsOn(t) \/ unroute(t)
  <2>1. Kept
    BY <1>6 DEF Kept, selectIsUp, selectRfIsOff, selectActivated, selectRfIsOn, deselectRfIsOff,
       deselectDeactivated, deselectRfIsOn, unroute, state, notPower
  <2>2. QED
    BY <1>6, <2>1, <1>a, <1>b DEF Kept, selectIsUp, selectRfIsOff, selectActivated, selectRfIsOn,
       deselectRfIsOff, deselectDeactivated, deselectRfIsOn, unroute
<1>7. CASE getRegistry(t) \/ atrDone(t) \/ sendEvent(t) \/ transceiveDone(t)
  <2>1. Kept
    BY <1>7 DEF Kept, getRegistry, atrDone, sendEvent, transceiveDone, state
  <2>2. QED
    BY <1>7, <2>1, <1>a, <1>b, <1>f, <1>g DEF Kept, getRegistry, atrDone, sendEvent,
       transceiveDone
<1>8. CASE atrSleeps(t) \/ transceiveSleeps(t) \/ sleeps(t)
  <2>1. Kept /\ asked' = asked
    BY <1>8 DEF Kept, atrSleeps, transceiveSleeps, sleeps, state, notSe, WaitInv
  <2>2. Sleeps(t) /\ (thread[t].pc = "send" => timer'.armed)
    BY <1>8 DEF atrSleeps, transceiveSleeps, sleeps, WaitInv
  <2>3. QED
    BY <2>1, <2>2 DEF FallsAsleep, Kept
<1>9. QED
  BY <1>1, <1>2, <1>3, <1>4, <1>5, <1>6, <1>7, <1>8 DEF Step

LEMMA ClientWaitsAtSend ==
    ASSUME ThreadShape, PowerInv, WaitInv, Step("client"), thread["client"].pc # "send"
    PROVE  GoesOn("client")
<1>1. CASE returns("client")
  <2>1. Goes("client", "idle", NoCall) /\ asked' = asked
    BY <1>1 DEF returns, End, GoWith, Goes, NoCall, CallFields
  <2>2. QED
    BY <2>1 DEF GoesOn
<1>2. ~(sendEvent("client") \/ transceiveSleeps("client") \/ transceiveDone("client")
        \/ sleeps("client"))
  BY DEF sendEvent, transceiveSleeps, transceiveDone, sleeps, Request, Fails, At, Wakes, Sleeps,
     WaitInv, Blocked
<1>3. QED
  BY <1>1, <1>2, ClientSteps

LEMMA WaitStep ==
    ASSUME ThreadShape, PowerInv, WaitInv, NEW t \in Threads, Step(t)
    PROVE  WaitInv'
<1> USE SecureElementAssumption
<1>1. /\ chip' = chip /\ DOMAIN timer' = DOMAIN timer
      /\ timer.armed \/ timer.fires => timer'.armed \/ timer'.fires
  BY WaitStepKind DEF WaitInv
<1>2. IsFiniteSet(asked') /\ asked \subseteq asked'
  <2>1. asked' = asked \/ \E r : asked' = asked \cup {r}
    BY WaitStepKind DEF GoesOn, AsksFor, AwaitsReader, FallsAsleep, Asks
  <2>2. QED
    BY <2>1, FS_AddElement DEF WaitInv
<1>3. \A e : StillToCome(e) => StillToCome(e)'
  BY <1>1, <1>2 DEF StillToCome, Requests, AnswerEvents
<1>4. CASE GoesOn(t)
  BY <1>1, <1>2, <1>3, <1>4, GoesEffect DEF GoesOn, WaitInv, Blocked, ThreadShape, Goes, Moved,
     Idle
<1>5. CASE AsksFor(t) /\ (t = "client" => thread[t].pc = "send")
  <2>1. PICK e, what : /\ Asks(t, e, what)
                       /\ IF thread[t].pc = "send" THEN e = "transceive"
                          ELSE e \in AnswerEvents \cup {"atr"}
    BY <1>5 DEF AsksFor
  <2>2. /\ thread'[t].st = "holds" /\ thread'[t].ev = e /\ thread'[t].pc = thread[t].pc
        /\ \A u \in Threads \ {t} : thread'[u] = thread[u]
    BY <2>1 DEF Asks, Takes, ThreadShape
  <2>3. Requests(e)' # {}
    <3> DEFINE r == [ev |-> e, by |-> t, what |-> what]
    <3>1. r \in asked' /\ r.ev = e
      BY <2>1 DEF Asks
    <3>2. QED
      BY <3>1 DEF Requests
  <2>4. CASE t = "service"
    <3>1. StillToCome(e)'
      BY <2>1, <2>3, <2>4 DEF StillToCome, WaitInv
    <3>2. QED
      BY <1>1, <1>2, <2>2, <2>4, <3>1 DEF WaitInv, Blocked
  <2>5. CASE t = "client"
    BY <1>1, <1>2, <1>3, <1>5, <2>1, <2>2, <2>5 DEF WaitInv, Blocked
  <2>6. QED
    BY <2>4, <2>5
<1>6. CASE AwaitsReader(t) /\ (t = "client" => thread[t].pc = "send")
  <2>1. t = "service"
    BY <1>6 DEF AwaitsReader
  <2>2. /\ thread'[t].st = "holds" /\ thread'[t].ev = "deactivated" /\ thread'[t].pc = thread[t].pc
        /\ \A u \in Threads \ {t} : thread'[u] = thread[u]
    BY <1>6 DEF AwaitsReader, Takes, ThreadShape
  <2>3. StillToCome("deactivated")'
    BY <1>1, <1>6 DEF StillToCome, AwaitsReader
  <2>4. QED
    BY <1>1, <1>2, <2>1, <2>2, <2>3 DEF WaitInv, Blocked
<1>7. CASE FallsAsleep(t) /\ (t = "client" => thread[t].pc = "send")
  <2>1. /\ thread[t].st = "holds" /\ thread'[t].st = "sleeps" /\ thread'[t].ev = thread[t].ev
        /\ thread'[t].pc = thread[t].pc
        /\ \A u \in Threads \ {t} : thread'[u] = thread[u]
    BY <1>7 DEF FallsAsleep, Sleeps, ThreadShape
  <2>2. t = "client" => timer'.armed
    BY <1>7, <2>1 DEF FallsAsleep
  <2>3. QED
    BY <1>1, <1>2, <1>3, <2>1, <2>2 DEF WaitInv, Blocked
<1>8. QED
  BY <1>4, <1>5, <1>6, <1>7, WaitStepKind, ClientWaitsAtSend

LEMMA CallsSend ==
    ASSUME Calls
    PROVE  \E t \in Threads : \E l, c : Goes(t, l, c) /\ (t = "service" => l # "send")
<1>1. "service" \in Threads /\ "client" \in Threads
  BY SecureElementAssumption
<1>2. \A t, o, h, l : Begin(t, o, h, l) => \E c : Goes(t, l, c)
  <2> TAKE t, o, h, l
  <2> DEFINE c == [op |-> o, h |-> h, ok |-> TRUE, rf |-> manager.rf, n |-> calls + 1]
  <2>1. DOMAIN c = CallFields
    BY DEF CallFields
  <2>2. Begin(t, o, h, l) => thread' = Moved(t, l, c)
    BY DEF Begin, GoWith
  <2> HIDE DEF c
  <2>3. QED
    BY <2>1, <2>2 DEF Goes
<1>3. CASE transceive
  BY <1>1, <1>2, <1>3 DEF transceive
<1>4. CASE initialize
  <2> DEFINE c == [NoCall EXCEPT !.op = "initialize"]
  <2>1. DOMAIN c = CallFields
    BY DEF NoCall, CallFields
  <2>2. thread' = Moved("service", "register", c)
    BY <1>4 DEF initialize, GoWith
  <2> HIDE DEF c
  <2>3. QED
    BY <1>1, <2>1, <2>2 DEF Goes
<1>5. CASE ~initialize /\ ~transceive
  <2>1. \E o, h, l : Begin("service", o, h, l) /\ l # "send"
    BY <1>5 DEF Calls, finalize, open, close, loaderOpen, loaderClose, doeSE_Reset,
       select, deselect, getAtr
  <2>2. QED
    BY <1>1, <1>2, <2>1
<1>6. QED
  BY <1>3, <1>4, <1>5

LEMMA WaitCalls == ASSUME ThreadShape, WaitInv, Calls PROVE WaitInv'
<1> USE SecureElementAssumption
<1>1. /\ asked' = asked /\ chip' = chip /\ timer' = timer
  BY DEF Calls, initialize, finalize, open, close, loaderOpen, loaderClose, doeSE_Reset,
     select, deselect, getAtr, transceive, Begin, state, notSe
<1>2. \E t \in Threads : \E l, c : Goes(t, l, c) /\ (t = "service" => l # "send")
  BY CallsSend
<1>3. QED
  BY <1>1, <1>2, GoesEffect DEF WaitInv, Blocked, StillToCome, Requests, Goes, Moved, Idle,
     ThreadShape

(* A callback signals one event or none, and whoever sleeps on it is woken. *)
LEMMA NotifyWakes ==
    ASSUME ThreadShape, WaitInv, NEW e, Notify(e)
    PROVE  \A u \in Threads :
             /\ thread'[u].ev = thread[u].ev /\ thread'[u].pc = thread[u].pc
             /\ thread'[u].st = IF thread[u].ev = e /\ thread[u].st = "sleeps" THEN "woken"
                                ELSE thread[u].st
<1>1. \A t, u \in Sleepers(e) : t = u
  BY SecureElementAssumption DEF Sleepers, WaitInv, Blocked, StillToCome, AnswerEvents, hciEvents
<1>2. QED
  BY <1>1 DEF Notify, Sleepers, ThreadShape

LEMMA WaitCallbacks == ASSUME ThreadShape, ElementInv, WaitInv, Callbacks PROVE WaitInv'
<1> USE SecureElementAssumption
<1>1. ASSUME NEW r \in asked, Answers(r), chip'.activated = chip.activated,
             DOMAIN timer' = DOMAIN timer,
             r.ev # "transceive" => timer' = timer
      PROVE  WaitInv'
  <2>1. \A e : e # r.ev /\ StillToCome(e) => StillToCome(e)'
    BY <1>1 DEF StillToCome, Answers, Requests
  <2>2. IsFiniteSet(asked')
    BY <1>1, FS_RemoveElement DEF Answers, WaitInv
  <2>3. \A u \in Threads :
             /\ thread'[u].ev = thread[u].ev /\ thread'[u].pc = thread[u].pc
             /\ thread'[u].st = IF thread[u].ev = r.ev /\ thread[u].st = "sleeps" THEN "woken"
                                ELSE thread[u].st
    BY <1>1, NotifyWakes DEF Answers
  <2>4. \A u \in Threads : thread[u].ev = r.ev => thread[u].st # "holds"
    BY <1>1 DEF Answers, Notify, Free
  <2>5. QED
    BY <1>1, <2>1, <2>2, <2>3, <2>4 DEF WaitInv, Blocked
<1>2. CASE notifyModeSet \/ nfaHciCallback \/ rfEvent \/ powerModeChange
  <2>1. \E r \in asked : Answers(r)
    BY <1>2 DEF notifyModeSet, nfaHciCallback, rfEvent, powerModeChange, Requests
  <2>2. chip'.activated = chip.activated /\ timer' = timer
    BY <1>2 DEF notifyModeSet, nfaHciCallback, rfEvent, powerModeChange, notSe, notPower, state,
       ElementInv
  <2>3. QED
    BY <1>1, <2>1, <2>2
<1>3. CASE eventRcvd
  <2>1. PICK r \in Requests("transceive") :
            Answers(r) /\ timer' = [timer EXCEPT !.armed = @ /\ r.what[1] # "fixed"]
    BY <1>3 DEF eventRcvd
  <2>2. r \in asked /\ r.ev = "transceive" /\ chip' = chip
    BY <1>3 DEF Requests, eventRcvd
  <2>3. QED
    BY <1>1, <2>1, <2>2 DEF WaitInv
<1>4. CASE getRegRsp
  <2>1. PICK r \in Requests("atr") :
            IF se.atrWait THEN Answers(r) ELSE asked' = asked \ {r} /\ UNCHANGED thread
    BY <1>4 DEF getRegRsp
  <2>2. r \in asked /\ r.ev = "atr" /\ chip' = chip /\ timer' = timer
    BY <1>4 DEF Requests, getRegRsp, notSe
  <2>3. CASE se.atrWait
    BY <1>1, <2>1, <2>2, <2>3
  <2>4. CASE ~se.atrWait
    <3>1. thread' = thread /\ IsFiniteSet(asked')
      BY <2>1, <2>4, FS_RemoveElement DEF WaitInv
    <3>2. \A e : StillToCome(e) => StillToCome(e)'
      BY <2>1, <2>2, <2>4 DEF StillToCome, Requests, AnswerEvents, hciEvents
    <3>3. QED
      BY <2>2, <3>1, <3>2 DEF WaitInv, Blocked
  <2>5. QED
    BY <2>3, <2>4
<1>5. CASE waitingTimeExtension \/ timerExpires
  <2>1. /\ thread' = thread /\ asked' = asked /\ chip' = chip
        /\ DOMAIN timer' = {"armed", "fires"} /\ (timer'.armed \/ timer'.fires)
    BY <1>5 DEF waitingTimeExtension, timerExpires, WaitInv
  <2>2. QED
    BY <2>1 DEF WaitInv, Blocked, StillToCome, Requests
<1>6. CASE transceiveTimerProc
  <2>1. /\ Notify("transceive") /\ asked' = asked /\ chip' = chip /\ DOMAIN timer' = DOMAIN timer
    BY <1>6 DEF transceiveTimerProc, WaitInv
  <2>2. \A e : StillToCome(e) => StillToCome(e)'
    BY <2>1 DEF StillToCome, Requests
  <2>3. QED
    BY <2>1, <2>2, NotifyWakes DEF WaitInv, Blocked
<1>7. CASE listenActivated
  <2>1. thread' = thread /\ asked' = asked /\ timer' = timer /\ chip'.activated
    BY <1>7 DEF listenActivated, ElementInv
  <2>2. QED
    BY <2>1 DEF WaitInv, Blocked, StillToCome, Requests
<1>8. CASE listenDeactivated
  <2>1. Notify("deactivated") /\ asked' = asked /\ timer' = timer
    BY <1>8 DEF listenDeactivated
  <2>2. \A e : e # "deactivated" /\ StillToCome(e) => StillToCome(e)'
    BY <2>1 DEF StillToCome, Requests
  <2>3. \A u \in Threads : thread[u].ev = "deactivated" => thread[u].st # "holds"
    BY <2>1 DEF Notify, Free
  <2>4. QED
    BY <2>1, <2>2, <2>3, NotifyWakes DEF WaitInv, Blocked
<1>9. QED
  BY <1>2, <1>3, <1>4, <1>5, <1>6, <1>7, <1>8 DEF Callbacks

(* Every call that sleeps on an event is woken: its answer is still to come, *)
(* or the timer of the exchange runs, or the reader is still there to leave; *)
(* no signal comes between the request and the sleep.                        *)
THEOREM WakeUpCorrect == Spec => []NoLostWakeUp
<1>1. ASSUME ThreadShape, ElementInv, PowerInv, WaitInv, [Next]_vars PROVE WaitInv'
  <2>1. CASE UNCHANGED vars
    BY <1>1, <2>1 DEF WaitInv, Blocked, StillToCome, Requests, vars
  <2>2. QED
    BY <1>1, <2>1, WaitCalls, WaitStep, WaitCallbacks DEF Next
<1>2. QED
  BY <1>1, WaitInit, WaitEnough, ShapeInvariant, ElementInvHolds, PowerInvHolds, PTL DEF Spec
=============================================================================
