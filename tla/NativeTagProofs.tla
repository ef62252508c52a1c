--------------------------- MODULE NativeTagProofs ---------------------------
(***************************************************************************)
(* Proofs about NativeTag, for any tags and any number of calls.           *)
(***************************************************************************)
EXTENDS NativeTag, TLAPS

CallFields == {"op", "want", "needed", "after", "posted", "answer", "told"}

(* The record fields that the argument reads and updates. *)
Shape ==
    /\ DOMAIN call = CallFields
    /\ DOMAIN value = Kept
    /\ DOMAIN thread = Threads
    /\ \A t \in Threads : DOMAIN thread[t] = {"pc", "woken"}
    /\ DOMAIN nfcTag = {"state", "mIsActivated", "proto", "timedOut"}

app == thread["app"].pc
SharedPoints == {"vs", "response", "gap", "notification", "gone", "reselect", "switched"} \cup Inside

(* A write and a check stand only at points of their own, or where a         *)
(* reconnection runs for a check and comes back to it.  A write waits with    *)
(* sWriteOk cleared, unless its own answer has set it.  A check that has      *)
(* looked at the tag waits for one whose end has posted its semaphore.        *)
WriteWaits ==
    /\ app # "idle" /\ call.op = "write" => app \in {"formatting", "write", "written", "wait"}
    /\ app = "wait" /\ call.op = "write" /\ value.write = "OK" => call.told
CheckWaits ==
    /\ app # "idle" /\ call.op = "check" =>
           /\ app \in {"check", "ask", "detect", "wait"} \cup SharedPoints
           /\ app \in SharedPoints => call.after \in {"check", "return"}
    /\ app \in {"detect", "wait"} /\ call.op = "check" /\ nfcTag.state = "Idle" /\ nfa # "abort"
           => "check" \in call.posted
WaitInv == Shape /\ WriteWaits /\ CheckWaits

LEMMA WaitInit == Init => WaitInv
BY DEF Init, WaitInv, WriteWaits, CheckWaits, Shape, NoCall, CallFields, Kept, Threads, app

(* Two kinds of steps: those of the app, which keep the tag and the stack's  *)
(* task or end the call, and those that leave the app where it is.            *)
LEMMA Moved ==
    ASSUME Shape, NEW t \in Threads, NEW l, Go(t, l)
    PROVE  /\ DOMAIN thread' = Threads
           /\ \A u \in Threads : DOMAIN thread'[u] = {"pc", "woken"}
           /\ thread'[t].pc = l
           /\ \A u \in Threads \ {t} : thread'[u] = thread[u]
BY DEF Shape, Go

LEMMA Woken ==
    ASSUME Shape, NEW S, NEW labels, Wake(S, labels)
    PROVE  /\ DOMAIN thread' = Threads
           /\ \A u \in Threads : DOMAIN thread'[u] = {"pc", "woken"}
           /\ app' = app
BY DEF Shape, Wake, app, Threads

LEMMA Ended ==
    ASSUME app' = "idle", Shape'
    PROVE  WaitInv'
BY DEF WaitInv, WriteWaits, CheckWaits, SharedPoints, Inside

(* Where the helpers of the calls lead. *)
Threaded == DOMAIN thread' = Threads /\ \A t \in Threads : DOMAIN thread'[t] = {"pc", "woken"}
Calling(l, o) == Threaded /\ app' = l /\ DOMAIN call' = CallFields /\ call'.op = o

LEMMA Finishes == ASSUME Shape, Finish PROVE Calling("idle", None)
BY Moved DEF Finish, Calling, Threaded, NoCall, CallFields, Threads, app

LEMMA Begins == ASSUME Shape, NEW o, NEW l, Call(o), Go("app", l) PROVE Calling(l, o)
BY Moved DEF Call, Calling, Threaded, NoCall, CallFields, Threads, app

LEMMA Reselects ==
    ASSUME Shape, NEW o, NEW i, NEW needed, NEW next, CallReSelect(o, i, needed, next)
    PROVE  Calling("reselect", o) /\ call'.after = next
<1> DEFINE c == IF o = call.op THEN call ELSE [NoCall EXCEPT !.op = o]
<1>1. DOMAIN c = CallFields /\ c.op = o
  BY DEF Shape, NoCall, CallFields
<1>2. call' = [c EXCEPT !.want = i, !.needed = needed, !.after = next] /\ Go("app", "reselect")
  BY DEF CallReSelect
<1> HIDE DEF c
<1>3. DOMAIN call' = CallFields /\ call'.op = o /\ call'.after = next
  BY <1>1, <1>2 DEF CallFields
<1>4. QED
  BY <1>2, <1>3, Moved DEF Calling, Threaded, Threads, app

LEMMA Reconnects ==
    ASSUME Shape, NEW o, NEW next, Reconnect(o, next)
    PROVE  \/ UNCHANGED <<thread, call>> /\ app = "idle"
           \/ Calling(next, o)
           \/ \E l \in {"vs", "reselect"} : Calling(l, o) /\ call'.after = next
<1> DEFINE c == IF o = call.op THEN call ELSE [NoCall EXCEPT !.op = o]
<1>1. DOMAIN c = CallFields /\ c.op = o
  BY DEF Shape, NoCall, CallFields
<1>2. CASE ~Active \/ nfcTag.proto \notin {"ISO_DEP", "ISO_DEP_B", "T2T", "MIFARE"}
  <2>1. CASE next = "return"
    BY <1>2, <2>1 DEF Reconnect, AtOnce, At, app
  <2>2. CASE next # "return"
    <3>1. Go("app", next) /\ call' = c
      BY <1>2, <2>2 DEF Reconnect
    <3> HIDE DEF c
    <3>2. QED
      BY <1>1, <3>1, Moved DEF Calling, Threaded, Threads, app
  <2>3. QED
    BY <2>1, <2>2
<1>3. CASE ~(~Active \/ nfcTag.proto \notin {"ISO_DEP", "ISO_DEP_B", "T2T", "MIFARE"})
  <2>1. CASE nfcTag.proto = "ISO_DEP_B" /\ iface.sCurrentRfInterface # "FRAME"
    <3>1. Go("app", "vs") /\ call' = [c EXCEPT !.after = next]
      BY <1>3, <2>1 DEF Reconnect
    <3> HIDE DEF c
    <3>2. DOMAIN call' = CallFields /\ call'.op = o /\ call'.after = next
      BY <1>1, <3>1 DEF CallFields
    <3>3. QED
      BY <3>1, <3>2, Moved DEF Calling, Threaded, Threads, app
  <2>2. CASE ~(nfcTag.proto = "ISO_DEP_B" /\ iface.sCurrentRfInterface # "FRAME")
    BY <1>3, <2>2, Reselects DEF Reconnect
  <2>3. QED
    BY <2>1, <2>2
<1>4. QED
  BY <1>2, <1>3

LEMMA GoesOn ==
    ASSUME Shape, NEW ok, GoOn("app", ok)
    PROVE  Calling("idle", None) \/ (call.after # "return" /\ Calling(call.after, call.op))
<1>1. CASE call.after = "return" \/ (call.after = "send" /\ ~ok)
  BY <1>1, Finishes DEF GoOn
<1>2. CASE ~(call.after = "return" \/ (call.after = "send" /\ ~ok))
  <2>1. /\ Go("app", call.after)
        /\ call' = [call EXCEPT !.want = "ISO_DEP", !.needed = TRUE]
    BY <1>2 DEF GoOn
  <2>2. DOMAIN call' = CallFields /\ call'.op = call.op
    BY <2>1 DEF Shape, CallFields
  <2>3. QED
    BY <1>2, <2>1, <2>2, Moved DEF Calling, Threaded, Threads, app
<1>3. QED
  BY <1>1, <1>2

(* A call that is neither a write nor a check. *)
LEMMA Other ==
    ASSUME Shape', app' # "idle" => call'.op \notin {"write", "check"}
    PROVE  WaitInv'
BY DEF WaitInv, WriteWaits, CheckWaits, SharedPoints, Inside

Rest == DOMAIN value' = Kept /\ DOMAIN nfcTag' = DOMAIN nfcTag

LEMMA CallingShape ==
    ASSUME Shape, Rest, NEW l, NEW o, Calling(l, o)
    PROVE  Shape'
BY DEF Shape, Rest, Calling, Threaded

LEMMA CallingOther ==
    ASSUME Shape, Rest, NEW l, NEW o, Calling(l, o), l = "idle" \/ o \notin {"write", "check"}
    PROVE  WaitInv'
BY CallingShape, Other DEF Calling

LEMMA SameShape == ASSUME Shape, Rest, UNCHANGED <<thread, call>> PROVE Shape'
BY DEF Shape, Rest

(* Every call that begins preserves the invariant of the waits.              *)
LEMMA AppCallKeeps == ASSUME WaitInv, AppCall PROVE WaitInv'
<1>0. Shape
  BY DEF WaitInv
<1>1. AtOnce /\ Rest => WaitInv'
  BY <1>0, SameShape, Ended DEF AtOnce, At, app
<1>2. ASSUME NEW o \in {"reconnect", "transceive", "format"}, NEW next, Reconnect(o, next), Rest
      PROVE  WaitInv'
  BY <1>0, <1>2, Reconnects, CallingOther, SameShape, Ended DEF app
<1>3. ASSUME NEW raw \in BOOLEAN, DoConnect(raw) PROVE WaitInv'
  <2>1. Rest
    BY <1>0, <1>3 DEF DoConnect, tagSide, flags, Rest, Shape
  <2>2. AtOnce \/ CallReSelect("connect", "ISO_DEP", TRUE, "return")
    BY <1>3 DEF DoConnect
  <2>3. QED
    BY <1>0, <1>1, <2>1, <2>2, Reselects, CallingOther
<1>4. CASE DoReconnect
  <2>1. Rest /\ Reconnect("reconnect", "return")
    BY <1>0, <1>4 DEF DoReconnect, tagSide, flags, Rest, Shape
  <2>2. QED
    BY <1>2, <2>1
<1>5. CASE DoDisconnect
  BY <1>0, <1>1, <1>5 DEF DoDisconnect, tagSide, flags, Rest, Shape
<1>6. CASE DoTransceive
  <2>1. Rest
    BY <1>0, <1>6 DEF DoTransceive, tagSide, Rest, Shape
  <2>2. Reconnect("transceive", "start") \/ (Call("transceive") /\ Go("app", "start"))
    BY <1>6 DEF DoTransceive
  <2>3. QED
    BY <1>0, <1>2, <2>1, <2>2, Begins, CallingOther
<1>7. CASE DoRead
  <2>1. Rest
    BY <1>0, <1>7 DEF DoRead, tagSide, flags, Rest, Shape
  <2>2. AtOnce \/ (Call("read") /\ Go("app", "read"))
    BY <1>7 DEF DoRead
  <2>3. QED
    BY <1>0, <1>1, <2>1, <2>2, Begins, CallingOther
<1>8. CASE DoWrite
  <2>1. Rest
    BY <1>0, <1>8 DEF DoWrite, tagSide, Rest, Shape
  <2>2. PICK l \in {"formatting", "write"} : Call("write") /\ Go("app", l)
    BY <1>8 DEF DoWrite
  <2>3. Calling(l, "write")
    BY <1>0, <2>2, Begins
  <2>4. Shape'
    BY <1>0, <2>1, <2>3, CallingShape
  <2>5. QED
    BY <2>3, <2>4 DEF Calling, WaitInv, WriteWaits, CheckWaits
<1>9. CASE DoFormat
  <2>1. Rest
    BY <1>0, <1>9 DEF DoFormat, tagSide, flags, Rest, Shape
  <2>2. AtOnce \/ Reconnect("format", "format") \/ (Call("format") /\ Go("app", "format"))
    BY <1>9 DEF DoFormat
  <2>3. QED
    BY <1>0, <1>1, <1>2, <2>1, <2>2, Begins, CallingOther
<1>10. CASE DoCheckNdef
  <2>1. Rest
    BY <1>0, <1>10 DEF DoCheckNdef, tagSide, Rest, Shape
  <2>2. \/ AtOnce
        \/ Calling("check", "check")
        \/ \E l \in {"vs", "reselect"} : Calling(l, "check") /\ call'.after = "check"
        \/ UNCHANGED <<thread, call>> /\ app = "idle"
    BY <1>0, <1>10, Begins, Reconnects DEF DoCheckNdef
  <2>3. CASE AtOnce \/ (UNCHANGED <<thread, call>> /\ app = "idle")
    BY <1>0, <1>1, <2>1, <2>3, SameShape, Ended DEF app
  <2>4. CASE \E l \in {"check", "vs", "reselect"} :
                 Calling(l, "check") /\ (l # "check" => call'.after = "check")
    <3>1. PICK l \in {"check", "vs", "reselect"} :
              Calling(l, "check") /\ (l # "check" => call'.after = "check")
      BY <2>4
    <3>2. Shape'
      BY <1>0, <2>1, <3>1, CallingShape
    <3>3. QED
      BY <3>1, <3>2 DEF Calling, WaitInv, WriteWaits, CheckWaits, SharedPoints, Inside
  <2>5. QED
    BY <2>2, <2>3, <2>4
<1>11. CASE DoMakeReadonly
  <2>1. Rest
    BY <1>0, <1>11 DEF DoMakeReadonly, tagSide, Rest, Shape
  <2>2. Call("readonly") /\ (Go("app", "wait") \/ Go("app", "leave"))
    BY <1>11 DEF DoMakeReadonly
  <2>3. QED
    BY <1>0, <2>1, <2>2, Begins, CallingOther
<1>12. CASE DoPresenceCheck
  <2>1. Rest
    BY <1>0, <1>12 DEF DoPresenceCheck, KovioGone, ClearTag, Rest, Shape
  <2>2. AtOnce \/ \E l \in {"answer", "leave", "vs", "presence"} : Call("presence") /\ Go("app", l)
    BY <1>12 DEF DoPresenceCheck, KovioGone, CheckT3bt
  <2>3. QED
    BY <1>0, <1>1, <2>1, <2>2, Begins, CallingOther
<1>13. QED
  BY <1>3, <1>4, <1>5, <1>6, <1>7, <1>8, <1>9, <1>10, <1>11, <1>12 DEF AppCall

(* A step inside a reconnection, for whichever call runs it. *)
LEMMA SharedKeeps ==
    ASSUME WaitInv, app \in SharedPoints, Rest,
           \/ call' = call /\ \E l \in SharedPoints : Go("app", l)
           \/ \E ok : GoOn("app", ok)
    PROVE  WaitInv'
<1>0. Shape /\ WriteWaits /\ CheckWaits
  BY DEF WaitInv
<1>1. CASE call' = call /\ \E l \in SharedPoints : Go("app", l)
  <2>1. PICK l \in SharedPoints : Go("app", l)
    BY <1>1
  <2>2. Calling(l, call.op)
    BY <1>0, <1>1, <2>1, Moved DEF Calling, Threaded, Threads, app, Shape
  <2>3. Shape'
    BY <1>0, <2>2, CallingShape
  <2>4. QED
    BY <1>0, <1>1, <2>2, <2>3 DEF Calling, WaitInv, WriteWaits, CheckWaits, SharedPoints, Inside
<1>2. CASE \E ok : GoOn("app", ok)
  <2>1. CASE Calling("idle", None)
    BY <1>0, <2>1, CallingOther
  <2>2. CASE call.after # "return" /\ Calling(call.after, call.op)
    <3>1. Shape'
      BY <1>0, <2>2, CallingShape
    <3>2. QED
      BY <1>0, <2>2, <3>1 DEF Calling, WaitInv, WriteWaits, CheckWaits, SharedPoints, Inside
  <2>3. QED
    BY <1>0, <1>2, <2>1, <2>2, GoesOn
<1>3. QED
  BY <1>1, <1>2

(* A step of reSelect and of switchRfInterface, of either thread. *)
LEMMA ReSelectRest == ASSUME Shape, NEW t, ReSelect(t) PROVE Rest /\ value' = value /\ nfa' = nfa
    /\ nfcTag'.state = nfcTag.state
BY DEF ReSelect, ReSelectSkip, ReSelectDeactivate, ReSelectAsleep, ReSelectSelect, ReSelectWait,
   ReSelectDone, ReSelectFailed, switchRfInterface, ReSelectFree, tagSide, flags, Rest, Shape

LEMMA ReSelectMoves ==
    ASSUME NEW t \in Threads, ReSelect(t)
    PROVE  /\ thread[t].pc \in SharedPoints
           /\ \/ call' = call /\ \E l \in SharedPoints : Go(t, l)
              \/ \E ok : GoOn(t, ok)
<1> USE DEF SharedPoints, Inside, At
<1>1. CASE ReSelectSkip(t) \/ ReSelectFailed(t) \/ ReSelectDone(t)
  BY <1>1 DEF ReSelectSkip, ReSelectFailed, ReSelectDone, ReSelectFree, LeaveReSelect
<1>2. CASE ReSelectDeactivate(t) \/ ReSelectAsleep(t) \/ ReSelectSelect(t) \/ ReSelectWait(t)
  BY <1>2 DEF ReSelectDeactivate, ReSelectAsleep, ReSelectSelect, ReSelectWait, ReSelectFree
<1>3. CASE switchRfInterface(t)
  BY <1>3 DEF switchRfInterface
<1>4. QED
  BY <1>1, <1>2, <1>3 DEF ReSelect

(* A step that moves neither the app nor the tag. *)
LEMMA QuietKeeps ==
    ASSUME WaitInv, Threaded, Rest, app' = app, call' = call, value' = value,
           nfa' = nfa, nfcTag'.state = nfcTag.state
    PROVE  WaitInv'
<1>1. Shape'
  BY DEF WaitInv, Shape, Threaded, Rest
<1>2. QED
  BY <1>1 DEF WaitInv, WriteWaits, CheckWaits, SharedPoints, Inside

LEMMA ReSelectKeeps == ASSUME WaitInv, NEW t \in Threads, ReSelect(t) PROVE WaitInv'
<1>0. Shape
  BY DEF WaitInv
<1>1. CASE t = "app"
  BY <1>0, <1>1, ReSelectRest, ReSelectMoves, SharedKeeps DEF app
<1>2. CASE t = "timer"
  <2>1. PICK l : Go("timer", l) /\ call' = call
    BY <1>2, ReSelectMoves DEF GoOn
  <2>2. Threaded /\ app' = app
    BY <1>0, <2>1, Moved DEF Threads, Threaded, app
  <2>3. QED
    BY <1>0, <2>1, <2>2, ReSelectRest, QuietKeeps
<1>3. QED
  BY <1>1, <1>2 DEF Threads

(* Every step inside a call preserves the invariant of the waits.            *)
LEMMA AppStepKeeps == ASSUME WaitInv, AppStep PROVE WaitInv'
<1>0. Shape /\ WriteWaits /\ CheckWaits
  BY DEF WaitInv
(* Steps of the calls that neither write nor check. *)
<1>1. CASE TransceiveStart \/ TransceiveSend \/ MifareReconnect \/ TransceiveEnd \/ ReadEnd
           \/ FormatRequest \/ FormatReconnect \/ Leave \/ PresenceRequest \/ T3btEnd
  <2>1. call.op \notin {"write", "check"}
    BY <1>0, <1>1 DEF TransceiveStart, TransceiveSend, MifareReconnect, TransceiveEnd, ReadEnd,
       FormatRequest, FormatReconnect, Leave, PresenceRequest, T3btEnd, At, WriteWaits, CheckWaits, SharedPoints,
       Inside, app
  <2>2. Rest
    BY <1>0, <1>1 DEF TransceiveStart, TransceiveSend, MifareReconnect, TransceiveEnd, ReadEnd,
       FormatRequest, FormatReconnect, Leave, PresenceRequest, T3btEnd, tagSide, flags, Rest, Shape
  <2>3. \A l : Go("app", l) /\ call' = call => Calling(l, call.op)
    BY <1>0, Moved DEF Calling, Threaded, Threads, app, Shape
  <2>4. AskAndWait => Calling("idle", None) \/ Calling("wait", call.op)
    <3>1. call' = [call EXCEPT !.posted = {}] => DOMAIN call' = CallFields /\ call'.op = call.op
      BY <1>0 DEF Shape, CallFields
    <3>2. Go("app", "wait") => Threaded /\ app' = "wait"
      BY <1>0, Moved DEF Threaded, Threads, app
    <3>3. QED
      BY <1>0, <3>1, <3>2, Finishes DEF AskAndWait, Calling
  <2>5. \/ \E l, o : Calling(l, o) /\ (l = "idle" \/ o \notin {"write", "check"})
        \/ UNCHANGED <<thread, call>> /\ app = "idle"
    <3>1. CASE TransceiveStart
      <4>1. Finish \/ CallReSelect("transceive", "FRAME", TRUE, "send")
            \/ (Go("app", "send") /\ call' = call)
        BY <3>1 DEF TransceiveStart
      <4>2. CASE Finish
        BY <1>0, <4>2, Finishes
      <4>3. CASE CallReSelect("transceive", "FRAME", TRUE, "send")
        <5>1. Calling("reselect", "transceive")
          BY <1>0, <4>3, Reselects
        <5>2. QED
          BY <5>1
      <4>4. CASE Go("app", "send") /\ call' = call
        BY <2>1, <2>3, <4>4
      <4>5. QED
        BY <4>1, <4>2, <4>3, <4>4
    <3>2. CASE TransceiveSend \/ TransceiveEnd
      <4>1. Finish \/ (Go("app", "answer") /\ call' = call)
        BY <3>2 DEF TransceiveSend, TransceiveEnd, EndTransceive
      <4>2. QED
        BY <1>0, <2>1, <2>3, <4>1, Finishes
    <3>3. CASE ReadEnd \/ Leave \/ T3btEnd
      BY <1>0, <3>3, Finishes DEF ReadEnd, Leave, T3btEnd
    <3>4. CASE FormatRequest \/ PresenceRequest
      BY <2>1, <2>4, <3>4 DEF FormatRequest, PresenceRequest
    <3>5. CASE FormatReconnect \/ MifareReconnect
      BY <1>0, <3>5, Reconnects DEF FormatReconnect, MifareReconnect
    <3>6. QED
      BY <1>1, <3>1, <3>2, <3>3, <3>4, <3>5
  <2>6. QED
    BY <1>0, <2>2, <2>5, CallingOther, SameShape, Ended DEF app
(* The write. *)
<1>2. CASE WriteFormatted \/ WriteRequest \/ WriteFlag
  <2>1. app \in {"formatting", "write", "written"} /\ app' = app' /\ Rest
    BY <1>0, <1>2 DEF WriteFormatted, WriteRequest, WriteFlag, At, app, tagSide, Rest, Shape
  <2>2. \/ Finish
        \/ call' = call /\ (Go("app", "write") \/ Go("app", "written"))
        \/ call' = call /\ Go("app", "wait") /\ value' = [value EXCEPT !.write = "FAILED"]
    BY <1>2 DEF WriteFormatted, WriteRequest, WriteFlag, EndWrite
  <2>3. CASE Finish
    BY <1>0, <2>1, <2>3, Finishes, CallingOther
  <2>4. CASE call' = call /\ \E l \in {"write", "written", "wait"} : Go("app", l)
    <3>1. PICK l \in {"write", "written", "wait"} : Go("app", l)
      BY <2>4
    <3>2. Calling(l, call.op)
      BY <1>0, <2>4, <3>1, Moved DEF Calling, Threaded, Threads, app, Shape
    <3>3. Shape'
      BY <1>0, <2>1, <3>2, CallingShape
    <3>4. call.op # "check"
      BY <1>0, <2>1 DEF CheckWaits, SharedPoints, Inside
    <3>5. l = "wait" => value'.write = "FAILED"
      <4>1. Finish => app' = "idle"
        BY <1>0, Finishes DEF Calling
      <4>2. \A m : Go("app", m) => app' = m
        BY <1>0, Moved DEF app, Threads
      <4>3. value' = [value EXCEPT !.write = "FAILED"] => value'.write = "FAILED"
        BY <1>0 DEF Shape, Kept
      <4>4. QED
        BY <2>2, <3>1, <4>1, <4>2, <4>3
    <3>6. QED
      BY <1>0, <2>1, <2>4, <3>2, <3>3, <3>4, <3>5 DEF Calling, WaitInv, WriteWaits, CheckWaits
  <2>5. QED
    BY <2>2, <2>3, <2>4

(* The check. *)
<1>3. CASE CheckInit \/ CheckTest \/ CheckDetect
  <2>1. /\ app \in {"check", "ask", "detect"} /\ Rest
        /\ value' = value /\ nfcTag' = nfcTag /\ nfa' = nfa
    BY <1>0, <1>3 DEF CheckInit, CheckTest, CheckDetect, At, app, tagSide, flags, Rest, Shape, Kept
  <2>2. \/ Finish
        \/ Go("app", "ask") /\ call' = [call EXCEPT !.posted = {}]
        \/ Go("app", "detect") /\ call' = call /\ nfcTag.state = "Active"
        \/ Go("app", "wait") /\ call' = call /\ app = "detect"
    BY <1>3 DEF CheckInit, CheckTest, CheckDetect, Active, At, app
  <2>3. CASE Finish
    BY <1>0, <2>1, <2>3, Finishes, CallingOther
  <2>4. CASE Go("app", "ask") /\ call' = [call EXCEPT !.posted = {}]
    <3>1. DOMAIN call' = CallFields /\ call'.op = call.op
      BY <1>0, <2>4 DEF Shape, CallFields
    <3>2. Calling("ask", call.op)
      BY <1>0, <2>4, <3>1, Moved DEF Calling, Threaded, Threads, app
    <3>3. QED
      BY <1>0, <2>1, <3>2, CallingShape DEF Calling, WaitInv, WriteWaits, CheckWaits, SharedPoints, Inside
  <2>5. CASE call' = call /\ \E l \in {"detect", "wait"} :
                 Go("app", l) /\ (nfcTag.state = "Active" \/ app = "detect")
    <3>1. PICK l \in {"detect", "wait"} : Go("app", l) /\ (nfcTag.state = "Active" \/ app = "detect")
      BY <2>5
    <3>2. Calling(l, call.op)
      BY <1>0, <2>5, <3>1, Moved DEF Calling, Threaded, Threads, app, Shape
    <3>3. QED
      BY <1>0, <2>1, <2>5, <3>1, <3>2, CallingShape DEF Calling, WaitInv, WriteWaits, CheckWaits, SharedPoints, Inside
  <2>6. QED
    BY <2>2, <2>3, <2>4, <2>5
<1>4. CASE WaitEnd
  <2>1. Rest /\ app = "wait"
    BY <1>0, <1>4 DEF WaitEnd, At, app, tagSide, Rest, Shape
  <2>2. Finish \/ (call.op = "format" /\ Go("app", "formatted") /\ call' = call)
    BY <1>4 DEF WaitEnd
  <2>3. CASE Finish
    BY <1>0, <2>1, <2>3, Finishes, CallingOther
  <2>4. CASE call.op = "format" /\ Go("app", "formatted") /\ call' = call
    <3>1. Calling("formatted", "format")
      BY <1>0, <2>4, Moved DEF Calling, Threaded, Threads, app, Shape
    <3>2. QED
      BY <1>0, <2>1, <3>1, CallingOther
  <2>5. QED
    BY <2>2, <2>3, <2>4
(* The reconnection. *)
<1>5. CASE VsCommand \/ VsResponded \/ VsWait \/ VsEnd \/ VsGone
  <2>1. app \in SharedPoints /\ Rest
    BY <1>0, <1>5 DEF VsCommand, VsResponded, VsWait, VsEnd, VsGone, At, app, tagSide, flags,
       SharedPoints, Rest, Shape
  <2>2. value' = value /\ nfcTag' = nfcTag /\ nfa' = nfa
    BY <1>5 DEF VsCommand, VsResponded, VsWait, VsEnd, VsGone, tagSide, flags
  <2>3. \/ call' = call /\ \E l \in SharedPoints : Go("app", l)
        \/ \E ok : GoOn("app", ok)
    BY <1>5 DEF VsCommand, VsResponded, VsWait, VsEnd, VsGone, SharedPoints
  <2>4. QED
    BY <2>1, <2>2, <2>3, SharedKeeps
<1>6. CASE ReSelect("app")
  BY <1>6, ReSelectKeeps DEF Threads
<1>7. QED
  BY <1>1, <1>2, <1>3, <1>4, <1>5, <1>6 DEF AppStep

(* The steps of the stack's task leave the app where it is: what they change  *)
(* is the tag, the answers and the semaphores.                                *)
StackMoves ==
    /\ Threaded /\ app' = app
    /\ DOMAIN value' = Kept /\ DOMAIN nfcTag' = DOMAIN nfcTag
    /\ DOMAIN call' = CallFields /\ call'.op = call.op /\ call'.after = call.after

LEMMA StackMovesKeeps ==
    ASSUME WaitInv, StackMoves,
           app = "wait" /\ call.op = "write" /\ value'.write = "OK" => value.write = "OK" \/ call'.told,
           call.told => call'.told,
           call.op = "check" /\ nfcTag'.state = "Idle" /\ nfa' # "abort"
               => \/ nfcTag.state = "Idle" /\ nfa # "abort" /\ call.posted \subseteq call'.posted
                  \/ "check" \in call'.posted
    PROVE  WaitInv'
<1>1. Shape'
  BY DEF WaitInv, Shape, StackMoves, Threaded
<1>2. QED
  BY <1>1 DEF WaitInv, WriteWaits, CheckWaits, StackMoves, SharedPoints, Inside


LEMMA AnswerKeeps ==
    ASSUME WaitInv, NEW a \in Requests, NEW status \in Statuses(a), Answer(a, status)
    PROVE  WaitInv'
<1>0. Shape
  BY DEF WaitInv
<1>1. Threaded /\ app' = app
  BY <1>0, Woken DEF Answer, Threaded
<1>2. /\ DOMAIN value' = Kept
      /\ value'.write = value.write \/ (a = "write" /\ value'.write = status)
  BY <1>0 DEF Answer, Shape, Kept
<1>3. /\ DOMAIN call' = CallFields /\ call'.op = call.op /\ call'.after = call.after
      /\ call.posted \subseteq call'.posted
      /\ call'.told = call.told \/ app # "idle"
      /\ app # "idle" => call'.told = (call.told \/ (status = "OK" /\ call.op = a))
  BY <1>0 DEF Answer, Shape, CallFields, At, app
<1>4. DOMAIN nfcTag' = DOMAIN nfcTag /\ nfcTag'.state = nfcTag.state /\ nfa' = nfa
  BY <1>0 DEF Answer, Shape
<1>5. StackMoves
  BY <1>1, <1>2, <1>3, <1>4 DEF StackMoves
<1>6. QED
  BY <1>1, <1>2, <1>3, <1>4, <1>5, StackMovesKeeps

(* Steps of the stack that tell the app nothing about its write and leave     *)
(* its semaphore alone; a tag that goes leaves the abort to be done.          *)
LEMMA SilentKeeps ==
    ASSUME WaitInv, Threaded, app' = app, value' = value,
           DOMAIN nfcTag' = DOMAIN nfcTag,
           call' = call \/ call' = PresenceReset,
           nfcTag'.state = "Idle" => nfa' = "abort" \/ (nfcTag.state = "Idle" /\ nfa' = nfa)
                                     \/ (nfcTag.state = "Idle" /\ nfa # "abort")
    PROVE  WaitInv'
<1>0. Shape
  BY DEF WaitInv
<1>1. /\ DOMAIN call' = CallFields /\ call'.op = call.op /\ call'.after = call.after
      /\ call'.posted = call.posted /\ call'.told = call.told
  BY <1>0 DEF PresenceReset, Shape, CallFields
<1>2. StackMoves
  BY <1>0, <1>1 DEF StackMoves, Shape
<1>3. QED
  BY <1>1, <1>2, StackMovesKeeps

LEMMA AbortKeeps == ASSUME WaitInv, AbortWaits PROVE WaitInv'
<1>0. Shape
  BY DEF WaitInv
<1>1. Threaded /\ app' = app
  BY <1>0, Woken DEF AbortWaits, Threaded
<1>2. /\ DOMAIN call' = CallFields /\ call'.op = call.op /\ call'.after = call.after
      /\ call'.told = call.told
      /\ call.op \in Sems => call.op \in call'.posted
  BY <1>0 DEF AbortWaits, Shape, CallFields
<1>3. StackMoves
  BY <1>0, <1>1, <1>2 DEF StackMoves, AbortWaits, flags, Shape
<1>4. QED
  BY <1>1, <1>2, <1>3, StackMovesKeeps DEF AbortWaits, flags, Sems, Kept

(* So does every step of the stack.                                          *)
LEMMA StackStepKeeps ==
    ASSUME WaitInv, StackStep \/ TagLeaves \/ \E k \in Tags : TagArrives(k)
    PROVE  WaitInv'
<1>0. Shape
  BY DEF WaitInv
<1>1. UNCHANGED thread => Threaded /\ app' = app
  BY <1>0 DEF Shape, Threaded, app
<1>2. \A S, labels : Wake(S, labels) => Threaded /\ app' = app
  BY <1>0, Woken DEF Threaded
<1>3. ASSUME DeactivatedEvt, value' = value PROVE WaitInv'
  <2>1. CASE resel.flags.reconnectState
    BY <1>1, <1>3, <2>1, SilentKeeps DEF DeactivatedEvt
  <2>2. CASE ~resel.flags.reconnectState
    BY <1>0, <1>2, <1>3, <2>2, SilentKeeps DEF DeactivatedEvt, ClearTag
  <2>3. QED
    BY <2>1, <2>2
<1>4. ASSUME NEW k, Activated(k), nfa = None, UNCHANGED <<thread, value>> PROVE WaitInv'
  <2>1. nfcTag'.state = "Active" /\ DOMAIN nfcTag' = DOMAIN nfcTag
    BY <1>0, <1>4 DEF Activated, Shape
  <2>2. call' = call \/ call' = PresenceReset
    BY <1>4 DEF Activated
  <2>3. QED
    BY <1>1, <1>4, <2>1, <2>2, SilentKeeps
<1>5. Slept.state = "Sleep" /\ DOMAIN Slept = DOMAIN nfcTag
  BY <1>0 DEF Slept, Shape
<1>6. CASE TagLeaves
  BY <1>3, <1>6 DEF TagLeaves, flags
<1>7. CASE \E k \in Tags : TagArrives(k)
  BY <1>4, <1>7 DEF TagArrives, flags
<1>8. CASE \E a \in Requests : \E status \in Statuses(a) : Answer(a, status)
  BY <1>8, AnswerKeeps
<1>9. CASE AbortWaits
  BY <1>9, AbortKeeps
<1>10. CASE AnswerBusy
  BY <1>0, <1>1, <1>10, SilentKeeps DEF AnswerBusy, flags, Shape
<1>11. CASE ConnectNotify \/ VsNotify
  <2>1. nfa \in {"connect", "ntf"} /\ UNCHANGED <<call, value, nfcTag>> /\ Threaded /\ app' = app
    BY <1>2, <1>11 DEF ConnectNotify, VsNotify, flags
  <2>2. QED
    BY <2>1, SilentKeeps
<1>12. CASE TagSleeps
  BY <1>1, <1>5, <1>12, SilentKeeps DEF TagSleeps, flags
<1>13. CASE DiscoveryStops
  <2>1. CASE resel.flags.reconnectState
    BY <1>1, <1>5, <1>13, <2>1, SilentKeeps DEF DiscoveryStops, flags
  <2>2. CASE ~resel.flags.reconnectState
    BY <1>3, <1>13, <2>2 DEF DiscoveryStops, flags
  <2>3. QED
    BY <2>1, <2>2
<1>14. CASE DiscoveryStarts \/ CommandFails \/ VsTimer
  BY <1>1, <1>2, <1>14, SilentKeeps DEF DiscoveryStarts, CommandFails, VsTimer, tagSide, flags
<1>15. ASSUME NEW ok \in BOOLEAN, SelectDone(ok) PROVE WaitInv'
  <2>1. CASE ok
    BY <1>4, <1>15, <2>1 DEF SelectDone, flags
  <2>2. CASE ~ok
    BY <1>1, <1>15, <2>2, NativeTagAssumption, SilentKeeps DEF SelectDone, ConnectStatus, flags
  <2>3. QED
    BY <2>1, <2>2
<1>16. ASSUME NEW ok \in BOOLEAN, VsResponse(ok) \/ VsNotification(ok) PROVE WaitInv'
  <2>1. /\ UNCHANGED <<call, value, nfcTag>> /\ Threaded /\ app' = app
        /\ nfa' = nfa \/ nfa = None
    BY <1>1, <1>2, <1>16 DEF VsResponse, VsNotification, flags
  <2>2. QED
    BY <1>0, <2>1, NativeTagAssumption, SilentKeeps DEF Shape
<1>17. QED
  BY <1>6, <1>7, <1>8, <1>9, <1>10, <1>11, <1>12, <1>13, <1>14, <1>15, <1>16 DEF StackStep

(* The invariant of the waits holds in every behaviour.                      *)
THEOREM WaitInvariant == Spec => []WaitInv
<1>1. ASSUME WaitInv, [Next]_vars PROVE WaitInv'
  <2>1. CASE AppCall
    BY <1>1, <2>1, AppCallKeeps
  <2>2. CASE AppStep
    BY <1>1, <2>2, AppStepKeeps
  <2>3. CASE ReSelect("timer")
    BY <1>1, <2>3, ReSelectKeeps DEF Threads
  <2>4. CASE SwitchBack
    <3>1. Threaded /\ app' = app
      BY <1>1, <2>4, Moved DEF SwitchBack, WaitInv, Shape, Threaded, Threads, app
    <3>2. Rest /\ call' = call /\ value' = value /\ nfa' = nfa /\ nfcTag'.state = nfcTag.state
      BY <1>1, <2>4 DEF SwitchBack, tagSide, flags, Rest, WaitInv, Shape
    <3>3. QED
      BY <1>1, <3>1, <3>2, QuietKeeps
  <2>5. CASE StackStep \/ TagLeaves \/ \E k \in Tags : TagArrives(k)
    BY <1>1, <2>5, StackStepKeeps
  <2>6. CASE UNCHANGED vars
    BY <1>1, <2>6 DEF vars, WaitInv, WriteWaits, CheckWaits, Shape, app
  <2>7. QED
    BY <1>1, <2>1, <2>2, <2>3, <2>4, <2>5, <2>6 DEF Next
<1>2. QED
  BY WaitInit, <1>1, PTL DEF Spec

(* doWrite tells its caller that the message is on the tag only if the stack  *)
(* has said so during this call: sWriteOk is cleared before the wait, and     *)
(* the only step out of the wait reads it.                                    *)
THEOREM WriteCorrect == Spec => WriteIsReal
<1> DEFINE W == At("app", "wait") /\ call.op = "write" /\ thread'["app"].pc = "idle"
                /\ value.write = "OK" => call.told
<1>1. ASSUME WaitInv PROVE W
  BY <1>1 DEF WaitInv, WriteWaits, At, app
<1>2. QED
  BY WaitInvariant, <1>1, PTL DEF WriteIsReal

-----------------------------------------------------------------------------
(* The selection of an interface.  The lock belongs to the one thread that   *)
(* stands inside reSelect; a selection that is under way while a thread      *)
(* waits is of the interface it wants; and what it is told of is what the    *)
(* stack has selected, as no other tag came.                                 *)
StackFields == {"rf", "tag", "intf", "req", "cmd", "missed"}
IfaceFields == {"sCurrentRfInterface", "sNeedToSwitchRf", "sSwitchBackTimer", "sRfInterfaceMutex"}
ReselFields == {"flags", "sConnectOk", "cashbee"}
FlagFields == {"gIsTagDeactivating", "gIsSelectingRfInterface", "sConnectWaitingForComplete",
               "reconnectState"}
Targets == {"return", "start", "send", "answered", "format", "check", "leave"}

SelectShape ==
    /\ Shape
    /\ DOMAIN stack = StackFields /\ DOMAIN iface = IfaceFields
    /\ DOMAIN resel = ReselFields /\ DOMAIN resel.flags = FlagFields
    /\ DOMAIN count = {"tags", "calls"} /\ count.tags \in Nat
    /\ call.after \in Targets

Owned == \A t \in Threads : iface.sRfInterfaceMutex = t <=> thread[t].pc \in Inside

Pending ==
    \A t \in Threads :
        thread[t].pc \in {"selected", "selecting"} /\ stack.cmd \in Interfaces
            => stack.cmd = Want(t)
Chosen ==
    count.tags = 1 =>
        \A t \in Threads : thread[t].pc = "selecting" /\ resel.sConnectOk => stack.intf = Want(t)

(* Before the first tag there is nothing to select. *)
NoTagYet ==
    count.tags = 0 =>
        /\ nfcTag.state = "Idle" /\ ~nfcTag.mIsActivated
        /\ ~iface.sNeedToSwitchRf /\ ~iface.sSwitchBackTimer
        /\ stack.rf = "discovery" /\ stack.cmd = None
        /\ thread["timer"].pc = "idle" /\ app \notin SharedPoints

SelectInv == SelectShape /\ Owned /\ Pending /\ Chosen /\ NoTagYet

(* The invariant holds in the initial states. *)
LEMMA SelectInit == Init => SelectInv
<1> SUFFICES ASSUME Init PROVE SelectInv
  OBVIOUS
<1>1. SelectShape
  BY DEF Init, SelectShape, Shape, NoCall, CallFields, Kept, Threads, StackFields, IfaceFields,
     ReselFields, FlagFields, NoReSelect, Targets
<1>2. \A t \in Threads : thread[t].pc = "idle"
  BY DEF Init
<1>3. iface.sRfInterfaceMutex \notin Threads
  BY NativeTagAssumption DEF Init
<1>4. Owned /\ Pending /\ Chosen
  BY <1>2, <1>3 DEF Owned, Pending, Chosen, Inside
<1>5. NoTagYet
  BY <1>2 DEF Init, NoTagYet, Threads, app, SharedPoints, Inside
<1>6. QED
  BY <1>1, <1>4, <1>5 DEF SelectInv

(* Where a step of the app outside reSelect leads. *)
Points == Labels \ Inside
Led(l) ==
    /\ Threaded /\ app' = l /\ thread'["timer"] = thread["timer"]
    /\ DOMAIN call' = CallFields /\ call'.after \in Targets

(* A call ends, goes on, begins, or begins with a reconnection. *)
LEMMA LedIdle == ASSUME SelectShape, Finish PROVE Led("idle")
BY Moved DEF SelectShape, Finish, Led, Threaded, NoCall, CallFields, Threads, app, Targets

LEMMA LedOn == ASSUME SelectShape, NEW l, Go("app", l), call' = call PROVE Led(l)
BY Moved DEF SelectShape, Shape, Led, Threaded, Threads, app

LEMMA LedBegin == ASSUME SelectShape, NEW o, NEW l, Call(o), Go("app", l) PROVE Led(l)
BY Moved DEF SelectShape, Call, Led, Threaded, NoCall, CallFields, Threads, app, Targets

LEMMA LedAtOnce == ASSUME SelectShape, AtOnce PROVE Led("idle")
BY DEF SelectShape, Shape, AtOnce, At, Led, Threaded, Threads, app

(* A call that runs reSelect enters it outside the lock.                     *)
LEMMA LedReselect ==
    ASSUME SelectShape, NEW o, NEW i, NEW needed, NEW next \in Targets,
           CallReSelect(o, i, needed, next)
    PROVE  Led("reselect")
<1>1. Calling("reselect", o) /\ call'.after = next
  BY Reselects DEF SelectShape
<1>2. thread'["timer"] = thread["timer"]
  BY Moved DEF CallReSelect, SelectShape, Threads
<1>3. QED
  BY <1>1, <1>2 DEF Calling, Led

(* Where doReconnect goes.                                                  *)
LEMMA LedReconnect ==
    ASSUME SelectShape, NEW o, NEW next \in Targets, Reconnect(o, next)
    PROVE  \E l \in Points : Led(l)
<1> DEFINE c == IF o = call.op THEN call ELSE [NoCall EXCEPT !.op = o]
<1>1. DOMAIN c = CallFields /\ c.after \in Targets
  BY DEF SelectShape, Shape, NoCall, CallFields, Targets
<1>2. \A l : Go("app", l) => Threaded /\ app' = l /\ thread'["timer"] = thread["timer"]
  BY Moved DEF SelectShape, Threaded, Threads, app
<1>3. {"idle", "vs", "reselect"} \cup (Targets \ {"return"}) \subseteq Points
  BY DEF Points, Labels, Inside, Targets
<1>4. CASE Reconnect(o, next) /\ AtOnce
  BY <1>3, <1>4, LedAtOnce
<1>5. CASE next # "return" /\ Go("app", next) /\ call' = c
  BY <1>1, <1>2, <1>3, <1>5 DEF Led
<1>6. CASE Go("app", "vs") /\ call' = [c EXCEPT !.after = next]
  <2> HIDE DEF c
  <2>1. DOMAIN call' = CallFields /\ call'.after = next
    BY <1>1, <1>6 DEF CallFields
  <2>2. QED
    BY <1>2, <1>3, <1>6, <2>1 DEF Led
<1>7. CASE CallReSelect(o, DefaultInterface(nfcTag.proto), FALSE, next)
  BY <1>3, <1>7, LedReselect
<1>8. QED
  BY <1>4, <1>5, <1>6, <1>7 DEF Reconnect

(* Where a call goes on after reSelect or the vendor's check.                *)
LEMMA LedGoOn ==
    ASSUME SelectShape, NEW ok, GoOn("app", ok)
    PROVE  \E l \in Points : Led(l)
<1>1. {"idle"} \cup (Targets \ {"return"}) \subseteq Points
  BY DEF Points, Labels, Inside, Targets
<1>2. CASE Finish
  BY <1>1, <1>2, LedIdle
<1>3. CASE /\ call.after # "return" /\ Go("app", call.after)
           /\ call' = [call EXCEPT !.want = "ISO_DEP", !.needed = TRUE]
  <2>1. DOMAIN call' = CallFields /\ call'.after = call.after
    BY <1>3 DEF SelectShape, Shape, CallFields
  <2>2. Threaded /\ app' = call.after /\ thread'["timer"] = thread["timer"]
    BY <1>3, Moved DEF SelectShape, Threaded, Threads, app
  <2>3. QED
    BY <1>1, <1>3, <2>1, <2>2 DEF Led, SelectShape
<1>4. QED
  BY <1>2, <1>3 DEF GoOn

(* A request with a semaphore waits, or is refused and ends the call.        *)
LEMMA LedAsk == ASSUME SelectShape, AskAndWait PROVE Led("wait") \/ Led("idle")
<1>1. CASE Finish
  BY <1>1, LedIdle
<1>2. CASE Go("app", "wait") /\ call' = [call EXCEPT !.posted = {}]
  <2>1. DOMAIN call' = CallFields /\ call'.after = call.after
    BY <1>2 DEF SelectShape, Shape, CallFields
  <2>2. QED
    BY <1>2, <2>1, Moved DEF SelectShape, Led, Threaded, Threads, app
<1>3. QED
  BY <1>1, <1>2 DEF AskAndWait

(* What the steps of the app outside reSelect do to the selection.           *)
AppSide ==
    /\ DOMAIN stack' = StackFields /\ stack'.intf = stack.intf
    /\ stack'.cmd \in {stack.cmd, "idle"}
    /\ stack'.rf = stack.rf /\ stack'.missed = stack.missed
    /\ nfcTag'.state \in {nfcTag.state, "Idle"}
    /\ DOMAIN iface' = IfaceFields
    /\ iface'.sRfInterfaceMutex = iface.sRfInterfaceMutex
    /\ iface'.sCurrentRfInterface = iface.sCurrentRfInterface
    /\ DOMAIN resel' = ReselFields /\ resel'.flags = resel.flags
    /\ resel'.sConnectOk = resel.sConnectOk
    /\ DOMAIN value' = Kept /\ DOMAIN nfcTag' = DOMAIN nfcTag

(* The parts of the app's steps that do not lie inside reSelect. *)
AppOutside ==
    \/ AppCall
    \/ TransceiveStart \/ TransceiveSend \/ MifareReconnect \/ TransceiveEnd \/ ReadEnd
    \/ WriteFormatted \/ WriteRequest \/ WriteFlag \/ FormatRequest \/ FormatReconnect
    \/ Leave \/ CheckInit \/ CheckTest \/ CheckDetect \/ WaitEnd
    \/ PresenceRequest \/ T3btEnd \/ VsCommand \/ VsResponded \/ VsWait \/ VsEnd \/ VsGone

(* A request of the stack leaves the RF interface and the command alone.     *)
LEMMA RequestSide ==
    ASSUME SelectShape, \E r : Request(r)
    PROVE  DOMAIN stack' = StackFields /\ stack'.intf = stack.intf /\ stack'.cmd = stack.cmd
           /\ stack'.rf = stack.rf /\ stack'.missed = stack.missed
BY DEF SelectShape, Request, StackFields

(* The deactivation the app may ask for selects nothing.                     *)
LEMMA IdleSide ==
    ASSUME SelectShape, Command("idle")
    PROVE  DOMAIN stack' = StackFields /\ stack'.intf = stack.intf /\ stack'.cmd = "idle"
           /\ stack'.rf = stack.rf /\ stack'.missed = stack.missed
BY DEF SelectShape, Command, StackFields

(* Outside reSelect the app starts no selection and touches neither the      *)
(* lock nor the interface.                                                   *)
LEMMA AppSideKept == ASSUME SelectShape, AppOutside PROVE AppSide
<1>0. /\ Shape
      /\ DOMAIN stack = StackFields /\ DOMAIN iface = IfaceFields /\ DOMAIN resel = ReselFields
  BY DEF SelectShape
<1>1. CASE \E raw \in BOOLEAN : DoConnect(raw)
  BY <1>0, <1>1 DEF DoConnect, tagSide, flags, AppSide, Shape, IfaceFields
<1>2. CASE DoReconnect \/ DoTransceive \/ DoCheckNdef
  BY <1>0, <1>2 DEF DoReconnect, DoTransceive, DoCheckNdef, tagSide, flags, AppSide, Shape
<1>3. CASE DoDisconnect
  BY <1>0, <1>3, IdleSide DEF DoDisconnect, tagSide, flags, AppSide, Shape
<1>4. CASE DoRead \/ DoWrite \/ DoMakeReadonly
  <2>1. stack' = stack \/ \E r : Request(r)
    BY <1>4 DEF DoRead, DoWrite, DoMakeReadonly
  <2>2. UNCHANGED <<iface, resel, value, nfcTag>>
    BY <1>4 DEF DoRead, DoWrite, DoMakeReadonly, tagSide, flags
  <2>3. QED
    BY <1>0, <2>1, <2>2, RequestSide DEF AppSide, Shape
<1>5. CASE DoFormat
  BY <1>0, <1>5 DEF DoFormat, tagSide, flags, AppSide, Shape
<1>6. CASE DoPresenceCheck
  <2>1. stack' = stack \/ \E r : Request(r)
    BY <1>6 DEF DoPresenceCheck, KovioGone, CheckT3bt
  <2>2. UNCHANGED <<iface, value>> /\ ((resel' = resel /\ nfcTag' = nfcTag) \/ ClearTag)
    BY <1>6 DEF DoPresenceCheck, KovioGone
  <2>3. QED
    BY <1>0, <2>1, <2>2, RequestSide DEF AppSide, Shape, ClearTag, ReselFields
<1>7. CASE AppCall
  BY <1>1, <1>2, <1>3, <1>4, <1>5, <1>6, <1>7 DEF AppCall
<1>8. CASE TransceiveStart \/ MifareReconnect \/ TransceiveEnd \/ ReadEnd \/ WriteFormatted \/ FormatReconnect \/ Leave
           \/ CheckInit \/ CheckTest \/ WaitEnd \/ T3btEnd \/ VsCommand \/ VsResponded \/ VsWait \/ VsGone
  <2>1. UNCHANGED <<stack, resel, nfcTag, value>>
    BY <1>8 DEF TransceiveStart, MifareReconnect, TransceiveEnd, ReadEnd, WriteFormatted, FormatReconnect, Leave,
       CheckInit, CheckTest, WaitEnd, T3btEnd, VsCommand, VsResponded, VsWait, VsGone, tagSide, flags
  <2>2. \/ iface' = iface
        \/ iface' = [iface EXCEPT !.sSwitchBackTimer = FALSE]
        \/ iface' = [iface EXCEPT !.sSwitchBackTimer = @ \/ iface.sNeedToSwitchRf]
    BY <1>8 DEF TransceiveStart, MifareReconnect, TransceiveEnd, EndTransceive, ReadEnd, WriteFormatted, FormatReconnect,
       Leave, CheckInit, CheckTest, WaitEnd, T3btEnd, VsCommand, VsResponded, VsWait, VsGone, tagSide, flags
  <2>3. QED
    BY <1>0, <2>1, <2>2 DEF AppSide, Shape, IfaceFields
<1>9. CASE TransceiveSend \/ WriteRequest \/ WriteFlag \/ FormatRequest \/ CheckDetect \/ PresenceRequest
  <2>1. stack' = stack \/ \E r : Request(r)
    BY <1>9 DEF TransceiveSend, WriteRequest, WriteFlag, FormatRequest, CheckDetect, PresenceRequest, AskAndWait
  <2>2. UNCHANGED <<resel, nfcTag>>
    BY <1>9 DEF TransceiveSend, WriteRequest, WriteFlag, FormatRequest, CheckDetect, PresenceRequest, tagSide
  <2>3. value' = value \/ value' = [value EXCEPT !.write = "FAILED"]
    BY <1>9 DEF TransceiveSend, WriteRequest, WriteFlag, FormatRequest, CheckDetect, PresenceRequest, flags
  <2>4. iface' = iface \/ iface' = [iface EXCEPT !.sSwitchBackTimer = @ \/ iface.sNeedToSwitchRf]
    BY <1>9 DEF TransceiveSend, EndTransceive, WriteRequest, WriteFlag, FormatRequest, CheckDetect, PresenceRequest
  <2>5. QED
    BY <1>0, <2>1, <2>2, <2>3, <2>4, RequestSide DEF AppSide, Shape, IfaceFields, Kept
<1>10. CASE VsEnd
  <2>1. stack' = stack \/ Command("idle")
    BY <1>10 DEF VsEnd
  <2>2. UNCHANGED <<iface, resel, nfcTag, value>>
    BY <1>10 DEF VsEnd, flags
  <2>3. QED
    BY <1>0, <2>1, <2>2, IdleSide DEF AppSide, Shape
<1>11. QED
  BY <1>7, <1>8, <1>9, <1>10 DEF AppOutside

(* They begin and end outside it.                                            *)
LEMMA AppLed == ASSUME SelectShape, AppOutside PROVE app \notin Inside /\ \E l \in Points : Led(l)
<1>0. {"idle", "answer", "leave", "vs", "presence", "read", "start", "formatting", "write", "written",
       "wait", "format", "formatted", "check", "ask", "detect", "response", "gap", "notification",
       "gone", "reselect", "send", "answered"} \subseteq Points
  BY DEF Points, Labels, Inside
<1>1. app \notin Inside
  BY DEF AppOutside, AppCall, DoConnect, DoReconnect, DoDisconnect, DoTransceive, DoRead, DoWrite,
     DoFormat, DoCheckNdef, DoMakeReadonly, DoPresenceCheck, AtOnce, Call, TransceiveStart,
     TransceiveSend, MifareReconnect, TransceiveEnd, ReadEnd, WriteFormatted, WriteRequest, WriteFlag, FormatRequest,
     FormatReconnect, Leave, CheckInit, CheckTest, CheckDetect, WaitEnd, PresenceRequest, T3btEnd,
     VsCommand, VsResponded, VsWait, VsEnd, VsGone, At, Inside, app
<1>2. {"return", "start", "format", "check", "leave", "send", "answered"} \subseteq Targets
  BY DEF Targets
<1>3. \/ AtOnce \/ Finish \/ AskAndWait
      \/ \E o, i, needed : \E next \in Targets : CallReSelect(o, i, needed, next)
      \/ \E o : \E next \in Targets : Reconnect(o, next)
      \/ \E o : \E l \in Points : Call(o) /\ Go("app", l)
      \/ \E l \in Points : call' = call /\ Go("app", l)
      \/ Go("app", "ask") /\ call' = [call EXCEPT !.posted = {}]
      \/ \E ok : GoOn("app", ok)
  <2>1. CASE AppCall
    <3>1. CASE \E raw \in BOOLEAN : DoConnect(raw)
      BY <1>2, <3>1 DEF DoConnect
    <3>2. CASE DoReconnect \/ DoDisconnect \/ DoTransceive
      BY <1>0, <1>2, <3>2 DEF DoReconnect, DoDisconnect, DoTransceive
    <3>3. CASE DoRead \/ DoWrite \/ DoFormat
      BY <1>0, <1>2, <3>3 DEF DoRead, DoWrite, DoFormat
    <3>4. CASE DoCheckNdef \/ DoMakeReadonly
      BY <1>0, <1>2, <3>4 DEF DoCheckNdef, DoMakeReadonly
    <3>5. CASE DoPresenceCheck
      BY <1>0, <1>2, <3>5 DEF DoPresenceCheck, KovioGone, CheckT3bt
    <3>6. QED
      BY <2>1, <3>1, <3>2, <3>3, <3>4, <3>5 DEF AppCall
  <2>2. CASE TransceiveStart \/ TransceiveSend \/ MifareReconnect \/ TransceiveEnd \/ ReadEnd
    BY <1>0, <1>2, <2>2 DEF TransceiveStart, TransceiveSend, MifareReconnect, TransceiveEnd, ReadEnd,
       EndTransceive
  <2>3. CASE WriteFormatted \/ WriteRequest \/ WriteFlag \/ FormatRequest \/ FormatReconnect \/ Leave
    BY <1>0, <1>2, <2>3 DEF WriteFormatted, WriteRequest, WriteFlag, FormatRequest, FormatReconnect,
       Leave, EndWrite
  <2>4. CASE CheckInit \/ CheckTest \/ CheckDetect \/ WaitEnd \/ PresenceRequest \/ T3btEnd
    BY <1>0, <1>2, <2>4 DEF CheckInit, CheckTest, CheckDetect, WaitEnd, PresenceRequest, T3btEnd
  <2>5. CASE VsCommand \/ VsResponded \/ VsWait \/ VsEnd \/ VsGone
    BY <1>0, <2>5 DEF VsCommand, VsResponded, VsWait, VsEnd, VsGone
  <2>6. QED
    BY <2>1, <2>2, <2>3, <2>4, <2>5 DEF AppOutside
<1>4. CASE Go("app", "ask") /\ call' = [call EXCEPT !.posted = {}]
  <2>1. DOMAIN call' = CallFields /\ call'.after = call.after
    BY <1>4 DEF SelectShape, Shape, CallFields
  <2>2. Led("ask")
    BY <1>4, <2>1, Moved DEF SelectShape, Led, Threaded, Threads, app
  <2>3. QED
    BY <1>0, <1>1, <2>2
<1>5. QED
  BY <1>0, <1>1, <1>3, <1>4, LedAtOnce, LedIdle, LedAsk, LedReselect, LedReconnect, LedBegin, LedOn, LedGoOn

(* A step of reSelect outside the lock, the one that takes it, those inside, *)
(* and those that release it.                                                *)
Beside(t) ==
    /\ thread[t].pc \notin Inside /\ thread'[t].pc \notin Inside
    /\ iface'.sRfInterfaceMutex = iface.sRfInterfaceMutex
    /\ UNCHANGED <<stack, resel>>
Enters(t) ==
    /\ thread[t].pc \notin Inside /\ thread'[t].pc \in {"asleep", "failed"}
    /\ iface.sRfInterfaceMutex = None /\ iface'.sRfInterfaceMutex = t
    /\ iface'.sCurrentRfInterface = iface.sCurrentRfInterface
    /\ stack'.cmd \in {stack.cmd, "stop", "sleep"}
Within(t) ==
    /\ thread[t].pc \in Inside /\ UNCHANGED <<iface, call>>
    /\ \/ thread'[t].pc \in {"select", "failed"} /\ stack' = stack
       \/ thread'[t].pc = "selected" /\ stack'.cmd \in {"start", Want(t)}
       \/ /\ thread[t].pc = "selected" /\ thread'[t].pc = "selecting" /\ stack' = stack
          /\ ~resel'.sConnectOk
Leaves(t) ==
    /\ thread[t].pc \in Inside /\ thread'[t].pc \notin Inside
    /\ iface'.sRfInterfaceMutex = None
    /\ stack' = stack
    /\ \/ iface'.sCurrentRfInterface = iface.sCurrentRfInterface
       \/ /\ thread[t].pc = "selecting" /\ resel.sConnectOk
          /\ iface'.sCurrentRfInterface = Want(t)

(* In every one of them the other thread stays where it is.                  *)
Alone(t) ==
    /\ Threaded /\ \A u \in Threads \ {t} : thread'[u] = thread[u]
    /\ DOMAIN call' = CallFields /\ call'.after \in Targets
    /\ t = "timer" => call' = call
    /\ DOMAIN stack' = StackFields /\ DOMAIN iface' = IfaceFields
    /\ DOMAIN resel' = ReselFields /\ DOMAIN resel'.flags = FlagFields

(* A thread that moves leaves the other where it is.                         *)
LEMMA GoAlone ==
    ASSUME SelectShape, NEW t \in Threads, NEW l, Go(t, l)
    PROVE  Threaded /\ thread'[t].pc = l /\ \A u \in Threads \ {t} : thread'[u] = thread[u]
BY Moved DEF SelectShape, Threaded

(* What reSelect and its callers do next is outside.                         *)
LEMMA LeftAlone ==
    ASSUME SelectShape, NEW t \in Threads,
           (\E ok : LeaveReSelect(t, ok)) \/ (\E ok : GoOn(t, ok))
    PROVE  /\ thread'[t].pc \notin Inside
           /\ Threaded /\ \A u \in Threads \ {t} : thread'[u] = thread[u]
           /\ DOMAIN call' = CallFields /\ call'.after \in Targets
           /\ t = "timer" => call' = call
<1>1. CASE Go(t, "switched") /\ call' = call
  BY <1>1, GoAlone DEF SelectShape, Shape, Inside
<1>2. CASE \E ok : GoOn(t, ok)
  <2>1. CASE t = "timer"
    BY <1>2, <2>1, GoAlone DEF GoOn, SelectShape, Shape, Inside
  <2>2. CASE t = "app"
    BY <1>2, <2>2, LedGoOn DEF Led, Points, Threads, app
  <2>3. QED
    BY <2>1, <2>2 DEF Threads
<1>3. QED
  BY <1>1, <1>2 DEF LeaveReSelect

(* Each step of reSelect is of one of these kinds.                           *)
LEMMA ReSelectPlaces ==
    ASSUME SelectShape, NEW t \in Threads, ReSelect(t)
    PROVE  /\ Alone(t)
           /\ thread[t].pc \in SharedPoints
           /\ Beside(t) \/ Enters(t) \/ Within(t) \/ Leaves(t)
<1>0. /\ Shape
      /\ DOMAIN stack = StackFields /\ DOMAIN iface = IfaceFields
      /\ DOMAIN resel = ReselFields /\ DOMAIN resel.flags = FlagFields
      /\ DOMAIN call = CallFields /\ call.after \in Targets
  BY DEF SelectShape, Shape
<1>1. thread[t].pc \in SharedPoints
  BY ReSelectMoves
<1>2. CASE ReSelectSkip(t)
  <2>1. LeaveReSelect(t, Already(t)) /\ UNCHANGED <<stack, iface, resel>> /\ thread[t].pc = "reselect"
    BY <1>2 DEF ReSelectSkip, ReSelectFree, At
  <2>2. QED
    BY <1>0, <1>1, <2>1, LeftAlone DEF Alone, Beside, Inside
<1>3. CASE switchRfInterface(t)
  <2>1. /\ GoOn(t, TRUE) /\ UNCHANGED <<stack, resel>> /\ thread[t].pc = "switched"
        /\ iface' = [iface EXCEPT !.sCurrentRfInterface = Want(t)]
    BY <1>3 DEF switchRfInterface, At
  <2>2. DOMAIN iface' = IfaceFields /\ iface'.sRfInterfaceMutex = iface.sRfInterfaceMutex
    BY <1>0, <2>1 DEF IfaceFields
  <2>3. QED
    BY <1>0, <1>1, <2>1, <2>2, LeftAlone DEF Alone, Beside, Inside
<1>4. CASE ReSelectDeactivate(t)
  <2>1. /\ thread[t].pc = "reselect" /\ iface.sRfInterfaceMutex = None
        /\ iface' = [iface EXCEPT !.sRfInterfaceMutex = t] /\ call' = call
        /\ resel' = [resel EXCEPT !.flags.gIsTagDeactivating = TRUE, !.flags.reconnectState = resel.cashbee]
    BY <1>4 DEF ReSelectDeactivate, ReSelectFree, At
  <2>2. /\ DOMAIN iface' = IfaceFields /\ iface'.sRfInterfaceMutex = t
        /\ iface'.sCurrentRfInterface = iface.sCurrentRfInterface
        /\ DOMAIN resel' = ReselFields /\ DOMAIN resel'.flags = FlagFields
    BY <1>0, <2>1 DEF IfaceFields, ReselFields, FlagFields
  <2>3. PICK l \in {"asleep", "failed"} : Go(t, l) /\ (stack' = stack \/ \E c \in {"stop", "sleep"} : Command(c))
    BY <1>4 DEF ReSelectDeactivate
  <2>4. DOMAIN stack' = StackFields /\ stack'.cmd \in {stack.cmd, "stop", "sleep"}
    BY <1>0, <2>3 DEF Command, StackFields
  <2>5. QED
    BY <1>0, <1>1, <2>1, <2>2, <2>3, <2>4, GoAlone DEF Alone, Enters, Inside
<1>5. CASE ReSelectAsleep(t)
  <2>1. /\ thread[t].pc = "asleep" /\ UNCHANGED <<stack, iface, call>>
        /\ resel' = resel
           \/ resel' = [resel EXCEPT !.cashbee = resel.cashbee \/ nfcTag.state = "Idle",
                                     !.flags.gIsTagDeactivating = FALSE,
                                     !.flags.reconnectState = resel.flags.reconnectState
                                         /\ ~(resel.cashbee \/ nfcTag.state = "Idle")]
    BY <1>5 DEF ReSelectAsleep, At
  <2>2. DOMAIN resel' = ReselFields /\ DOMAIN resel'.flags = FlagFields
    BY <1>0, <2>1 DEF ReselFields, FlagFields
  <2>3. Go(t, "failed") \/ Go(t, "select")
    BY <1>5 DEF ReSelectAsleep
  <2>4. QED
    BY <1>0, <1>1, <2>1, <2>2, <2>3, GoAlone DEF Alone, Within, Inside
<1>6. CASE ReSelectSelect(t)
  <2>1. /\ thread[t].pc = "select" /\ UNCHANGED <<iface, call>>
        /\ \E r : resel' = [resel EXCEPT !.flags.gIsSelectingRfInterface = TRUE,
                                         !.flags.sConnectWaitingForComplete = TRUE,
                                         !.flags.reconnectState = r]
    BY <1>6 DEF ReSelectSelect, At
  <2>2. DOMAIN resel' = ReselFields /\ DOMAIN resel'.flags = FlagFields
    BY <1>0, <2>1 DEF ReselFields, FlagFields
  <2>3. \/ Go(t, "failed") /\ stack' = stack
        \/ Go(t, "selected") /\ \E c \in {"start", Want(t)} : Command(c)
    BY <1>6 DEF ReSelectSelect
  <2>4. DOMAIN stack' = StackFields
    BY <1>0, <2>3 DEF Command
  <2>5. (\E c \in {"start", Want(t)} : Command(c)) => stack'.cmd \in {"start", Want(t)}
    BY <1>0 DEF Command, StackFields
  <2>6. QED
    BY <1>0, <1>1, <2>1, <2>2, <2>3, <2>4, <2>5, GoAlone DEF Alone, Within, Inside
<1>7. CASE ReSelectWait(t)
  <2>1. /\ thread[t].pc = "selected" /\ UNCHANGED <<stack, iface, call>>
        /\ resel' = [resel EXCEPT !.sConnectOk = FALSE] /\ Go(t, "selecting")
    BY <1>7 DEF ReSelectWait, At
  <2>2. DOMAIN resel' = ReselFields /\ DOMAIN resel'.flags = FlagFields /\ ~resel'.sConnectOk
    BY <1>0, <2>1 DEF ReselFields
  <2>3. QED
    BY <1>0, <1>1, <2>1, <2>2, GoAlone DEF Alone, Within, Inside
<1>8. CASE ReSelectDone(t) \/ ReSelectFailed(t)
  <2>1. /\ thread[t].pc \in {"selecting", "failed"} /\ stack' = stack
        /\ resel' = [resel EXCEPT !.flags = NoReSelect, !.sConnectOk = FALSE]
        /\ \E ok : LeaveReSelect(t, ok)
    BY <1>8 DEF ReSelectDone, ReSelectFailed, At
  <2>2. DOMAIN resel' = ReselFields /\ DOMAIN resel'.flags = FlagFields
    BY <1>0, <2>1 DEF ReselFields, FlagFields, NoReSelect
  <2>3. \/ iface' = [iface EXCEPT !.sRfInterfaceMutex = None]
        \/ /\ thread[t].pc = "selecting"
           /\ iface' = [iface EXCEPT !.sRfInterfaceMutex = None,
                           !.sCurrentRfInterface = IF SelectOk THEN Want(t) ELSE iface.sCurrentRfInterface]
    BY <1>8 DEF ReSelectDone, ReSelectFailed, At
  <2>4. /\ DOMAIN iface' = IfaceFields /\ iface'.sRfInterfaceMutex = None
        /\ \/ iface'.sCurrentRfInterface = iface.sCurrentRfInterface
           \/ /\ thread[t].pc = "selecting" /\ resel.sConnectOk
              /\ iface'.sCurrentRfInterface = Want(t)
    BY <1>0, <2>3 DEF IfaceFields, SelectOk
  <2>5. QED
    BY <1>0, <1>1, <2>1, <2>2, <2>4, LeftAlone DEF Alone, Leaves, Inside
<1>9. QED
  BY <1>2, <1>3, <1>4, <1>5, <1>6, <1>7, <1>8 DEF ReSelect

(* The steps of the stack and of the timer leave the threads where they are, *)
(* the interface and the lock alone; what they select is what was asked for. *)
Stays ==
    /\ Threaded /\ \A t \in Threads : thread'[t].pc = thread[t].pc
    /\ DOMAIN call' = CallFields /\ call'.after = call.after /\ call'.want = call.want
    /\ UNCHANGED iface
    /\ DOMAIN stack' = StackFields
    /\ DOMAIN resel' = ReselFields /\ DOMAIN resel'.flags = FlagFields
    /\ DOMAIN nfcTag' = DOMAIN nfcTag /\ DOMAIN value' = Kept
    /\ stack'.cmd \in Interfaces => stack'.cmd = stack.cmd
    /\ \/ stack'.intf = stack.intf /\ resel'.sConnectOk \in {FALSE, resel.sConnectOk}
       \/ stack.cmd \in Interfaces /\ stack'.intf = stack.cmd

(* Waking a thread does not move it.                                         *)
LEMMA WakeStays ==
    ASSUME SelectShape, UNCHANGED thread \/ \E S, labels : Wake(S, labels)
    PROVE  Threaded /\ \A t \in Threads : thread'[t].pc = thread[t].pc
BY DEF SelectShape, Shape, Wake, Threaded, Threads

(* What the events do to the record of the call. *)
LEMMA CallStays ==
    ASSUME SelectShape, UNCHANGED call \/ call' = PresenceReset
    PROVE  DOMAIN call' = CallFields /\ call'.after = call.after /\ call'.want = call.want
BY DEF SelectShape, Shape, PresenceReset, CallFields

(* The end of a tag clears its record and one flag of reSelect.              *)
LEMMA ClearStays ==
    ASSUME SelectShape, ClearTag
    PROVE  /\ DOMAIN nfcTag' = DOMAIN nfcTag
           /\ DOMAIN resel' = ReselFields /\ DOMAIN resel'.flags = FlagFields
           /\ resel'.sConnectOk = resel.sConnectOk
BY DEF SelectShape, Shape, ClearTag, ReselFields

(* An activation, of a tag that was selected or of a new one.                *)
LEMMA ActivatedStays ==
    ASSUME SelectShape, NEW k, Activated(k)
    PROVE  /\ DOMAIN nfcTag' = DOMAIN nfcTag
           /\ DOMAIN resel' = ReselFields /\ DOMAIN resel'.flags = FlagFields
           /\ UNCHANGED call \/ call' = PresenceReset
<1>1. DOMAIN nfcTag' = DOMAIN nfcTag /\ (UNCHANGED call \/ call' = PresenceReset)
  BY DEF SelectShape, Shape, Activated
<1>2. \/ resel' = resel
      \/ resel' = [resel EXCEPT !.cashbee = FALSE]
      \/ resel' = [resel EXCEPT !.flags.sConnectWaitingForComplete = FALSE, !.sConnectOk = TRUE]
  BY DEF Activated, ConnectStatus
<1>3. QED
  BY <1>1, <1>2 DEF SelectShape, ReselFields, FlagFields

(* A deactivation, which reSelect may have asked for.                        *)
LEMMA DeactivatedStays ==
    ASSUME SelectShape, DeactivatedEvt
    PROVE  /\ Threaded /\ \A t \in Threads : thread'[t].pc = thread[t].pc
           /\ DOMAIN call' = CallFields /\ call'.after = call.after /\ call'.want = call.want
           /\ DOMAIN nfcTag' = DOMAIN nfcTag
           /\ DOMAIN resel' = ReselFields /\ DOMAIN resel'.flags = FlagFields
           /\ resel'.sConnectOk = resel.sConnectOk
<1>1. (UNCHANGED thread \/ \E S, labels : Wake(S, labels)) /\ (UNCHANGED call \/ call' = PresenceReset)
  BY DEF DeactivatedEvt
<1>2. (UNCHANGED <<nfcTag, resel>>) \/ ClearTag
  BY DEF DeactivatedEvt
<1>3. QED
  BY <1>1, <1>2, WakeStays, CallStays, ClearStays DEF SelectShape, Shape

(* The same for all the steps of the stack.                                  *)
LEMMA StackStays == ASSUME SelectShape, StackStep \/ TagLeaves PROVE Stays
<1>0. /\ Shape
      /\ DOMAIN stack = StackFields /\ DOMAIN iface = IfaceFields
      /\ DOMAIN resel = ReselFields /\ DOMAIN resel.flags = FlagFields
      /\ DOMAIN call = CallFields
      /\ DOMAIN nfcTag = {"state", "mIsActivated", "proto", "timedOut"} /\ DOMAIN value = Kept
      /\ None \notin Interfaces /\ "idle" \notin Interfaces
  BY NativeTagAssumption DEF SelectShape, Shape, Interfaces
<1>1. ASSUME NEW a \in Requests, NEW status \in Statuses(a), Answer(a, status) PROVE Stays
  <2>1. DOMAIN call' = CallFields /\ call'.after = call.after /\ call'.want = call.want
    BY <1>0, <1>1 DEF Answer, CallFields
  <2>2. Threaded /\ \A t \in Threads : thread'[t].pc = thread[t].pc
    BY <1>1, WakeStays DEF Answer
  <2>3. stack' = [stack EXCEPT !.req = None] /\ UNCHANGED <<iface, resel>>
    BY <1>1 DEF Answer
  <2>4. DOMAIN stack' = StackFields /\ stack'.cmd = stack.cmd /\ stack'.intf = stack.intf
    BY <1>0, <2>3 DEF StackFields
  <2>5. DOMAIN nfcTag' = DOMAIN nfcTag /\ DOMAIN value' = Kept
    BY <1>0, <1>1 DEF Answer
  <2>6. QED
    BY <1>0, <2>1, <2>2, <2>3, <2>4, <2>5 DEF Stays
<1>2. CASE AnswerBusy \/ TagSleeps
  <2>1. /\ UNCHANGED <<iface, resel, thread, call, value>>
        /\ stack' = [stack EXCEPT !.req = None] \/ stack' = [stack EXCEPT !.rf = "sleep", !.cmd = None, !.req = None]
    BY <1>2 DEF AnswerBusy, TagSleeps, flags
  <2>2. DOMAIN stack' = StackFields /\ stack'.cmd \in {stack.cmd, None} /\ stack'.intf = stack.intf
    BY <1>0, <2>1 DEF StackFields
  <2>3. DOMAIN nfcTag' = DOMAIN nfcTag
    BY <1>0, <1>2 DEF AnswerBusy, TagSleeps, Slept
  <2>4. QED
    BY <1>0, <2>1, <2>2, <2>3, WakeStays DEF Stays
<1>3. CASE AbortWaits
  <2>1. DOMAIN call' = CallFields /\ call'.after = call.after /\ call'.want = call.want
    BY <1>0, <1>3 DEF AbortWaits, CallFields
  <2>2. UNCHANGED <<stack, iface, resel, nfcTag, value>> /\ \E S, labels : Wake(S, labels)
    BY <1>3 DEF AbortWaits, flags
  <2>3. QED
    BY <1>0, <2>1, <2>2, WakeStays DEF Stays
<1>4. CASE ConnectNotify \/ VsNotify \/ VsTimer \/ \E ok \in BOOLEAN : VsResponse(ok) \/ VsNotification(ok)
  <2>1. UNCHANGED <<stack, iface, resel, nfcTag, value, call>>
    BY <1>4 DEF ConnectNotify, VsNotify, VsTimer, VsResponse, VsNotification, flags
  <2>2. UNCHANGED thread \/ \E S, labels : Wake(S, labels)
    BY <1>4 DEF ConnectNotify, VsNotify, VsTimer, VsResponse, VsNotification
  <2>3. QED
    BY <1>0, <2>1, <2>2, WakeStays DEF Stays
<1>5. CASE DiscoveryStops \/ TagLeaves
  <2>1. /\ \E rf, missed : stack' = [stack EXCEPT !.rf = rf, !.tag = None, !.req = None, !.cmd = None,
                                                   !.missed = missed]
        /\ UNCHANGED <<iface, value>>
    BY <1>5 DEF DiscoveryStops, TagLeaves, flags
  <2>2. DOMAIN stack' = StackFields /\ stack'.cmd = None /\ stack'.intf = stack.intf
    BY <1>0, <2>1 DEF StackFields
  <2>3. DeactivatedEvt \/ (nfcTag' = Slept /\ UNCHANGED <<resel, thread, call>>)
    BY <1>5 DEF DiscoveryStops, TagLeaves
  <2>4. DOMAIN Slept = DOMAIN nfcTag
    BY <1>0 DEF Slept
  <2>5. QED
    BY <1>0, <2>1, <2>2, <2>3, <2>4, DeactivatedStays, WakeStays DEF Stays
<1>6. CASE DiscoveryStarts \/ CommandFails
  <2>1. /\ UNCHANGED <<iface, resel, thread, call, nfcTag, value>>
        /\ stack' = [stack EXCEPT !.rf = IF stack.rf = "idle" THEN "discovery" ELSE stack.rf, !.cmd = None]
           \/ stack' = [stack EXCEPT !.cmd = None]
    BY <1>6 DEF DiscoveryStarts, CommandFails, tagSide, flags
  <2>2. DOMAIN stack' = StackFields /\ stack'.cmd = None /\ stack'.intf = stack.intf
    BY <1>0, <2>1 DEF StackFields
  <2>3. QED
    BY <1>0, <2>1, <2>2, WakeStays DEF Stays
<1>7. ASSUME NEW ok \in BOOLEAN, SelectDone(ok) PROVE Stays
  <2>1. stack.cmd \in Interfaces /\ UNCHANGED <<iface, thread, value>>
    BY <1>7 DEF SelectDone, flags, Interfaces
  <2>2. CASE ok
    <3>1. stack' = [stack EXCEPT !.rf = "active", !.intf = stack.cmd, !.cmd = None] /\ Activated(stack.tag)
      BY <1>7, <2>2 DEF SelectDone
    <3>2. DOMAIN stack' = StackFields /\ stack'.cmd = None /\ stack'.intf = stack.cmd
      BY <1>0, <3>1 DEF StackFields
    <3>3. QED
      BY <1>0, <2>1, <3>1, <3>2, ActivatedStays, CallStays, WakeStays DEF Stays
  <2>3. CASE ~ok
    <3>1. /\ stack' = [stack EXCEPT !.cmd = "idle"] /\ UNCHANGED <<nfcTag, call>>
          /\ resel' = resel \/ resel' = [resel EXCEPT !.flags.sConnectWaitingForComplete = FALSE, !.sConnectOk = FALSE]
      BY <1>7, <2>3 DEF SelectDone, ConnectStatus
    <3>2. DOMAIN stack' = StackFields /\ stack'.cmd = "idle" /\ stack'.intf = stack.intf
      BY <1>0, <3>1 DEF StackFields
    <3>3. /\ DOMAIN resel' = ReselFields /\ DOMAIN resel'.flags = FlagFields
          /\ resel'.sConnectOk \in {FALSE, resel.sConnectOk}
      BY <1>0, <3>1 DEF ReselFields, FlagFields
    <3>4. QED
      BY <1>0, <2>1, <3>1, <3>2, <3>3, WakeStays DEF Stays
  <2>4. QED
    BY <2>2, <2>3
<1>8. QED
  BY <1>1, <1>2, <1>3, <1>4, <1>5, <1>6, <1>7 DEF StackStep

(* The timer begins to switch back. *)
LEMMA SwitchBackSide ==
    ASSUME SelectShape, SwitchBack
    PROVE  /\ Threaded /\ thread'["app"] = thread["app"]
           /\ thread["timer"].pc = "idle" /\ thread'["timer"].pc \in {"idle", "reselect"}
           /\ DOMAIN iface' = IfaceFields
           /\ iface'.sRfInterfaceMutex = iface.sRfInterfaceMutex
           /\ iface'.sCurrentRfInterface = iface.sCurrentRfInterface
           /\ UNCHANGED <<stack, resel, nfcTag, call, value>>
<1>1. UNCHANGED thread \/ Go("timer", "reselect")
  BY DEF SwitchBack
<1>2. Threaded /\ thread'["app"] = thread["app"] /\ thread'["timer"].pc \in {"idle", "reselect"}
  BY <1>1, GoAlone DEF SwitchBack, At, SelectShape, Shape, Threaded, Threads
<1>3. QED
  BY <1>2 DEF SwitchBack, At, SelectShape, IfaceFields, tagSide, flags

(* A new tag changes neither the interface nor the command under way.        *)
LEMMA ArrivesSide ==
    ASSUME SelectShape, NEW k \in Tags, TagArrives(k)
    PROVE  /\ UNCHANGED <<iface, thread, value>>
           /\ DOMAIN stack' = StackFields /\ stack'.cmd = stack.cmd
           /\ DOMAIN nfcTag' = DOMAIN nfcTag
           /\ DOMAIN resel' = ReselFields /\ DOMAIN resel'.flags = FlagFields
           /\ DOMAIN call' = CallFields /\ call'.after = call.after /\ call'.want = call.want
BY ActivatedStays, CallStays DEF TagArrives, SelectShape, StackFields, flags

(* The steps, by what they do to the selection. *)
LEMMA StepKinds ==
    ASSUME SelectShape, Next
    PROVE  /\ DOMAIN count' = {"tags", "calls"} /\ count'.tags \in Nat
           /\ \/ /\ count'.tags = count.tags
                 /\ \/ AppOutside \/ SwitchBack \/ StackStep \/ TagLeaves
                    \/ \E t \in Threads : ReSelect(t)
              \/ count'.tags = count.tags + 1 /\ \E k \in Tags : TagArrives(k)
<1>1. AppStep => AppOutside \/ ReSelect("app")
  BY DEF AppStep, AppOutside
<1>2. {"app", "timer"} \subseteq Threads
  BY DEF Threads
<1>3. AppCall => AppOutside
  BY DEF AppOutside
<1>4. \/ count' = [count EXCEPT !.calls = count.calls + 1] /\ AppCall
      \/ count' = [count EXCEPT !.tags = count.tags + 1] /\ \E k \in Tags : TagArrives(k)
      \/ count' = count /\ (AppStep \/ ReSelect("timer") \/ SwitchBack \/ StackStep \/ TagLeaves)
  BY DEF Next
<1>5. DOMAIN count = {"tags", "calls"} /\ count.tags \in Nat
  BY DEF SelectShape
<1>6. CASE count' = [count EXCEPT !.calls = count.calls + 1] /\ AppCall
  <2>1. DOMAIN count' = {"tags", "calls"} /\ count'.tags = count.tags
    BY <1>5, <1>6
  <2>2. QED
    BY <1>3, <1>5, <1>6, <2>1
<1>7. CASE count' = [count EXCEPT !.tags = count.tags + 1] /\ \E k \in Tags : TagArrives(k)
  <2>1. DOMAIN count' = {"tags", "calls"} /\ count'.tags = count.tags + 1
    BY <1>5, <1>7
  <2>2. QED
    BY <1>5, <1>7, <2>1
<1>8. CASE count' = count /\ (AppStep \/ ReSelect("timer") \/ SwitchBack \/ StackStep \/ TagLeaves)
  BY <1>1, <1>2, <1>5, <1>8
<1>9. QED
  BY <1>4, <1>6, <1>7, <1>8

(* Before the first tag, no step but its arrival ends that. *)
LEMMA UntouchedStays ==
    ASSUME SelectInv, count.tags = 0,
           \/ AppOutside \/ SwitchBack \/ StackStep \/ TagLeaves
           \/ \E t \in Threads : ReSelect(t)
    PROVE  /\ nfcTag'.state = "Idle" /\ ~nfcTag'.mIsActivated
           /\ ~iface'.sNeedToSwitchRf /\ ~iface'.sSwitchBackTimer
           /\ stack'.rf = "discovery" /\ stack'.cmd = None
           /\ thread'["timer"].pc = "idle" /\ app' \notin SharedPoints
<1>1. /\ SelectShape /\ Shape
      /\ nfcTag.state = "Idle" /\ ~nfcTag.mIsActivated
      /\ ~iface.sNeedToSwitchRf /\ ~iface.sSwitchBackTimer
      /\ stack.rf = "discovery" /\ stack.cmd = None
      /\ thread["timer"].pc = "idle" /\ app \notin SharedPoints
      /\ ~Active
      /\ DOMAIN iface = IfaceFields /\ DOMAIN stack = StackFields
  BY DEF SelectInv, SelectShape, NoTagYet, Active
<1>2. None \notin Interfaces \cup {"sleep", "idle", "stop", "start"}
  BY NativeTagAssumption
<1>3. ~\E t \in Threads : ReSelect(t)
  BY <1>1, ReSelectMoves DEF Threads, app, SharedPoints, Inside
<1>4. ~SwitchBack
  BY <1>1 DEF SwitchBack
<1>5. CASE StackStep \/ TagLeaves
  <2>1. ~TagLeaves /\ ~TagSleeps /\ ~AnswerBusy
    BY <1>1 DEF TagLeaves, TagSleeps, AnswerBusy
  <2>2. ~\E a \in Requests : \E status \in Statuses(a) : Answer(a, status)
    BY <1>1 DEF Answer
  <2>3. ~DiscoveryStops /\ ~DiscoveryStarts /\ ~CommandFails /\ ~\E ok \in BOOLEAN : SelectDone(ok)
    BY <1>1, <1>2 DEF DiscoveryStops, DiscoveryStarts, CommandFails, SelectDone, Interfaces
  <2>4. \/ AbortWaits \/ ConnectNotify \/ VsNotify \/ VsTimer
        \/ \E ok \in BOOLEAN : VsResponse(ok) \/ VsNotification(ok)
    BY <1>5, <2>1, <2>2, <2>3 DEF StackStep
  <2>5. UNCHANGED <<stack, iface, nfcTag>>
    BY <2>4 DEF AbortWaits, ConnectNotify, VsNotify, VsTimer, VsResponse, VsNotification
  <2>6. \A t \in Threads : thread'[t].pc = thread[t].pc
    BY <1>1, <1>5, StackStays DEF Stays
  <2>7. QED
    BY <1>1, <2>5, <2>6 DEF Threads, app
<1>6. CASE AppOutside
  <2>1. /\ \A o, l : Call(o) /\ Go("app", l) => Led(l)
        /\ \A l : Go("app", l) /\ UNCHANGED call => Led(l)
        /\ AtOnce => Led("idle")
        /\ Finish => Led("idle")
        /\ AskAndWait => Led("wait") \/ Led("idle")
    BY <1>1, LedBegin, LedOn, LedAtOnce, LedIdle, LedAsk
  <2>2. \A o, next : Reconnect(o, next) => Led("idle") \/ (Go("app", next) /\ next # "return")
    BY <1>1, <2>1 DEF Reconnect
  <2>3. \A l : Go("app", l) => app' = l /\ thread'["timer"] = thread["timer"]
    BY <1>1, Moved DEF Threads, app
  <2>4. \A l : Led(l) => app' = l /\ thread'["timer"] = thread["timer"]
    BY DEF Led
  <2> DEFINE Safe == {"idle", "start", "read", "formatting", "write", "written", "wait", "format",
                      "formatted", "check", "ask", "detect", "leave", "answer", "answered", "presence",
                      "send"}
             Unmoved == thread'["timer"].pc = "idle" /\ app' \in Safe
  <2>5. Safe \cap SharedPoints = {}
    BY DEF SharedPoints, Inside
  <2>6. \A r : Request(r) => stack'.rf = stack.rf /\ stack'.cmd = stack.cmd
    BY <1>1, RequestSide
  <2>7. CASE AppCall
    <3>1. ASSUME NEW raw \in BOOLEAN, DoConnect(raw)
          PROVE  /\ AtOnce /\ UNCHANGED <<stack, nfcTag>>
                 /\ ~iface'.sNeedToSwitchRf /\ ~iface'.sSwitchBackTimer
      BY <1>1, <3>1 DEF DoConnect, tagSide, IfaceFields
    <3>2. DoReconnect => AtOnce /\ UNCHANGED <<stack, iface, nfcTag>>
      BY <1>1 DEF DoReconnect, Reconnect, tagSide
    <3>3. DoDisconnect => AtOnce /\ UNCHANGED <<stack, iface, nfcTag>>
      BY <1>1 DEF DoDisconnect, tagSide
    <3>4. DoTransceive => Unmoved /\ UNCHANGED <<stack, iface, nfcTag>>
      BY <1>1, <2>1, <2>2, <2>3, <2>4 DEF DoTransceive, tagSide
    <3>5. DoRead => Unmoved /\ stack'.rf = stack.rf /\ stack'.cmd = stack.cmd /\ UNCHANGED <<iface, nfcTag>>
      BY <1>1, <2>1, <2>3, <2>4, <2>6 DEF DoRead, tagSide
    <3>6. DoWrite => Unmoved /\ stack'.rf = stack.rf /\ stack'.cmd = stack.cmd /\ UNCHANGED <<iface, nfcTag>>
      BY <1>1, <2>3, <2>6 DEF DoWrite, tagSide
    <3>7. DoFormat => AtOnce /\ UNCHANGED <<stack, iface, nfcTag>>
      BY <1>1 DEF DoFormat, tagSide
    <3>8. DoCheckNdef => Unmoved /\ UNCHANGED <<stack, iface, nfcTag>>
      BY <1>1, <2>1, <2>2, <2>3, <2>4 DEF DoCheckNdef, tagSide
    <3>9. DoMakeReadonly => Unmoved /\ stack'.rf = stack.rf /\ stack'.cmd = stack.cmd /\ UNCHANGED <<iface, nfcTag>>
      BY <1>1, <2>3, <2>6 DEF DoMakeReadonly, tagSide
    <3>10. DoPresenceCheck =>
             AtOnce /\ UNCHANGED <<stack, iface>> /\ nfcTag'.state = "Idle" /\ ~nfcTag'.mIsActivated
      BY <1>1 DEF DoPresenceCheck, KovioGone, ClearTag, Shape
    <3>11. AtOnce => Unmoved
      BY <1>1, <2>1, <2>4
    <3>12. QED
      BY <1>1, <2>5, <2>7, <3>1, <3>2, <3>3, <3>4, <3>5, <3>6, <3>7, <3>8, <3>9, <3>10, <3>11
         DEF AppCall
  <2>8. CASE TransceiveStart \/ TransceiveSend \/ MifareReconnect \/ TransceiveEnd
    <3>1. Unmoved
      <4>1. Finish \/ Go("app", "send") \/ Go("app", "answer")
        BY <1>1, <2>8 DEF TransceiveStart, TransceiveSend, MifareReconnect, TransceiveEnd, EndTransceive
      <4>2. QED
        BY <1>1, <2>1, <2>3, <2>4, <4>1
    <3>2. stack'.rf = stack.rf /\ stack'.cmd = stack.cmd /\ UNCHANGED nfcTag
      BY <2>6, <2>8 DEF TransceiveStart, TransceiveSend, MifareReconnect, TransceiveEnd, tagSide
    <3>3. iface' = iface \/ iface' = [iface EXCEPT !.sSwitchBackTimer = FALSE]
          \/ iface' = [iface EXCEPT !.sSwitchBackTimer = @ \/ iface.sNeedToSwitchRf]
      BY <2>8 DEF TransceiveStart, TransceiveSend, MifareReconnect, TransceiveEnd, EndTransceive
    <3>4. ~iface'.sNeedToSwitchRf /\ ~iface'.sSwitchBackTimer
      BY <1>1, <3>3 DEF IfaceFields
    <3>5. QED
      BY <1>1, <2>5, <3>1, <3>2, <3>4
  <2>9. CASE ReadEnd \/ WriteFormatted \/ WriteRequest \/ WriteFlag \/ FormatRequest \/ FormatReconnect
             \/ Leave \/ CheckInit \/ CheckTest \/ CheckDetect \/ WaitEnd \/ PresenceRequest \/ T3btEnd
    <3>1. UNCHANGED <<iface, nfcTag>>
      BY <2>9 DEF ReadEnd, WriteFormatted, WriteRequest, WriteFlag, FormatRequest, FormatReconnect,
         Leave, CheckInit, CheckTest, CheckDetect, WaitEnd, PresenceRequest, T3btEnd, tagSide
    <3>2. stack' = stack \/ \E r : Request(r)
      BY <2>9 DEF ReadEnd, WriteFormatted, WriteRequest, WriteFlag, FormatRequest, FormatReconnect,
         Leave, CheckInit, CheckTest, CheckDetect, WaitEnd, PresenceRequest, T3btEnd, AskAndWait
    <3>3. Finish \/ AskAndWait \/ (\E l \in Safe : Go("app", l)) \/ Reconnect("format", "leave")
      BY <2>9 DEF ReadEnd, WriteFormatted, WriteRequest, WriteFlag, EndWrite, FormatRequest, FormatReconnect,
         Leave, CheckInit, CheckTest, CheckDetect, WaitEnd, PresenceRequest, T3btEnd
    <3>4. Unmoved
      BY <1>1, <2>1, <2>2, <2>3, <2>4, <3>3
    <3>5. QED
      BY <1>1, <2>5, <2>6, <3>1, <3>2, <3>4
  <2>10. CASE VsCommand \/ VsResponded \/ VsWait \/ VsEnd \/ VsGone
    BY <1>1, <2>10 DEF VsCommand, VsResponded, VsWait, VsEnd, VsGone, At, app, SharedPoints
  <2>11. QED
    BY <1>6, <2>7, <2>8, <2>9, <2>10 DEF AppOutside
<1>7. QED
  BY <1>3, <1>4, <1>5, <1>6

(* No other thread stands inside reSelect when one does. *)
LEMMA OneInside ==
    ASSUME Owned, NEW t \in Threads, NEW u \in Threads, thread[t].pc \in Inside, thread[u].pc \in Inside
    PROVE  t = u
BY DEF Owned

(* Every step preserves the shape of the state and of the selection. *)
LEMMA SelectStep == ASSUME SelectInv, Next PROVE SelectInv'
<1>0. /\ SelectShape /\ Shape /\ Owned /\ Pending /\ Chosen /\ NoTagYet
      /\ DOMAIN value = Kept /\ DOMAIN nfcTag = {"state", "mIsActivated", "proto", "timedOut"}
      /\ count.tags \in Nat /\ call.after \in Targets
      /\ "app" \in Threads /\ "timer" \in Threads /\ \A t \in Threads : t \in {"app", "timer"}
  BY DEF SelectInv, SelectShape, Shape, Threads
<1>1. {"stop", "sleep", "idle", "start", None} \cap Interfaces = {} /\ None \notin Threads
  BY NativeTagAssumption DEF Interfaces
<1>2. DOMAIN count' = {"tags", "calls"} /\ count'.tags \in Nat
  BY <1>0, StepKinds
<1>3. Want("timer")' = "ISO_DEP" /\ Want("timer") = "ISO_DEP" /\ Want("app") = call.want /\ Want("app")' = call'.want
  BY DEF Want
<1>4. CASE count'.tags = count.tags + 1 /\ \E k \in Tags : TagArrives(k)
  <2>1. PICK k \in Tags : TagArrives(k)
    BY <1>4
  <2>2. SelectShape'
    BY <1>0, <1>2, <2>1, ArrivesSide DEF SelectShape, Shape
  <2>3. Owned' /\ Pending'
    BY <1>0, <1>3, <2>1, ArrivesSide DEF Owned, Pending, Threads
  <2>4. count'.tags = 1 => count.tags = 0
    BY <1>0, <1>4
  <2>5. count.tags = 0 => \A t \in Threads : thread[t].pc # "selecting"
    BY <1>0 DEF NoTagYet, SharedPoints, Inside, app
  <2>6. Chosen'
    BY <1>0, <2>1, <2>4, <2>5, ArrivesSide DEF Chosen
  <2>7. NoTagYet'
    BY <1>0, <1>4 DEF NoTagYet
  <2>8. QED
    BY <2>2, <2>3, <2>6, <2>7 DEF SelectInv
<1>5. CASE /\ count'.tags = count.tags
           /\ \/ AppOutside \/ SwitchBack \/ StackStep \/ TagLeaves
              \/ \E t \in Threads : ReSelect(t)
  <2>1. NoTagYet'
    BY <1>5, UntouchedStays DEF NoTagYet
  <2>2. SelectShape' /\ Owned' /\ Pending' /\ Chosen'
    <3>1. CASE AppOutside
      <4>1. PICK l \in Points : Led(l)
        BY <1>0, <3>1, AppLed
      <4>2. app \notin Inside /\ app' \notin Inside /\ thread'["timer"] = thread["timer"] /\ AppSide
        BY <1>0, <3>1, <4>1, AppLed, AppSideKept DEF Led, Points
      <4>3. SelectShape'
        BY <1>0, <1>2, <4>1, <4>2 DEF SelectShape, Shape, Led, Threaded, AppSide
      <4>4. Owned'
        BY <1>0, <4>2 DEF Owned, AppSide, app
      <4>5. Pending'
        BY <1>0, <1>1, <1>3, <4>2 DEF Pending, AppSide, app, Inside
      <4>6. Chosen'
        BY <1>0, <1>3, <1>5, <4>2 DEF Chosen, AppSide, app, Inside
      <4>7. QED
        BY <4>3, <4>4, <4>5, <4>6
    <3>2. CASE SwitchBack
      <4>1. SelectShape'
        BY <1>0, <1>2, <3>2, SwitchBackSide DEF SelectShape, Shape, Threaded
      <4>2. Owned' /\ Pending'
        BY <1>0, <1>3, <3>2, SwitchBackSide DEF Owned, Pending, Inside
      <4>3. Chosen'
        BY <1>0, <1>3, <1>5, <3>2, SwitchBackSide DEF Chosen
      <4>4. QED
        BY <4>1, <4>2, <4>3
    <3>3. CASE StackStep \/ TagLeaves
      <4>1. Stays
        BY <1>0, <3>3, StackStays
      <4>2. SelectShape'
        BY <1>0, <1>2, <4>1 DEF SelectShape, Shape, Stays, Threaded
      <4>3. Owned'
        BY <1>0, <4>1 DEF Owned, Stays
      <4>4. \A t \in Threads : Want(t)' = Want(t)
        BY <1>0, <1>3, <4>1 DEF Stays
      <4>5. Pending'
        BY <4>1, <4>4, <1>0 DEF Pending, Stays
      <4>6. Chosen'
        <5> SUFFICES ASSUME count'.tags = 1, NEW t \in Threads, thread'[t].pc = "selecting",
                            resel'.sConnectOk
                     PROVE  stack'.intf = Want(t)'
          BY DEF Chosen
        <5>1. thread[t].pc = "selecting" /\ count.tags = 1
          BY <1>5, <4>1 DEF Stays
        <5>2. CASE stack.cmd \in Interfaces /\ stack'.intf = stack.cmd
          BY <1>0, <4>4, <5>1, <5>2 DEF Pending
        <5>3. CASE stack'.intf = stack.intf /\ resel'.sConnectOk \in {FALSE, resel.sConnectOk}
          BY <1>0, <4>4, <5>1, <5>3 DEF Chosen
        <5>4. QED
          BY <4>1, <5>2, <5>3 DEF Stays
      <4>7. QED
        BY <4>2, <4>3, <4>5, <4>6
    <3>4. ASSUME NEW t \in Threads, ReSelect(t) PROVE SelectShape' /\ Owned' /\ Pending' /\ Chosen'
      <4>1. Alone(t) /\ (Beside(t) \/ Enters(t) \/ Within(t) \/ Leaves(t)) /\ Rest
        BY <1>0, <3>4, ReSelectPlaces, ReSelectRest
      <4>2. SelectShape'
        BY <1>0, <1>2, <4>1 DEF SelectShape, Shape, Alone, Threaded, Rest
      <4>3. \A u \in Threads \ {t} : thread'[u] = thread[u] /\ Want(u)' = Want(u)
        BY <1>0, <1>3, <4>1 DEF Alone
      <4>4. Owned'
        BY <1>0, <1>1, <4>1, <4>3 DEF Owned, Beside, Enters, Within, Leaves, Inside
      <4>5. CASE Beside(t)
        <5>1. Pending'
          BY <1>0, <4>3, <4>5 DEF Pending, Beside, Inside
        <5>2. Chosen'
          BY <1>0, <1>5, <4>3, <4>5 DEF Chosen, Beside, Inside
        <5>3. QED
          BY <4>2, <4>4, <5>1, <5>2
      <4>6. CASE Enters(t)
        <5>1. \A u \in Threads : thread'[u].pc \notin {"selected", "selecting"}
          BY <1>0, <1>1, <4>3, <4>6 DEF Enters, Owned, Inside
        <5>2. QED
          BY <4>2, <4>4, <5>1 DEF Pending, Chosen
      <4>7. CASE Within(t)
        <5>1. \A u \in Threads \ {t} : thread'[u].pc \notin Inside
          BY <1>0, <4>3, <4>7, OneInside DEF Within
        <5>2. Want(t)' = Want(t)
          BY <1>0, <1>3, <4>7 DEF Within
        <5>3. Pending'
          BY <1>0, <1>1, <4>7, <5>1, <5>2 DEF Pending, Within, Inside
        <5>4. Chosen'
          BY <1>0, <1>5, <4>7, <5>1, <5>2 DEF Chosen, Within, Inside
        <5>5. QED
          BY <4>2, <4>4, <5>3, <5>4
      <4>8. CASE Leaves(t)
        <5>1. \A u \in Threads : thread'[u].pc \notin {"selected", "selecting"}
          BY <1>0, <4>3, <4>8, OneInside DEF Leaves, Inside
        <5>2. QED
          BY <4>2, <4>4, <5>1 DEF Pending, Chosen
      <4>9. QED
        BY <4>1, <4>5, <4>6, <4>7, <4>8
    <3>5. QED
      BY <1>5, <3>1, <3>2, <3>3, <3>4
  <2>3. QED
    BY <2>1, <2>2 DEF SelectInv
<1>6. QED
  BY <1>0, <1>4, <1>5, StepKinds

(* The invariant of the selection holds in every behaviour. *)
THEOREM SelectInvariant == Spec => []SelectInv
<1>1. SelectInv /\ UNCHANGED vars => SelectInv'
  BY DEF SelectInv, SelectShape, Shape, Owned, Pending, Chosen, NoTagYet, Want, Active, app, vars
<1>2. SelectInv /\ [Next]_vars => SelectInv'
  BY <1>1, SelectStep
<1>3. QED
  BY SelectInit, <1>2, PTL DEF Spec

(* Whatever answers are late or lost and whoever selects, the caller or the  *)
(* timer: the interface that reSelect remembers when it releases its lock is *)
(* the one the stack has selected, as long as the tag is the same.           *)
THEOREM SelectionCorrect == Spec => InterfaceIsSelected
<1>1. ASSUME SelectInv, Next,
             iface'.sCurrentRfInterface # iface.sCurrentRfInterface,
             iface.sRfInterfaceMutex # None, iface'.sRfInterfaceMutex = None, count.tags = 1
      PROVE  stack.intf = iface'.sCurrentRfInterface
  <2>1. SelectShape /\ Chosen
    BY <1>1 DEF SelectInv
  <2>2. ~AppOutside /\ ~SwitchBack /\ ~StackStep /\ ~TagLeaves /\ ~\E k \in Tags : TagArrives(k)
    BY <1>1, <2>1, AppSideKept, SwitchBackSide, StackStays, ArrivesSide DEF AppSide, Stays
  <2>3. PICK t \in Threads : ReSelect(t)
    BY <1>1, <2>1, <2>2, StepKinds
  <2>4. Leaves(t)
    BY <1>1, <2>1, <2>3, ReSelectPlaces DEF Beside, Enters, Within
  <2>5. QED
    BY <1>1, <2>1, <2>4 DEF Leaves, Chosen
<1>2. SelectInv /\ [Next]_vars =>
        [/\ iface'.sCurrentRfInterface # iface.sCurrentRfInterface
         /\ iface.sRfInterfaceMutex # None /\ iface'.sRfInterfaceMutex = None
         /\ count.tags = 1
         => stack.intf = iface'.sCurrentRfInterface]_vars
  BY <1>1
<1>3. QED
  BY SelectInvariant, <1>2, PTL DEF Spec, InterfaceIsSelected

-----------------------------------------------------------------------------
(* The stack and NfcTag agree on a tag that is gone, unless the callback     *)
(* ignored its end.                                                          *)
Agreed == TagGone /\ ~stack.missed => nfcTag.state = "Idle"

(* Neither the calls nor reSelect bring a tag back or send it away.          *)
LEMMA HostAgrees ==
    ASSUME SelectInv, Agreed, AppOutside \/ SwitchBack \/ \E t \in Threads : ReSelect(t)
    PROVE  Agreed'
<1>0. SelectShape /\ Shape /\ DOMAIN stack = StackFields
  BY DEF SelectInv, SelectShape
<1>1. CASE AppOutside
  BY <1>0, <1>1, AppSideKept DEF AppSide, Agreed, TagGone
<1>2. CASE SwitchBack
  BY <1>2 DEF SwitchBack, tagSide, Agreed, TagGone
<1>3. ASSUME NEW t \in Threads, ReSelect(t) PROVE Agreed'
  <2>1. stack' = stack \/ \E c : Command(c)
    BY <1>3 DEF ReSelect, ReSelectSkip, ReSelectDeactivate, ReSelectAsleep, ReSelectSelect,
       ReSelectWait, ReSelectDone, ReSelectFailed, switchRfInterface
  <2>2. stack'.rf = stack.rf /\ stack'.missed = stack.missed
    BY <1>0, <2>1 DEF Command, StackFields
  <2>3. QED
    BY <1>0, <1>3, <2>2, ReSelectRest DEF Agreed, TagGone
<1>4. QED
  BY <1>1, <1>2, <1>3

(* A deactivation is recorded by NfcTag, or noted as ignored; the other      *)
(* steps of the stack keep the field and the state.                          *)
LEMMA StackAgrees ==
    ASSUME SelectInv, Agreed, StackStep \/ TagLeaves
    PROVE  Agreed'
<1>0. /\ SelectShape /\ DOMAIN stack = StackFields
      /\ DOMAIN nfcTag = {"state", "mIsActivated", "proto", "timedOut"}
  BY DEF SelectInv, SelectShape, Shape
<1>1. CASE TagLeaves \/ DiscoveryStops
  <2>1. \E rf : stack' = [stack EXCEPT !.rf = rf, !.tag = None, !.req = None, !.cmd = None,
                                       !.missed = resel.flags.reconnectState]
    BY <1>1 DEF TagLeaves, DiscoveryStops
  <2>2. stack'.missed = resel.flags.reconnectState
    BY <1>0, <2>1 DEF StackFields
  <2>3. ~resel.flags.reconnectState => nfcTag'.state = "Idle"
    BY <1>0, <1>1 DEF TagLeaves, DiscoveryStops, DeactivatedEvt, ClearTag
  <2>4. QED
    BY <2>2, <2>3 DEF Agreed
<1>2. CASE TagSleeps
  BY <1>0, <1>2 DEF TagSleeps, StackFields, Agreed, TagGone
<1>3. ASSUME NEW ok \in BOOLEAN, SelectDone(ok) PROVE Agreed'
  <2>1. CASE ok
    BY <1>0, <1>3, <2>1 DEF SelectDone, StackFields, Agreed, TagGone
  <2>2. CASE ~ok
    BY <1>0, <1>3, <2>2 DEF SelectDone, StackFields, Agreed, TagGone
  <2>3. QED
    BY <2>1, <2>2
<1>4. ASSUME NEW a \in Requests, NEW status \in Statuses(a), Answer(a, status) PROVE Agreed'
  BY <1>0, <1>4 DEF Answer, StackFields, Agreed, TagGone
<1>5. CASE AnswerBusy
  BY <1>0, <1>5 DEF AnswerBusy, StackFields, Agreed, TagGone
<1>6. CASE DiscoveryStarts
  BY <1>0, <1>6 DEF DiscoveryStarts, tagSide, StackFields, Agreed, TagGone
<1>7. CASE CommandFails
  BY <1>0, <1>7 DEF CommandFails, tagSide, StackFields, Agreed, TagGone
<1>8. CASE AbortWaits \/ ConnectNotify \/ VsNotify \/ VsTimer
           \/ \E ok \in BOOLEAN : VsResponse(ok) \/ VsNotification(ok)
  BY <1>8 DEF AbortWaits, ConnectNotify, VsNotify, VsTimer, VsResponse, VsNotification, Agreed, TagGone
<1>9. QED
  BY <1>1, <1>2, <1>3, <1>4, <1>5, <1>6, <1>7, <1>8 DEF StackStep

LEMMA AgreedStep == ASSUME SelectInv, Agreed, [Next]_vars PROVE Agreed'
<1>0. SelectShape /\ DOMAIN stack = StackFields
  BY DEF SelectInv, SelectShape
<1>1. ASSUME NEW k \in Tags, TagArrives(k) PROVE Agreed'
  BY <1>0, <1>1 DEF TagArrives, StackFields, Agreed, TagGone
<1>2. CASE UNCHANGED vars
  BY <1>2 DEF vars, Agreed, TagGone
<1>3. CASE Next
  BY <1>0, <1>1, <1>3, StepKinds, HostAgrees, StackAgrees
<1>4. QED
  BY <1>2, <1>3

(* A thread that waits for the NDEF detection of a tag that is gone has been  *)
(* released, unless a reSelect had the end of the tag ignored: its semaphore  *)
(* is made before it looks at the tag, so that the end of the tag is either   *)
(* seen or posted, and a tag that is gone is one NfcTag takes for gone.       *)
THEOREM CheckCorrect == Spec => []CheckReleased
<1>1. Init => Agreed
  BY DEF Init, Agreed
<1>2. SelectInv /\ Agreed /\ [Next]_vars => Agreed'
  BY AgreedStep
<1>3. WaitInv /\ Agreed => CheckReleased
  BY DEF WaitInv, CheckWaits, CheckReleased, Agreed, At, app
<1>4. QED
  BY WaitInvariant, SelectInvariant, <1>1, <1>2, <1>3, PTL DEF Spec
=============================================================================
