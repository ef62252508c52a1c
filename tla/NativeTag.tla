------------------------------ MODULE NativeTag ------------------------------
(***************************************************************************)
(* Operations on the active tag: nci/jni/NativeNfcTag.cpp with the tag     *)
(* events of nfaConnectionCallback (NativeNfcManager.cpp).  Three threads  *)
(* meet here.  The "app" thread makes one JNI call at a time (the service  *)
(* locks per tag) and sleeps inside it until the stack answers.  The       *)
(* "timer" thread switches back to ISO-DEP 1.5 s after a raw transceive.   *)
(* The task of the stack runs the callbacks that wake them.                *)
(*                                                                         *)
(* The stack is external: it answers a request of the active tag once, and *)
(* a request made with no active tag never.  Its calls may also fail at    *)
(* once.  The build is the one for the NXP PN547.  A thread asleep on a    *)
(* SyncEvent is a pc with a flag "woken"; a semaphore is a member of       *)
(* "posted".  What a call only uses itself is in the record "call".        *)
(***************************************************************************)
EXTENDS Integers, FiniteSets

CONSTANTS
    Tags,       \* the kinds of tags that come into the field
    MaxTags,    \* bound: how many come
    MaxCalls,   \* bound: how many JNI calls are made
    None

Kinds == {"ISO_DEP", "ISO_DEP_B", "T1T", "T2T", "T3BT", "MIFARE", "KOVIO"}
\* ISO_DEP_B: technology B, or technology A with a random uid
IsoDep(k) == k \in {"ISO_DEP", "ISO_DEP_B"}
DefaultInterface(k) ==
    IF IsoDep(k) THEN "ISO_DEP" ELSE IF k = "MIFARE" THEN "MIFARE" ELSE "FRAME"

Threads == {"app", "timer"}
Interfaces == {"ISO_DEP", "FRAME", "MIFARE"}

ASSUME NativeTagAssumption ==
    /\ Tags \subseteq Kinds /\ MaxTags \in Nat /\ MaxCalls \in Nat
    /\ None \notin Kinds \cup Threads \cup Interfaces
           \cup {"connect", "abort", "ntf", "sleep", "idle", "stop", "start"}

Kept == {"write", "check"}
Sems == Kept \cup {"presence", "readonly", "format"}
Requests == Sems \cup {"read", "raw"}

VARIABLES
    stack,      \* the field, and the request and the RF command under way;
                \* "missed" is a ghost: the last tag left unnoticed
    vs,         \* the vendor's presence check: command, answer, timer
    nfa,        \* what is left to do of the event the stack's task handles
    nfcTag,     \* NfcTag: the activation, mTechLibNfcTypes[0] as "proto"
    iface,      \* the RF interface, its mutex and timer
    resel,      \* the flags of reSelect
    thread,     \* where each thread is
    call,       \* the JNI call that runs
    waiting,    \* the ...WaitingForComplete flags
    value,      \* sWriteOk and sCheckNdefStatus, which outlive a call
    doReconnectFlag,
    count       \* the tags and the calls so far, for the bounds

vars == <<count, stack, vs, nfa, nfcTag, iface, resel, thread, call, waiting, value, doReconnectFlag>>
tagSide == <<vs, nfa, nfcTag>>
flags == <<waiting, value, doReconnectFlag>>

\* want, needed, after: the arguments of reSelect and where to go on after it.
\* answer: sFormatOk, sIsTagPresent and their like, which no later call reads.
\* told is a ghost: the stack has answered this call with OK.
NoCall == [op |-> None, want |-> "ISO_DEP", needed |-> TRUE, after |-> "return",
           posted |-> {}, answer |-> "FAILED", told |-> FALSE]
NoReSelect == [gIsTagDeactivating |-> FALSE, gIsSelectingRfInterface |-> FALSE,
               sConnectWaitingForComplete |-> FALSE, reconnectState |-> FALSE]

Init ==
    /\ stack = [rf |-> "discovery", tag |-> None, intf |-> "FRAME", req |-> None, cmd |-> None,
                missed |-> FALSE]
    /\ vs = [cmd |-> FALSE, ntf |-> FALSE, sVSCRsp |-> FALSE, sIsTagInField |-> FALSE,
             timer |-> FALSE]
    /\ nfa = None
    /\ nfcTag = [state |-> "Idle", mIsActivated |-> FALSE, proto |-> None, timedOut |-> FALSE]
    /\ iface = [sCurrentRfInterface |-> "ISO_DEP", sNeedToSwitchRf |-> FALSE,
                sSwitchBackTimer |-> FALSE, sRfInterfaceMutex |-> None]
    /\ resel = [flags |-> NoReSelect, sConnectOk |-> FALSE, cashbee |-> FALSE]
    /\ thread = [t \in Threads |-> [pc |-> "idle", woken |-> FALSE]]
    /\ call = NoCall
    /\ waiting = {}
    /\ value = [write |-> "FAILED", check |-> "OK"]
    /\ doReconnectFlag = FALSE
    /\ count = [tags |-> 0, calls |-> 0]

-----------------------------------------------------------------------------
(* The JNI calls begin, return and ask the stack *)

At(t, l) == thread[t].pc = l
Go(t, l) == thread' = [thread EXCEPT ![t] = [pc |-> l, woken |-> FALSE]]

Active == nfcTag.state = "Active"
Call(o) == At("app", "idle") /\ call' = [NoCall EXCEPT !.op = o]
Finish == Go("app", "idle") /\ call' = NoCall
AtOnce == At("app", "idle") /\ UNCHANGED <<thread, call>>

\* A request of the NFA_Rw or EXTNS_Mfc kind that the stack accepts.
Request(r) == stack' = IF stack.rf = "active" THEN [stack EXCEPT !.req = r] ELSE stack
\* NFA_Deactivate, NFA_Select and their like: accepted if nothing else runs.
Command(c) == stack.cmd = None /\ stack' = [stack EXCEPT !.cmd = c]

\* Where a thread goes on when reSelect, and its caller in doReconnect or
\* switchRfInterface, has returned.
GoOn(t, ok) ==
    IF t = "timer" THEN Go(t, "idle") /\ UNCHANGED call
    ELSE IF call.after = "return" \/ (call.after = "send" /\ ~ok) THEN Finish
    ELSE Go(t, call.after) /\ call' = [call EXCEPT !.want = "ISO_DEP", !.needed = TRUE]

\* The call o runs reSelect for interface i and goes on at next.
CallReSelect(o, i, needed, next) ==
    /\ Go("app", "reselect")
    /\ call' = [(IF o = call.op THEN call ELSE [NoCall EXCEPT !.op = o])
                EXCEPT !.want = i, !.needed = needed, !.after = next]

\* switchRfInterface does nothing in these cases.
NoSwitch(i) == ~IsoDep(nfcTag.proto) \/ i = iface.sCurrentRfInterface

-----------------------------------------------------------------------------
(* reSelect *)

Want(t) == IF t = "app" THEN call.want ELSE "ISO_DEP"
IfNeeded(t) == t = "app" => call.needed
Already(t) == IfNeeded(t) /\ Want(t) = iface.sCurrentRfInterface

LeaveReSelect(t, ok) ==
    IF ok /\ IfNeeded(t) THEN Go(t, "switched") /\ UNCHANGED call ELSE GoOn(t, ok)

\* switchRfInterface assigns once more, without the lock.
switchRfInterface(t) ==
    /\ At(t, "switched")
    /\ iface' = [iface EXCEPT !.sCurrentRfInterface = Want(t)]
    /\ GoOn(t, TRUE)
    /\ UNCHANGED <<stack, tagSide, resel, flags>>


\* Mutant: the lock is not taken.
ReSelectFreeUnlocked(t) == At(t, "reselect")

ReSelectFree(t) == At(t, "reselect") /\ iface.sRfInterfaceMutex = None

\* Already in the requested interface, or the tag timed out.
ReSelectSkip(t) ==
    /\ ReSelectFree(t)
    /\ Already(t) \/ nfcTag.timedOut
    /\ LeaveReSelect(t, Already(t))
    /\ UNCHANGED <<stack, tagSide, iface, resel, flags>>

ReSelectDeactivate(t) ==
    /\ ReSelectFree(t)
    /\ ~Already(t) /\ ~nfcTag.timedOut
    /\ iface' = [iface EXCEPT !.sRfInterfaceMutex = t]
    /\ resel' = [resel EXCEPT !.flags.gIsTagDeactivating = TRUE,
                              !.flags.reconnectState = resel.cashbee]
    /\ \/ Command(IF resel.cashbee THEN "stop" ELSE "sleep") /\ Go(t, "asleep")
       \/ stack' = stack /\ Go(t, "failed")
    /\ UNCHANGED <<tagSide, call, flags>>

(* Notified or after 1000 ms: the tag has to sleep by now.  A tag that went *)
(* to idle instead is taken for one that can only be discovered anew.       *)
ReSelectAsleep(t) ==
    /\ At(t, "asleep")
    /\ LET cashbee == resel.cashbee \/ nfcTag.state = "Idle"
       IN  IF ~cashbee /\ nfcTag.state # "Sleep"
           THEN Go(t, "failed") /\ UNCHANGED resel
           ELSE /\ resel' = [resel EXCEPT !.cashbee = cashbee,
                                          !.flags.gIsTagDeactivating = FALSE,
                                          !.flags.reconnectState = resel.flags.reconnectState /\ ~cashbee]
                /\ Go(t, "select")
    /\ UNCHANGED <<stack, tagSide, iface, call, flags>>

\* The guard of sReconnectEvent is taken, and held until the wait.
ReSelectSelect(t) ==
    /\ At(t, "select")
    /\ resel' = [resel EXCEPT !.flags.gIsSelectingRfInterface = TRUE,
                              !.flags.sConnectWaitingForComplete = TRUE,
                              !.flags.reconnectState = resel.flags.reconnectState \/ resel.cashbee]
    /\ \/ Command(IF resel.cashbee THEN "start" ELSE Want(t)) /\ Go(t, "selected")
       \/ stack' = stack /\ Go(t, "failed")
    /\ UNCHANGED <<tagSide, iface, call, flags>>

ReSelectWait(t) ==
    /\ At(t, "selected")
    /\ resel' = [resel EXCEPT !.sConnectOk = FALSE]
    /\ Go(t, "selecting")
    /\ UNCHANGED <<stack, tagSide, iface, call, flags>>

\* Mutant: any notification will do.
SelectOkUnchecked == TRUE

\* What reSelect makes of the notification: the tag is active and said so.
SelectOk == Active /\ resel.sConnectOk

ReSelectDone(t) ==
    /\ At(t, "selecting") /\ thread[t].woken
    /\ nfcTag' = [nfcTag EXCEPT !.proto = IF Active /\ resel.cashbee THEN "ISO_DEP" ELSE @]
    /\ iface' = [iface EXCEPT !.sRfInterfaceMutex = None,
                              !.sCurrentRfInterface = IF SelectOk THEN Want(t) ELSE @]
    /\ resel' = [resel EXCEPT !.flags = NoReSelect, !.sConnectOk = FALSE]
    /\ LeaveReSelect(t, SelectOk)
    /\ UNCHANGED <<stack, vs, nfa, flags>>

\* A call of the stack failed, the tag is lost, or nothing came for 1000 ms.
ReSelectFailed(t) ==
    /\ At(t, "failed") \/ (At(t, "selecting") /\ ~thread[t].woken)
    /\ iface' = [iface EXCEPT !.sRfInterfaceMutex = None]
    /\ resel' = [resel EXCEPT !.flags = NoReSelect, !.sConnectOk = FALSE]
    /\ LeaveReSelect(t, FALSE)
    /\ UNCHANGED <<stack, tagSide, flags>>

ReSelect(t) ==
    \/ ReSelectSkip(t) \/ ReSelectDeactivate(t) \/ ReSelectAsleep(t) \/ ReSelectSelect(t)
    \/ ReSelectWait(t) \/ ReSelectDone(t) \/ ReSelectFailed(t) \/ switchRfInterface(t)

(* switchBackTimerProc *)
SwitchBack ==
    /\ iface.sSwitchBackTimer /\ At("timer", "idle")
    /\ iface' = [iface EXCEPT !.sSwitchBackTimer = FALSE]
    /\ IF NoSwitch("ISO_DEP") THEN UNCHANGED thread ELSE Go("timer", "reselect")
    /\ UNCHANGED <<stack, tagSide, resel, call, flags>>

-----------------------------------------------------------------------------
(* Connect, reconnect, disconnect *)

\* doConnect: raw is NfcA or NfcB of an ISO-DEP tag, switched to when needed.
DoConnect(raw) ==
    /\ At("app", "idle")
    /\ iface' = [iface EXCEPT !.sNeedToSwitchRf = Active /\ IsoDep(nfcTag.proto) /\ raw]
    /\ IF ~Active \/ raw \/ NoSwitch("ISO_DEP") THEN AtOnce
       ELSE CallReSelect("connect", "ISO_DEP", TRUE, "return")
    /\ UNCHANGED <<stack, tagSide, resel, flags>>

\* doReconnect as a call of its own, or inside another one that goes on at next.
Reconnect(o, next) ==
    IF ~Active \/ nfcTag.proto \notin {"ISO_DEP", "ISO_DEP_B", "T2T", "MIFARE"}
    THEN IF next = "return" THEN AtOnce
         ELSE Go("app", next) /\ call' = IF o = call.op THEN call ELSE [NoCall EXCEPT !.op = o]
    ELSE IF nfcTag.proto = "ISO_DEP_B" /\ iface.sCurrentRfInterface # "FRAME"
    THEN /\ Go("app", "vs")
         /\ call' = [(IF o = call.op THEN call ELSE [NoCall EXCEPT !.op = o]) EXCEPT !.after = next]
    ELSE CallReSelect(o, DefaultInterface(nfcTag.proto), FALSE, next)

DoReconnect ==
    /\ At("app", "idle")
    /\ Reconnect("reconnect", "return")
    /\ UNCHANGED <<stack, tagSide, iface, resel, flags>>

DoDisconnect ==
    /\ AtOnce
    /\ \/ Active /\ Command("idle")
       \/ stack' = stack
    /\ UNCHANGED <<tagSide, iface, resel, flags>>

-----------------------------------------------------------------------------
(* Transceive *)

\* A MIFARE tag is reconnected before its first transceive.
DoTransceive ==
    /\ At("app", "idle")
    /\ IF nfcTag.proto = "MIFARE" /\ ~doReconnectFlag
       THEN doReconnectFlag' = TRUE /\ Reconnect("transceive", "start")
       ELSE Call("transceive") /\ Go("app", "start") /\ UNCHANGED doReconnectFlag
    /\ UNCHANGED <<stack, tagSide, iface, resel, waiting, value>>

\* The switch to the frame interface is made now; the timer must not undo it.
TransceiveStart ==
    /\ At("app", "start")
    /\ IF ~Active THEN Finish /\ UNCHANGED iface
       ELSE /\ iface' = [iface EXCEPT !.sSwitchBackTimer = FALSE]
            /\ IF iface.sNeedToSwitchRf /\ ~NoSwitch("FRAME")
               THEN CallReSelect("transceive", "FRAME", TRUE, "send")
               ELSE Go("app", "send") /\ UNCHANGED call
    /\ UNCHANGED <<stack, tagSide, resel, flags>>

\* After the raw frame the interface is switched back, later.
EndTransceive ==
    /\ waiting' = waiting \ {"raw"}
    /\ iface' = [iface EXCEPT !.sSwitchBackTimer = @ \/ iface.sNeedToSwitchRf]
    /\ Finish

TransceiveSend ==
    /\ At("app", "send")
    /\ \/ /\ Request("raw") /\ waiting' = waiting \cup {"raw"}
          /\ Go("app", "answer")
          /\ UNCHANGED <<call, iface>>
       \/ EndTransceive /\ UNCHANGED stack
    /\ UNCHANGED <<tagSide, resel, value, doReconnectFlag>>

\* Woken by data, by a lost link, by an abort, or after the timeout; or
\* after an answer of a MIFARE tag and what had to follow it.
TransceiveEnd ==
    /\ At("app", "answered") \/ (At("app", "answer") /\ call.op = "transceive")
    /\ EndTransceive
    /\ UNCHANGED <<stack, tagSide, resel, value, doReconnectFlag>>

\* The answer of a MIFARE tag is an error: the tag is reconnected.
MifareReconnect ==
    /\ At("app", "answer") /\ call.op = "transceive" /\ thread["app"].woken
    /\ Active /\ nfcTag.proto = "MIFARE"
    /\ Reconnect("transceive", "answered")
    /\ UNCHANGED <<stack, tagSide, iface, resel, flags>>

-----------------------------------------------------------------------------
(* NDEF read and write *)

\* Nothing to read, or the request is made and its status not looked at.
DoRead ==
    \/ AtOnce /\ UNCHANGED <<stack, tagSide, iface, resel, flags>>
    \/ /\ Call("read")
       /\ value.check = "OK"
       /\ Request("read") \/ stack' = stack
       /\ Go("app", "read")
       /\ UNCHANGED <<tagSide, iface, resel, flags>>

\* The answer of the stack or an abort.
ReadEnd ==
    /\ At("app", "read") /\ thread["app"].woken
    /\ Finish
    /\ UNCHANGED <<stack, tagSide, iface, resel, flags>>

\* doWrite: a tag without NDEF message is formatted first, if it is capable.
DoWrite ==
    /\ Call("write")
    /\ waiting' = waiting \cup {"write"}
    /\ \/ /\ value.check = "FAILED"
          /\ Request("format") \/ stack' = stack
          /\ Go("app", "formatting")
       \/ Go("app", "write") /\ UNCHANGED stack
    /\ UNCHANGED <<tagSide, iface, resel, value, doReconnectFlag>>

EndWrite == waiting' = waiting \ {"write"} /\ Finish

WriteFormatted ==
    /\ At("app", "formatting") /\ "format" \in call.posted
    /\ IF call.answer = "OK" THEN Go("app", "write") /\ UNCHANGED <<waiting, call>> ELSE EndWrite
    /\ UNCHANGED <<stack, tagSide, iface, resel, value, doReconnectFlag>>

WriteRequest ==
    /\ At("app", "write")
    /\ \/ Request("write") /\ Go("app", "written") /\ UNCHANGED <<waiting, call>>
       \/ EndWrite /\ UNCHANGED stack
    /\ UNCHANGED <<tagSide, iface, resel, value, doReconnectFlag>>

\* Mutant: what an earlier write left in sWriteOk stays.
WriteFlagKept ==
    /\ At("app", "written")
    /\ Go("app", "wait")
    /\ UNCHANGED <<stack, tagSide, iface, resel, call, flags>>

\* sWriteOk is cleared after the request was made.
WriteFlag ==
    /\ At("app", "written")
    /\ value' = [value EXCEPT !.write = "FAILED"]
    /\ Go("app", "wait")
    /\ UNCHANGED <<stack, tagSide, iface, resel, call, waiting, doReconnectFlag>>

-----------------------------------------------------------------------------
(* Format, NDEF check, read-only *)

\* The request for op is made and its semaphore waited for, or it is refused.
AskAndWait ==
    \/ Request(call.op) /\ Go("app", "wait") /\ call' = [call EXCEPT !.posted = {}]
    \/ UNCHANGED stack /\ Finish

\* doNdefFormat: a tag that leaves after this test is not noticed.
DoFormat ==
    /\ At("app", "idle")
    /\ IF ~nfcTag.mIsActivated THEN AtOnce
       ELSE IF nfcTag.proto = "MIFARE" THEN Reconnect("format", "format")
       ELSE Call("format") /\ Go("app", "format")
    /\ UNCHANGED <<stack, tagSide, iface, resel, flags>>

FormatRequest ==
    /\ At("app", "format")
    /\ AskAndWait
    /\ UNCHANGED <<tagSide, iface, resel, flags>>

DoCheckNdef ==
    /\ At("app", "idle")
    /\ doReconnectFlag' = FALSE
    /\ IF nfcTag.proto \in {"T3BT", "KOVIO"} THEN AtOnce
       ELSE IF nfcTag.proto = "MIFARE" THEN Reconnect("check", "check")
       ELSE Call("check") /\ Go("app", "check")
    /\ UNCHANGED <<stack, tagSide, iface, resel, waiting, value>>

\* The semaphore is made before the tag is looked at.
CheckInit ==
    /\ At("app", "check")
    /\ call' = [call EXCEPT !.posted = {}]
    /\ Go("app", "ask")
    /\ UNCHANGED <<stack, tagSide, iface, resel, flags>>

CheckTest ==
    /\ At("app", "ask")
    /\ IF Active THEN Go("app", "detect") /\ UNCHANGED call ELSE Finish
    /\ UNCHANGED <<stack, tagSide, iface, resel, flags>>

\* Mutant: the semaphore is made after the tag was looked at.
CheckDetectInits ==
    /\ At("app", "detect")
    /\ call' = [call EXCEPT !.posted = {}]
    /\ Request("check") /\ waiting' = waiting \cup {"check"} /\ Go("app", "wait")
    /\ UNCHANGED <<tagSide, iface, resel, value, doReconnectFlag>>

CheckDetect ==
    /\ At("app", "detect")
    /\ \/ /\ Request("check") /\ waiting' = waiting \cup {"check"} /\ Go("app", "wait")
          /\ UNCHANGED call
       \/ Finish /\ UNCHANGED <<stack, waiting>>
    /\ UNCHANGED <<tagSide, iface, resel, value, doReconnectFlag>>

DoMakeReadonly ==
    /\ Call("readonly")
    /\ \/ Request("readonly") /\ waiting' = waiting \cup {"readonly"} /\ Go("app", "wait")
       \/ stack' = stack /\ waiting' = waiting \ {"readonly"} /\ Go("app", "leave")
    /\ UNCHANGED <<tagSide, iface, resel, value, doReconnectFlag>>

(* The answer, or the end of the tag, posted the semaphore.  An ISO-DEP tag *)
(* is reconnected after it was formatted.                                   *)
WaitEnd ==
    /\ At("app", "wait") /\ call.op \in call.posted
    /\ waiting' = waiting \ {call.op}
    /\ IF call.op = "format" /\ IsoDep(nfcTag.proto) THEN Go("app", "formatted") /\ UNCHANGED call
       ELSE Finish
    /\ UNCHANGED <<stack, tagSide, iface, resel, value, doReconnectFlag>>

FormatReconnect ==
    /\ At("app", "formatted")
    /\ Reconnect("format", "leave")
    /\ UNCHANGED <<stack, tagSide, iface, resel, flags>>

Leave ==
    /\ At("app", "leave")
    /\ Finish
    /\ UNCHANGED <<stack, tagSide, iface, resel, flags>>

-----------------------------------------------------------------------------
(* Presence check *)

\* What a deactivation does to NfcTag and to the flags of the tag.
ClearTag ==
    /\ nfcTag' = [nfcTag EXCEPT !.state = "Idle", !.mIsActivated = FALSE, !.proto = None]
    /\ resel' = [resel EXCEPT !.cashbee = FALSE]

\* resetPresenceCheck: a tag that is activated or deactivated is present.
PresenceReset == [call EXCEPT !.answer = IF call.op = "presence" THEN "OK" ELSE @]

\* A Kovio tag: handled as if the deactivation had just come.
KovioGone == ClearTag /\ AtOnce /\ UNCHANGED <<stack, waiting>>

\* The raw frame of the B' check, with the wait of a transceive.
CheckT3bt ==
    /\ Call("presence")
    /\ waiting' = waiting \cup {"raw"}
    /\ \/ Request("raw") /\ Go("app", "answer")
       \/ stack' = stack /\ Go("app", "leave")

\* A tag that is being selected is taken to be present.
DoPresenceCheck ==
    /\ At("app", "idle")
    /\ IF nfcTag.proto = "KOVIO" THEN KovioGone
       ELSE /\ UNCHANGED <<nfcTag, resel>>
            /\ IF iface.sRfInterfaceMutex # None \/ ~nfcTag.mIsActivated
               THEN AtOnce /\ UNCHANGED <<stack, waiting>>
               ELSE IF nfcTag.proto = "T3BT" THEN CheckT3bt
               ELSE /\ Call("presence")
                    /\ Go("app", IF IsoDep(nfcTag.proto) THEN "vs" ELSE "presence")
                    /\ UNCHANGED <<stack, waiting>>
    /\ UNCHANGED <<vs, nfa, iface, value, doReconnectFlag>>

PresenceRequest ==
    /\ At("app", "presence")
    /\ AskAndWait
    /\ UNCHANGED <<tagSide, iface, resel, flags>>

\* The notification of an abort counts as an answer here.
T3btEnd ==
    /\ At("app", "answer") /\ call.op = "presence"
    /\ Finish
    /\ UNCHANGED <<stack, tagSide, iface, resel, flags>>

(* The vendor command for ISO-DEP tags, also used to reconnect to some: its *)
(* response, then a notification or the timer of 500 ms.                    *)
VsCommand ==
    /\ At("app", "vs")
    /\ \/ /\ vs' = [vs EXCEPT !.timer = TRUE, !.cmd = TRUE]
          /\ Go("app", "response") /\ UNCHANGED call
       \/ /\ vs' = [vs EXCEPT !.timer = TRUE]
          /\ IF vs.sVSCRsp THEN Go("app", "gap") /\ UNCHANGED call ELSE GoOn("app", FALSE)
    /\ UNCHANGED <<stack, nfa, nfcTag, iface, resel, flags>>

VsResponded ==
    /\ At("app", "response") /\ thread["app"].woken
    /\ IF vs.sVSCRsp THEN Go("app", "gap") /\ UNCHANGED call ELSE GoOn("app", FALSE)
    /\ UNCHANGED <<stack, tagSide, iface, resel, flags>>

VsWait ==
    /\ At("app", "gap")
    /\ Go("app", "notification")
    /\ UNCHANGED <<stack, tagSide, iface, resel, call, flags>>

\* A reconnect to a tag that has left waits for its deactivation.
VsEnd ==
    /\ At("app", "notification") /\ thread["app"].woken
    /\ vs' = [vs EXCEPT !.timer = FALSE, !.sIsTagInField = FALSE]
    /\ \/ /\ call.op # "presence" /\ ~vs.sIsTagInField
          /\ Command("idle") /\ Go("app", "gone") /\ UNCHANGED call
       \/ GoOn("app", vs.sIsTagInField) /\ UNCHANGED stack
    /\ UNCHANGED <<nfa, nfcTag, iface, resel, flags>>

VsGone ==
    /\ At("app", "gone") /\ thread["app"].woken
    /\ GoOn("app", FALSE)
    /\ UNCHANGED <<stack, tagSide, iface, resel, flags>>

-----------------------------------------------------------------------------
(* The callbacks of the stack *)

Asleep(t, labels) == thread[t].pc \in labels
\* The threads of S are notified if they wait at one of the labels.
Wake(S, labels) ==
    thread' = [t \in Threads |->
                [thread[t] EXCEPT !.woken = @ \/ (t \in S /\ Asleep(t, labels))]]

\* doReadCompleted, doWriteStatus, ...: an answer nobody waits for is dropped.
Taken(a) ==
    CASE a = "read" -> At("app", "read")
      [] a \in {"write", "check", "readonly", "raw"} -> a \in waiting
      [] OTHER -> TRUE

\* Mutant: NFC_STATUS_BUSY is passed on.
StatusesBusy(a) == {"OK", "FAILED", "BUSY"}

Statuses(a) == {"OK", "FAILED"} \cup (IF a \in {"check", "raw"} THEN {"TIMEOUT"} ELSE {})

Answer(a, status) ==
    /\ nfa = None /\ stack.rf = "active" /\ stack.req = a
    /\ stack' = [stack EXCEPT !.req = None]
    /\ value' = IF a \in Kept /\ Taken(a) THEN [value EXCEPT ![a] = status] ELSE value
    /\ call' = IF At("app", "idle") THEN call
               ELSE [call EXCEPT !.posted = @ \cup (IF Taken(a) THEN {a} \cap Sems ELSE {}),
                                 !.answer = IF a \in {"format", "read", "presence"} THEN status ELSE @,
                                 !.told = @ \/ (status = "OK" /\ call.op = a)]
    /\ waiting' = waiting \ ({a} \cap {"write", "check", "readonly"})
    /\ Wake({"app"}, IF a = "read" THEN {"read"}
                     ELSE IF a = "raw" /\ "raw" \in waiting THEN {"answer"} ELSE {})
    /\ nfcTag' = [nfcTag EXCEPT !.timedOut = IF a = "check" THEN status = "TIMEOUT" ELSE @]
    /\ UNCHANGED <<vs, nfa, iface, resel, doReconnectFlag>>

\* NFC_STATUS_BUSY for an NDEF check: it is not answered at all.
AnswerBusy ==
    /\ nfa = None /\ stack.rf = "active" /\ stack.req = "check"
    /\ stack' = [stack EXCEPT !.req = None]
    /\ nfcTag' = [nfcTag EXCEPT !.timedOut = FALSE]
    /\ UNCHANGED <<vs, nfa, iface, resel, thread, call, flags>>

\* doConnectStatus: the flags at once, the notification under the guard.
ConnectStatus(ok) ==
    IF resel.flags.sConnectWaitingForComplete
    THEN /\ resel' = [resel EXCEPT !.flags.sConnectWaitingForComplete = FALSE, !.sConnectOk = ok]
         /\ nfa' = "connect"
    ELSE UNCHANGED <<resel, nfa>>

\* NFA_ACTIVATED_EVT, of a tag selected by reSelect or of a new one.
Activated(k) ==
    LET new == ~resel.flags.gIsSelectingRfInterface
    IN  /\ nfcTag' = [nfcTag EXCEPT !.state = "Active", !.mIsActivated = TRUE,
                                    !.proto = IF new THEN k ELSE @]
        /\ call' = IF new THEN PresenceReset ELSE call
        /\ IF new THEN resel' = [resel EXCEPT !.cashbee = FALSE] /\ UNCHANGED nfa
           ELSE ConnectStatus(TRUE)

TagArrives(k) ==
    /\ nfa = None /\ stack.rf = "discovery" /\ stack.cmd = None
    /\ stack' = [stack EXCEPT !.rf = "active", !.tag = k, !.intf = DefaultInterface(k)]
    /\ Activated(k)
    /\ UNCHANGED <<vs, iface, thread, flags>>

\* NFA_DEACTIVATED_EVT to idle or discovery: all of it but the abort.
DeactivatedEvt ==
    IF resel.flags.reconnectState THEN UNCHANGED <<nfa, nfcTag, resel, thread, call>>
    ELSE ClearTag /\ call' = PresenceReset /\ Wake({"app"}, {"gone"}) /\ nfa' = "abort"

\* The tag leaves, or the host has deactivated it, or it cannot sleep.
TagLeaves ==
    /\ nfa = None /\ stack.rf \in {"active", "sleep"} /\ stack.cmd \in {None, "idle", "sleep"}
    /\ stack' = [stack EXCEPT !.rf = "discovery", !.tag = None, !.req = None, !.cmd = None,
                              !.missed = resel.flags.reconnectState]
    /\ DeactivatedEvt
    /\ UNCHANGED <<vs, iface, flags>>

\* nativeNfcTag_abortWaits
AbortWaits ==
    /\ nfa = "abort" /\ \A t \in Threads : ~At(t, "selected")
    /\ nfa' = None
    /\ call' = [call EXCEPT !.posted = (Sems \cap {call.op})
                                       \cup (IF At("app", "formatting") THEN {"format"} ELSE {})]
    /\ Wake(Threads, {"selecting", "read", "answer"})
    /\ UNCHANGED <<stack, vs, nfcTag, iface, resel, flags>>

ConnectNotify ==
    /\ nfa = "connect" /\ \A t \in Threads : ~At(t, "selected")
    /\ nfa' = None
    /\ Wake(Threads, {"selecting"})
    /\ UNCHANGED <<stack, vs, nfcTag, iface, resel, call, flags>>

\* NFA_DEACTIVATED_EVT to sleep; the notification of doDeactivateStatus only
\* ends a wait that ends by itself.
Slept == [nfcTag EXCEPT !.state = "Sleep",
                        !.mIsActivated = @ /\ ~resel.flags.gIsTagDeactivating]

TagSleeps ==
    /\ nfa = None /\ stack.rf = "active" /\ stack.cmd = "sleep"
    /\ stack' = [stack EXCEPT !.rf = "sleep", !.cmd = None, !.req = None]
    /\ nfcTag' = IF resel.flags.reconnectState THEN nfcTag ELSE Slept
    /\ UNCHANGED <<vs, nfa, iface, resel, thread, call, flags>>

\* The selection of a sleeping tag: NFA_ACTIVATED_EVT or an error, which
\* makes the callback deactivate it.
SelectDone(ok) ==
    /\ nfa = None /\ stack.cmd \in {"ISO_DEP", "FRAME", "MIFARE"}
    /\ IF ok
       THEN /\ stack.rf = "sleep"
            /\ stack' = [stack EXCEPT !.rf = "active", !.intf = stack.cmd, !.cmd = None]
            /\ Activated(stack.tag)
       ELSE /\ stack' = [stack EXCEPT !.cmd = "idle"]
            /\ UNCHANGED <<nfcTag, call>>
            /\ IF resel.flags.gIsSelectingRfInterface THEN ConnectStatus(FALSE)
               ELSE UNCHANGED <<resel, nfa>>
    /\ UNCHANGED <<vs, iface, thread, flags>>

\* Discovery stops: NFA_DEACTIVATED_EVT and NFA_RF_DISCOVERY_STOPPED_EVT.
DiscoveryStops ==
    /\ nfa = None /\ stack.cmd = "stop"
    /\ stack' = [stack EXCEPT !.rf = "idle", !.tag = None, !.req = None, !.cmd = None,
                              !.missed = resel.flags.reconnectState]
    /\ IF resel.flags.reconnectState
       THEN nfcTag' = Slept /\ UNCHANGED <<nfa, resel, thread, call>>
       ELSE DeactivatedEvt
    /\ UNCHANGED <<vs, iface, flags>>

DiscoveryStarts ==
    /\ nfa = None /\ stack.cmd = "start"
    /\ stack' = [stack EXCEPT !.rf = IF @ = "idle" THEN "discovery" ELSE @, !.cmd = None]
    /\ UNCHANGED <<tagSide, iface, resel, thread, call, flags>>

\* A command that came too late for the state the stack is in.
CommandFails ==
    /\ nfa = None
    /\ \/ stack.cmd = "sleep" /\ stack.rf # "active"
       \/ stack.cmd = "idle" /\ stack.rf \in {"discovery", "idle"}
    /\ stack' = [stack EXCEPT !.cmd = None]
    /\ UNCHANGED <<tagSide, iface, resel, thread, call, flags>>

(* The callbacks of the vendor command: nfaVSCCallback, nfaVSCNtfCallback   *)
(* with its 100 ms before the notification, and presenceCheckTimerProc.     *)
VsResponse(ok) ==
    /\ nfa = None /\ vs.cmd
    /\ vs' = [vs EXCEPT !.cmd = FALSE, !.sVSCRsp = ok, !.ntf = ok]
    /\ Wake({"app"}, {"response"})
    /\ UNCHANGED <<stack, nfa, nfcTag, iface, resel, call, flags>>

\* Without a callback registered the notification goes nowhere.
VsNotification(inField) ==
    /\ nfa = None /\ vs.ntf
    /\ inField => stack.rf = "active"
    /\ IF Asleep("app", {"response", "gap", "notification"})
       THEN vs' = [vs EXCEPT !.ntf = FALSE, !.sIsTagInField = inField] /\ nfa' = "ntf"
       ELSE vs' = [vs EXCEPT !.ntf = FALSE] /\ nfa' = nfa
    /\ UNCHANGED <<stack, nfcTag, iface, resel, thread, call, flags>>

VsNotify ==
    /\ nfa = "ntf"
    /\ nfa' = None /\ Wake({"app"}, {"notification"})
    /\ UNCHANGED <<stack, vs, nfcTag, iface, resel, call, flags>>

VsTimer ==
    /\ vs.timer
    /\ vs' = [vs EXCEPT !.timer = FALSE, !.sIsTagInField = FALSE]
    /\ Wake({"app"}, {"notification"})
    /\ UNCHANGED <<stack, nfa, nfcTag, iface, resel, call, flags>>

-----------------------------------------------------------------------------
AppStep ==
    \/ TransceiveStart \/ TransceiveSend \/ MifareReconnect \/ TransceiveEnd \/ ReadEnd
    \/ WriteFormatted \/ WriteRequest \/ WriteFlag \/ FormatRequest \/ FormatReconnect
    \/ Leave \/ CheckInit \/ CheckTest \/ CheckDetect \/ WaitEnd
    \/ PresenceRequest \/ T3btEnd \/ VsCommand \/ VsResponded \/ VsWait \/ VsEnd \/ VsGone
    \/ ReSelect("app")

AppCall ==
    \/ \E raw \in BOOLEAN : DoConnect(raw)
    \/ DoReconnect \/ DoDisconnect \/ DoTransceive \/ DoRead \/ DoWrite \/ DoFormat
    \/ DoCheckNdef \/ DoMakeReadonly \/ DoPresenceCheck

StackStep ==
    \/ \E a \in Requests : \E status \in Statuses(a) : Answer(a, status)
    \/ AnswerBusy \/ AbortWaits \/ ConnectNotify \/ TagSleeps
    \/ DiscoveryStops \/ DiscoveryStarts \/ CommandFails
    \/ \E ok \in BOOLEAN : SelectDone(ok) \/ VsResponse(ok) \/ VsNotification(ok)
    \/ VsNotify \/ VsTimer

Next ==
    \/ AppCall /\ count.calls < MaxCalls /\ count' = [count EXCEPT !.calls = @ + 1]
    \/ /\ \E k \in Tags : TagArrives(k)
       /\ count.tags < MaxTags /\ count' = [count EXCEPT !.tags = @ + 1]
    \/ (AppStep \/ ReSelect("timer") \/ SwitchBack \/ StackStep \/ TagLeaves) /\ UNCHANGED count

Spec == Init /\ [][Next]_vars

-----------------------------------------------------------------------------
(* Properties *)

Labels == {"idle", "reselect", "asleep", "select", "selected", "selecting", "failed", "start",
           "send", "answer", "answered", "read", "formatting", "write", "written", "wait", "format",
           "formatted", "leave", "check", "ask", "detect", "presence", "vs", "response", "gap",
           "notification", "gone", "switched"}
AllStatuses == {"OK", "FAILED", "TIMEOUT"}
Inside == {"asleep", "select", "selected", "selecting", "failed"}

(* The shape of the state. *)
TypeOK ==
    /\ stack \in [rf : {"discovery", "active", "sleep", "idle"}, tag : Tags \cup {None},
                  intf : Interfaces, req : Requests \cup {None},
                  cmd : Interfaces \cup {"sleep", "idle", "stop", "start", None},
                  missed : BOOLEAN]
    /\ vs \in [cmd : BOOLEAN, ntf : BOOLEAN, sVSCRsp : BOOLEAN, sIsTagInField : BOOLEAN,
               timer : BOOLEAN]
    /\ nfa \in {None, "connect", "abort", "ntf"}
    /\ nfcTag \in [state : {"Idle", "Sleep", "Active"}, mIsActivated : BOOLEAN,
                   proto : Kinds \cup {None}, timedOut : BOOLEAN]
    /\ iface \in [sCurrentRfInterface : Interfaces, sNeedToSwitchRf : BOOLEAN,
                  sSwitchBackTimer : BOOLEAN, sRfInterfaceMutex : Threads \cup {None}]
    /\ resel \in [flags : [gIsTagDeactivating : BOOLEAN, gIsSelectingRfInterface : BOOLEAN,
                           sConnectWaitingForComplete : BOOLEAN, reconnectState : BOOLEAN],
                  sConnectOk : BOOLEAN, cashbee : BOOLEAN]
    /\ thread \in [Threads -> [pc : Labels, woken : BOOLEAN]]
    /\ call.op \in Sems \cup {"connect", "reconnect", "transceive", "read", None}
    /\ call.want \in Interfaces /\ call.posted \subseteq Sems
    /\ waiting \subseteq Requests /\ value \in [Kept -> AllStatuses]
    /\ doReconnectFlag \in BOOLEAN
    /\ count \in [tags : 0..MaxTags, calls : 0..MaxCalls]

(* reSelect is entered by the caller of a JNI method and by the timer; one  *)
(* of them at a time deactivates and selects.                               *)
MutexOwned == \A t \in Threads : iface.sRfInterfaceMutex = t <=> thread[t].pc \in Inside

(* doWrite tells its caller that the message is on the tag only if the      *)
(* stack has said so during this very call: not for an earlier write, nor   *)
(* for the end of the tag, which posts the same semaphore.                  *)
WriteIsReal ==
    [][At("app", "wait") /\ call.op = "write" /\ thread'["app"].pc = "idle" /\ value.write = "OK"
       => call.told]_vars

TagGone == stack.rf \in {"discovery", "idle"}

(* A thread that waits for the NDEF detection of a tag that is gone, or     *)
(* that NfcTag takes for gone, has been released, although the tag may go   *)
(* at any moment since its check.  A tag is excused whose end the callback  *)
(* ignored: a reSelect, of the check or of the timer, was reconnecting.     *)
CheckReleased ==
    /\ At("app", "wait") /\ call.op = "check" /\ nfa # "abort"
    /\ nfcTag.state = "Idle" \/ (TagGone /\ ~stack.missed)
    => "check" \in call.posted

(* The interface reSelect remembers is one the stack has selected: with an  *)
(* answer late or lost, the frames after it would be sent in the wrong      *)
(* format.  It needs the tag to be the same.  The steps meant are those     *)
(* that release the lock: switchRfInterface assigns once more without it.   *)
InterfaceIsSelected ==
    [][/\ iface'.sCurrentRfInterface # iface.sCurrentRfInterface
       /\ iface.sRfInterfaceMutex # None /\ iface'.sRfInterfaceMutex = None
       /\ count.tags = 1
       => stack.intf = iface'.sCurrentRfInterface]_vars

-----------------------------------------------------------------------------
(* What the documentation says and the code does not do.                    *)

(* "Unblock all thread synchronization objects", when a tag has left the    *)
(* field: no NDEF detection of a tag that is gone is waited for.            *)
GoneTagReleasesCheck ==
    At("app", "wait") /\ call.op = "check" /\ nfa # "abort" /\ TagGone => "check" \in call.posted
=============================================================================
