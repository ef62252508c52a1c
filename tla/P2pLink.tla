------------------------------- MODULE P2pLink -------------------------------
(***************************************************************************)
(* The LLCP link manager of Android Beam (P2pLinkManager.java): one object *)
(* whose fields are guarded by its monitor, driven by                      *)
(*   - the UI thread, which handles one message of uiQueue at a time,      *)
(*   - AsyncTasks (ConnectTask, SendTask), which the platform runs one     *)
(*     after the other on a serial executor, off the UI thread,            *)
(*   - the receive servers, which post to the UI thread from their own     *)
(*     threads, and                                                        *)
(*   - binder threads, which switch Beam on and off (enableDisable).       *)
(* A synchronized block is one step.  Between two blocks anything can run. *)
(*                                                                         *)
(* A task is named by its position in tasks.  A client socket is the pair  *)
(* of its kind and of the ConnectTask that opened it.  A delayed message   *)
(* may be delivered at any time: durations are not modelled.               *)
(***************************************************************************)
EXTENDS Naturals, Sequences, FiniteSets

CONSTANTS
    Phones,             \* the kinds of device: a subset of PhoneKinds
    MaxTaps,            \* bound: LLCP activations of the environment
    MaxReceives,        \* bound: messages the remote device sends to our servers
    MaxToggles          \* bound: calls of enableDisable

(* handover: a Bluetooth adapter exists (HandoverManager.isHandoverSupported); *)
(* appliance: there is no SendUi, P2pEventManager confirms by itself.          *)
PhoneKinds == [handover : BOOLEAN, appliance : BOOLEAN]

ASSUME PhonesAssumption == Phones \subseteq PhoneKinds /\ Phones # {}
ASSUME BoundsAssumption ==
    MaxTaps \in Nat /\ MaxReceives \in Nat /\ MaxToggles \in Nat

LinkStates == {"DOWN", "WAITING_PDU", "UP", "DEBOUNCE"}
SendStates == {"NOTHING_TO_SEND", "NEED_CONFIRMATION", "SENDING", "SEND_COMPLETE"}
Kinds      == {"handover", "snep", "npp"}
NoTask     == 0

Callbacks == {"onP2pInRange", "onP2pSendConfirmationRequested",
              "onP2pSendComplete", "onP2pSendDebounce", "onP2pResumeSend",
              "onP2pHandoverNotSupported", "onP2pReceiveComplete", "onP2pOutOfRange"}
Whats     == {"llcpActivated", "llcpFirstPacket", "llcpDeactivated", "connectDone",
              "receive", "handoverNotSupported", "sendComplete"}

VARIABLES
    phone,                 \* which of Phones this is
    mLinkState, mSendState, mIsSendEnabled, mIsReceiveEnabled,
    mMessageToSend, mUrisToSend,   \* whether there is a message, URIs, to send
    mSendFlags,            \* whether FLAG_NDEF_PUSH_NO_CONFIRM is set
    mLlcpConnectDelayed, mLlcpServicesConnected,
    mConnectTask, mSendTask,
    mClient,               \* mHandoverClient, mSnepClient and mNdefPushClient
    tasks,                 \* every AsyncTask ever executed
    executor,              \* the serial executor: its head is the running task
    uiQueue,               \* messages of the UI thread, first in first out
    debounce,              \* how many MSG_DEBOUNCE_TIMEOUT are pending
    ahead,                 \* messages that were queued before the timeout: they go first
    open,                  \* client sockets connected and not closed
    alive,                 \* client sockets whose LLCP link still exists
    rf,                    \* the radio: [up, firstPdu, taps, receives]
    toggles,               \* calls of enableDisable so far
    calls,                 \* listener callbacks of the last step, and their thread
    inRange,               \* what the last range callback told the listener
    session,               \* prepareMessageToSend runs so far: names the message
    flagSession,           \* the session whose application set mSendFlags
    completed,             \* sessions whose message a SendTask took for sent
    received               \* sessions of which the remote device got something

config  == <<phone, mIsSendEnabled, mIsReceiveEnabled, toggles>>
beam    == <<mMessageToSend, mUrisToSend, mSendFlags, session, flagSession>>
sockets == <<mClient, open>>
radio   == <<alive, rf>>
timer   == <<debounce, ahead>>
vars == <<mLinkState, mSendState, config, beam, mLlcpConnectDelayed,
          mLlcpServicesConnected, mConnectTask, mSendTask, sockets, tasks, executor,
          uiQueue, timer, radio, calls, inRange, completed, received>>

HandoverSupported == phone.handover
Appliance == phone.appliance

-----------------------------------------------------------------------------
Message(what, t) == [what |-> what, task |-> t]
Post(what, t) == uiQueue' = Append(uiQueue, Message(what, t))

(* The UI thread takes the first message of its queue. *)
Handle(what) ==
    /\ uiQueue # <<>>
    /\ Head(uiQueue).what = what
    /\ uiQueue' = Tail(uiQueue)

(* The listener callbacks a step makes, in order, and on which thread. *)
Tell(thread, cs) == calls' = [thread |-> thread, made |-> cs]
Silent == Tell("ui", <<>>) /\ UNCHANGED inRange

(* The delayed MSG_DEBOUNCE_TIMEOUT: left while the UI thread goes through   *)
(* the messages queued before it, removed, or (re)started.                   *)
SameTimer ==
    /\ UNCHANGED debounce
    /\ ahead' = IF uiQueue' = uiQueue \/ ahead = 0 THEN ahead ELSE ahead - 1
StopTimer == debounce' = 0 /\ ahead' = 0
(* Mutant: the message is not sent. *)
TimerNotStarted(n) == n > 0 /\ SameTimer
StartTimer(n) == debounce' = n /\ ahead' = Len(uiQueue')

NewTask(kind) ==
    [kind |-> kind, pc |-> "queued", cancelled |-> FALSE, msg |-> FALSE,
     uris |-> FALSE, socks |-> [k \in Kinds |-> NoTask], result |-> FALSE, session |-> 0]

(* Mutant: only a task that has begun is cancelled. *)
CancelBegun(ts, t) ==
    IF t = NoTask \/ ts[t].pc \in {"queued", "done"} THEN ts
    ELSE [ts EXCEPT ![t].cancelled = TRUE]
(* AsyncTask.cancel(true); it has no effect on a finished task. *)
Cancel(ts, t) ==
    IF t = NoTask \/ ts[t].pc = "done" THEN ts
    ELSE [ts EXCEPT ![t].cancelled = TRUE]

(* A finished task keeps nothing but its kind. *)
Finish(ts, t) == [ts EXCEPT ![t] = [NewTask(ts[t].kind) EXCEPT !.pc = "done"]]

SocketsOf(c) == {<<k, c[k]>> : k \in {j \in Kinds : c[j] # NoTask}}
NoClients == [k \in Kinds |-> NoTask]

connectLlcpServices ==
    /\ tasks' = Append(tasks, NewTask("connect"))
    /\ executor' = Append(executor, Len(tasks) + 1)
    /\ mConnectTask' = Len(tasks) + 1

sendNdefMessage(ts) ==
    /\ tasks' = Append(Cancel(ts, mSendTask), NewTask("send"))
    /\ executor' = Append(executor, Len(tasks) + 1)
    /\ mSendTask' = Len(tasks) + 1

noNewTask == UNCHANGED <<tasks, executor, mConnectTask, mSendTask>>

-----------------------------------------------------------------------------
Init ==
    /\ phone \in Phones
    /\ mLinkState = "DOWN" /\ mSendState = "NOTHING_TO_SEND"
    /\ mIsSendEnabled = FALSE /\ mIsReceiveEnabled = FALSE
    /\ mMessageToSend = FALSE /\ mUrisToSend = FALSE /\ mSendFlags = FALSE
    /\ mLlcpConnectDelayed = FALSE /\ mLlcpServicesConnected = FALSE
    /\ mConnectTask = NoTask /\ mSendTask = NoTask
    /\ mClient = NoClients /\ open = {} /\ alive = {}
    /\ tasks = <<>> /\ executor = <<>> /\ uiQueue = <<>> /\ debounce = 0 /\ ahead = 0
    /\ rf = [up |-> FALSE, firstPdu |-> FALSE, taps |-> 0, receives |-> 0]
    /\ toggles = 0
    /\ calls = [thread |-> "ui", made |-> <<>>] /\ inRange = FALSE
    /\ session = 0 /\ flagSession = 0 /\ completed = {} /\ received = {}

-----------------------------------------------------------------------------
(* The environment: the radio, the remote device. *)

RfActivated ==
    /\ ~rf.up /\ rf.taps < MaxTaps
    /\ rf' = [rf EXCEPT !.up = TRUE, !.firstPdu = FALSE, !.taps = @ + 1]
    /\ Post("llcpActivated", NoTask)
    /\ Silent
    /\ noNewTask
    /\ UNCHANGED <<mLinkState, mSendState, config, beam, mLlcpConnectDelayed,
                   mLlcpServicesConnected, sockets, timer, alive, completed, received>>

RfFirstPacket ==
    /\ rf.up /\ ~rf.firstPdu
    /\ rf' = [rf EXCEPT !.firstPdu = TRUE]
    /\ Post("llcpFirstPacket", NoTask)
    /\ Silent
    /\ noNewTask
    /\ UNCHANGED <<mLinkState, mSendState, config, beam, mLlcpConnectDelayed,
                   mLlcpServicesConnected, sockets, timer, alive, completed, received>>

(* The devices move apart: every LLCP connection dies at once, the manager *)
(* learns it later, from its queue.                                        *)
RfDeactivated ==
    /\ rf.up
    /\ rf' = [rf EXCEPT !.up = FALSE]
    /\ alive' = {}
    /\ Post("llcpDeactivated", NoTask)
    /\ Silent
    /\ noNewTask
    /\ UNCHANGED <<mLinkState, mSendState, config, beam, mLlcpConnectDelayed,
                   mLlcpServicesConnected, sockets, timer, completed, received>>

(* A server of ours got a message, or a handover request, from the remote device. *)
onReceive ==
    /\ rf.up /\ mIsReceiveEnabled /\ rf.receives < MaxReceives
    /\ rf' = [rf EXCEPT !.receives = @ + 1]
    /\ Post("receive", NoTask)
    /\ Silent
    /\ noNewTask
    /\ UNCHANGED <<mLinkState, mSendState, config, beam, mLlcpConnectDelayed,
                   mLlcpServicesConnected, sockets, timer, alive, completed, received>>

-----------------------------------------------------------------------------
(* onLlcpActivated *)

somethingToSend == mMessageToSend \/ (mUrisToSend /\ HandoverSupported)

(* What the foreground application offers: nothing; the default message,   *)
(* for which the flags keep their old value; or what its callback returns. *)
prepareMessageToSend ==
    /\ session' = session + 1
    /\ \/ /\ mMessageToSend' = FALSE /\ mUrisToSend' = FALSE
          /\ UNCHANGED <<mSendFlags, flagSession>>
       \/ /\ mIsSendEnabled
          /\ mMessageToSend' = TRUE /\ mUrisToSend' = FALSE
          /\ UNCHANGED <<mSendFlags, flagSession>>
       \/ /\ mIsSendEnabled
          /\ mMessageToSend' \in BOOLEAN /\ mUrisToSend' \in BOOLEAN
          /\ mSendFlags' \in BOOLEAN
          /\ flagSession' = session + 1

ActivatedNothingToSend ==
    /\ ~somethingToSend'
    /\ mLinkState' = "WAITING_PDU" /\ mSendState' = "NOTHING_TO_SEND"
    /\ Tell("ui", <<"onP2pInRange">>)
    /\ noNewTask

(* Mutant: nobody connects. *)
ActivatedUnconnected ==
    /\ somethingToSend' /\ mSendFlags'
    /\ mLinkState' = "UP" /\ mSendState' = "SENDING"
    /\ noNewTask
    /\ Tell("ui", <<"onP2pInRange">>)
(* The application asked not to be confirmed: onP2pSendConfirmed(false). *)
ActivatedNoConfirm ==
    /\ somethingToSend' /\ mSendFlags'
    /\ mLinkState' = "UP" /\ mSendState' = "SENDING"
    /\ connectLlcpServices /\ UNCHANGED mSendTask
    /\ Tell("ui", <<"onP2pInRange">>)

(* An appliance confirms inside the callback. *)
ActivatedAsk ==
    /\ somethingToSend' /\ ~mSendFlags'
    /\ Tell("ui", <<"onP2pInRange", "onP2pSendConfirmationRequested">>)
    /\ IF Appliance
       THEN /\ mLinkState' = "UP" /\ mSendState' = "SENDING"
            /\ connectLlcpServices /\ UNCHANGED mSendTask
       ELSE /\ mLinkState' = "WAITING_PDU" /\ mSendState' = "NEED_CONFIRMATION"
            /\ noNewTask

ActivatedFromDown ==
    /\ mLinkState = "DOWN"
    /\ prepareMessageToSend
    /\ ActivatedNothingToSend \/ ActivatedNoConfirm \/ ActivatedAsk
    /\ inRange' = TRUE
    /\ SameTimer

ActivatedFromDebounce ==
    /\ mLinkState = "DEBOUNCE"
    /\ IF mSendState = "SENDING"
       THEN /\ mLinkState' = "UP"
            /\ connectLlcpServices /\ UNCHANGED mSendTask
       ELSE /\ mLinkState' = "WAITING_PDU"
            /\ noNewTask
    /\ StopTimer
    /\ Silent
    /\ UNCHANGED <<mSendState, beam>>

ActivatedAgain ==
    /\ mLinkState \in {"WAITING_PDU", "UP"}
    /\ Silent
    /\ noNewTask
    /\ SameTimer
    /\ UNCHANGED <<mLinkState, mSendState, beam>>

onLlcpActivated ==
    /\ Handle("llcpActivated")
    /\ UNCHANGED config
    /\ mLlcpConnectDelayed' = FALSE
    /\ ActivatedFromDown \/ ActivatedFromDebounce \/ ActivatedAgain
    /\ UNCHANGED <<mLlcpServicesConnected, sockets, radio, completed, received>>

(* quick: the packet came within LINK_FIRST_PDU_LIMIT_MS of the activation. *)
onLlcpFirstPacketReceived ==
    /\ Handle("llcpFirstPacket")
    /\ IF mLinkState = "WAITING_PDU"
       THEN /\ mLinkState' = "UP"
            /\ \E quick \in BOOLEAN :
                 IF mSendState = "NOTHING_TO_SEND"
                 THEN noNewTask /\ UNCHANGED mLlcpConnectDelayed
                 ELSE IF quick \/ mSendState = "SENDING"
                      THEN /\ connectLlcpServices
                           /\ UNCHANGED <<mSendTask, mLlcpConnectDelayed>>
                      ELSE mLlcpConnectDelayed' = TRUE /\ noNewTask
       ELSE noNewTask /\ UNCHANGED <<mLinkState, mLlcpConnectDelayed>>
    /\ Silent
    /\ SameTimer
    /\ UNCHANGED <<mSendState, config, beam, mLlcpServicesConnected, sockets,
                   radio, completed, received>>

-----------------------------------------------------------------------------
(* Mutants: a reset that is missing. *)
DisconnectKeepsTask ==
    /\ UNCHANGED mConnectTask
    /\ open' = open \ SocketsOf(mClient) /\ mClient' = NoClients
    /\ mLlcpServicesConnected' = FALSE
DisconnectKeepsSockets ==
    /\ mConnectTask' = NoTask
    /\ UNCHANGED open /\ mClient' = NoClients
    /\ mLlcpServicesConnected' = FALSE
DisconnectKeepsConnected ==
    /\ mConnectTask' = NoTask
    /\ open' = open \ SocketsOf(mClient) /\ mClient' = NoClients
    /\ UNCHANGED mLlcpServicesConnected
(* disconnectLlcpServices: no ConnectTask and no client is left. *)
disconnectLlcpServices ==
    /\ mConnectTask' = NoTask
    /\ open' = open \ SocketsOf(mClient)
    /\ mClient' = NoClients
    /\ mLlcpServicesConnected' = FALSE

(* The body of onLlcpDeactivated, on whichever thread calls it. *)
LinkLost(thread) ==
    IF mLinkState \in {"WAITING_PDU", "UP"}
    THEN /\ mLinkState' = "DEBOUNCE"
         /\ StartTimer(debounce + 1)
         /\ tasks' = Cancel(Cancel(tasks, mSendTask), mConnectTask)
         /\ disconnectLlcpServices
         /\ Tell(thread, IF mSendState = "SENDING" THEN <<"onP2pSendDebounce">> ELSE <<>>)
         /\ UNCHANGED <<executor, mSendTask, inRange>>
    ELSE /\ Silent
         /\ noNewTask
         /\ SameTimer
         /\ UNCHANGED <<mLinkState, mLlcpServicesConnected, sockets>>

onLlcpDeactivated ==
    /\ Handle("llcpDeactivated")
    /\ LinkLost("ui")
    /\ UNCHANGED <<mSendState, config, beam, mLlcpConnectDelayed, radio, completed, received>>

(* Beam is switched on, kept for receiving only, or switched off, by a     *)
(* binder thread or by the task that turns NFC on and off.                 *)
enableDisable ==
    /\ toggles < MaxToggles
    /\ toggles' = toggles + 1
    /\ UNCHANGED <<phone, uiQueue>>
    /\ \E sendEnable, receiveEnable \in BOOLEAN :
         /\ sendEnable => receiveEnable
         /\ mIsSendEnabled' = sendEnable
         /\ mIsReceiveEnabled' = receiveEnable
         /\ IF mIsReceiveEnabled /\ ~receiveEnable
            THEN LinkLost("binder")
            ELSE /\ Silent
                 /\ noNewTask
                 /\ SameTimer
                 /\ UNCHANGED <<mLinkState, mLlcpServicesConnected, sockets>>
    /\ UNCHANGED <<mSendState, beam, mLlcpConnectDelayed, radio, completed, received>>

-----------------------------------------------------------------------------
(* The other messages of the UI thread. *)

(* onP2pSendConfirmed(true): the user touches the screen. *)
onP2pSendConfirmed ==
    /\ mLinkState # "DOWN" /\ mSendState = "NEED_CONFIRMATION"
    /\ UNCHANGED uiQueue
    /\ mSendState' = "SENDING"
    /\ mLinkState' = IF mLinkState = "WAITING_PDU" THEN "UP" ELSE mLinkState
    /\ IF mLinkState = "WAITING_PDU"
       THEN connectLlcpServices /\ UNCHANGED mSendTask
       ELSE IF mLinkState = "UP" /\ mLlcpServicesConnected
       THEN sendNdefMessage(tasks) /\ UNCHANGED mConnectTask
       ELSE IF mLinkState = "UP" /\ mLlcpConnectDelayed
       THEN connectLlcpServices /\ UNCHANGED mSendTask
       ELSE noNewTask
    /\ IF mLinkState = "DEBOUNCE"
       THEN StartTimer(1) /\ Tell("ui", <<"onP2pSendDebounce">>) /\ UNCHANGED inRange
       ELSE UNCHANGED timer /\ Silent
    /\ UNCHANGED <<config, beam, mLlcpConnectDelayed, mLlcpServicesConnected, sockets,
                   radio, completed, received>>

(* ConnectTask.onPostExecute, then onLlcpServicesConnected. A cancelled task *)
(* and one that found no transport change nothing.                          *)
onLlcpServicesConnected ==
    /\ Handle("connectDone")
    /\ LET t == Head(uiQueue).task
           after == Finish(tasks, t)
       IN IF ~tasks[t].cancelled /\ tasks[t].result /\ mLinkState = "UP"
          THEN /\ mLlcpServicesConnected' = TRUE
               /\ IF mSendState = "SENDING"
                  THEN /\ sendNdefMessage(after)
                       /\ UNCHANGED <<mConnectTask, inRange>>
                       /\ Tell("ui", <<"onP2pResumeSend">>)
                  ELSE /\ tasks' = after
                       /\ UNCHANGED <<executor, mConnectTask, mSendTask>>
                       /\ Silent
          ELSE /\ tasks' = after
               /\ UNCHANGED <<executor, mConnectTask, mSendTask, mLlcpServicesConnected>>
               /\ Silent
    /\ SameTimer
    /\ UNCHANGED <<mLinkState, mSendState, config, beam, mLlcpConnectDelayed, sockets,
                   radio, completed, received>>

(* Mutants: the link state is kept; the listener is not told; a send is      *)
(* waited for.                                                              *)
OutOfRangeLinkKept ==
    /\ mSendState' = "NOTHING_TO_SEND" /\ UNCHANGED mLinkState
    /\ mMessageToSend' = FALSE /\ mUrisToSend' = FALSE
    /\ Tell("ui", <<"onP2pOutOfRange">>) /\ inRange' = FALSE
OutOfRangeUntold ==
    /\ mLinkState' = "DOWN" /\ mSendState' = "NOTHING_TO_SEND"
    /\ mMessageToSend' = FALSE /\ mUrisToSend' = FALSE
    /\ Silent
OutOfRangeUnlessSending ==
    IF mSendState = "SENDING"
    THEN Silent /\ UNCHANGED <<mLinkState, mSendState, mMessageToSend, mUrisToSend>>
    ELSE /\ mLinkState' = "DOWN" /\ mSendState' = "NOTHING_TO_SEND"
         /\ mMessageToSend' = FALSE /\ mUrisToSend' = FALSE
         /\ Tell("ui", <<"onP2pOutOfRange">>) /\ inRange' = FALSE
OutOfRange ==
    /\ mLinkState' = "DOWN" /\ mSendState' = "NOTHING_TO_SEND"
    /\ mMessageToSend' = FALSE /\ mUrisToSend' = FALSE
    /\ Tell("ui", <<"onP2pOutOfRange">>) /\ inRange' = FALSE

(* MSG_DEBOUNCE_TIMEOUT: the delayed message comes due.  Mutant: it is not  *)
(* waited for.                                                              *)
TimeoutAnytime == ahead = 0
TimeoutDue == debounce > 0 /\ ahead = 0

DebounceTimeout ==
    /\ TimeoutDue
    /\ debounce' = debounce - 1 /\ UNCHANGED ahead
    /\ IF mLinkState = "DEBOUNCE"
       THEN OutOfRange
       ELSE /\ Silent
            /\ UNCHANGED <<mLinkState, mSendState, mMessageToSend, mUrisToSend>>
    /\ noNewTask
    /\ UNCHANGED <<mSendFlags, session, flagSession, config, mLlcpConnectDelayed,
                   mLlcpServicesConnected, sockets, uiQueue, radio, completed, received>>

(* MSG_RECEIVE_COMPLETE and MSG_RECEIVE_HANDOVER. *)
ReceiveComplete ==
    /\ Handle("receive")
    /\ IF mLinkState = "DOWN"
       THEN Silent /\ UNCHANGED <<mSendState, tasks>>
       ELSE /\ tasks' = IF mSendState = "SENDING" THEN Cancel(tasks, mSendTask) ELSE tasks
            /\ mSendState' = "NOTHING_TO_SEND"
            /\ Tell("ui", <<"onP2pReceiveComplete">>) /\ UNCHANGED inRange
    /\ SameTimer
    /\ UNCHANGED <<mLinkState, config, beam, mLlcpConnectDelayed, mLlcpServicesConnected,
                   mConnectTask, mSendTask, executor, sockets, radio, completed, received>>

(* Mutants: the send state is not looked at; a result that comes while the  *)
(* link is lost is dropped.                                                 *)
SendOverWhenDown == mLinkState = "DOWN"
SendOverUnlessUp == mLinkState # "UP" \/ mSendState # "SENDING"
(* The result of a SendTask comes too late. *)
SendOver == mLinkState = "DOWN" \/ mSendState # "SENDING"

(* MSG_HANDOVER_NOT_SUPPORTED *)
HandoverNotSupported ==
    /\ Handle("handoverNotSupported")
    /\ mSendTask' = NoTask
    /\ IF SendOver
       THEN Silent /\ UNCHANGED mSendState
       ELSE /\ mSendState' = "NOTHING_TO_SEND"
            /\ Tell("ui", <<"onP2pHandoverNotSupported">>) /\ UNCHANGED inRange
    /\ SameTimer
    /\ UNCHANGED <<mLinkState, config, beam, mLlcpConnectDelayed, mLlcpServicesConnected,
                   mConnectTask, tasks, executor, sockets, radio, completed, received>>

(* MSG_SEND_COMPLETE *)
SendComplete ==
    /\ Handle("sendComplete")
    /\ mSendTask' = NoTask
    /\ IF SendOver
       THEN Silent /\ SameTimer /\ UNCHANGED mSendState
       ELSE /\ mSendState' = "SEND_COMPLETE"
            /\ StopTimer
            /\ Tell("ui", <<"onP2pSendComplete">>) /\ UNCHANGED inRange
    /\ UNCHANGED <<mLinkState, config, beam, mLlcpConnectDelayed, mLlcpServicesConnected,
                   mConnectTask, tasks, executor, sockets, radio, completed, received>>

-----------------------------------------------------------------------------
(* The tasks.  Only the head of the executor runs. *)

Running(t, kind, pc) ==
    /\ executor # <<>> /\ t = Head(executor)
    /\ tasks[t].kind = kind /\ tasks[t].pc = pc

(* What no step of a task touches. *)
link == <<mLinkState, mSendState, config, beam, mLlcpConnectDelayed,
          mLlcpServicesConnected, mConnectTask, mSendTask, timer>>

(* A task cancelled while it waits for its turn never runs. *)
TaskStart(t) ==
    /\ executor # <<>> /\ t = Head(executor) /\ tasks[t].pc = "queued"
    /\ IF tasks[t].cancelled
       THEN tasks' = Finish(tasks, t) /\ executor' = Tail(executor)
       ELSE tasks' = [tasks EXCEPT ![t].pc = "running"] /\ UNCHANGED executor
    /\ Silent
    /\ UNCHANGED <<link, sockets, uiQueue, radio, completed, received>>

(* The first synchronized block of ConnectTask. *)
ConnectReadNeeds(t) ==
    /\ Running(t, "connect", "running")
    /\ tasks' = [tasks EXCEPT ![t].pc = "connecting", ![t].msg = mMessageToSend,
                              ![t].uris = mUrisToSend]
    /\ Silent
    /\ UNCHANGED <<link, executor, sockets, uiQueue, radio, completed, received>>

(* The transports a ConnectTask may end up with: handover for URIs; SNEP   *)
(* for a message or when handover failed; NPP only when all else failed.   *)
Transports(msg, uris) ==
    {ks \in SUBSET Kinds :
        /\ "handover" \in ks => uris
        /\ "snep" \in ks => msg \/ (uris /\ "handover" \notin ks)
        /\ "npp" \in ks => ks = {"npp"} /\ (msg \/ uris)}

ConnectTransports(t) ==
    /\ Running(t, "connect", "connecting")
    /\ \E ks \in Transports(tasks[t].msg, tasks[t].uris) :
         /\ ks # {} => rf.up
         /\ open' = open \cup {<<k, t>> : k \in ks}
         /\ alive' = alive \cup {<<k, t>> : k \in ks}
         /\ tasks' = [tasks EXCEPT ![t].pc = "connected", ![t].result = ks # {},
                                   ![t].socks = [k \in Kinds |-> IF k \in ks THEN t ELSE NoTask]]
    /\ Silent
    /\ UNCHANGED <<link, executor, mClient, uiQueue, rf, completed, received>>

(* The last synchronized block of ConnectTask; then the result is posted. *)
ConnectPublish(t) ==
    /\ Running(t, "connect", "connected")
    /\ IF tasks[t].cancelled
       THEN /\ open' = open \ SocketsOf(tasks[t].socks)
            /\ tasks' = [tasks EXCEPT ![t].pc = "posted", ![t].socks = NoClients,
                                      ![t].result = FALSE]
            /\ UNCHANGED mClient
       ELSE /\ mClient' = tasks[t].socks
            /\ tasks' = [tasks EXCEPT ![t].pc = "posted", ![t].socks = NoClients]
            /\ UNCHANGED open
    /\ Post("connectDone", t)
    /\ executor' = Tail(executor)
    /\ Silent
    /\ UNCHANGED <<link, radio, completed, received>>

(* SendTask copies what it needs, or gives up. *)
SendSnapshot(t) ==
    /\ Running(t, "send", "running")
    /\ IF mLinkState # "UP" \/ mSendState # "SENDING"
       THEN tasks' = Finish(tasks, t) /\ executor' = Tail(executor)
       ELSE /\ tasks' = [tasks EXCEPT ![t].pc = IF mUrisToSend THEN "handover" ELSE "put",
                                      ![t].msg = mMessageToSend, ![t].uris = mUrisToSend,
                                      ![t].socks = mClient, ![t].session = session]
            /\ UNCHANGED executor
    /\ Silent
    /\ UNCHANGED <<link, sockets, uiQueue, radio, completed, received>>

(* The socket of kind k that task t holds still works. *)
Usable(t, k) ==
    /\ tasks[t].socks[k] # NoTask
    /\ <<k, tasks[t].socks[k]>> \in open \cap alive

(* One of the transports K still works, and what the task sends arrives.    *)
Arrives(t, K) ==
    /\ \E k \in K : Usable(t, k)
    /\ received' = received \cup {tasks[t].session}

(* It arrives, or it does not: the task, which gets an exception or no      *)
(* response, cannot tell.                                                   *)
NobodyKnows(t, K) == (Arrives(t, K) \/ UNCHANGED received) /\ UNCHANGED completed

Succeeds(t) ==
    /\ tasks' = [tasks EXCEPT ![t].pc = "succeeded"]
    /\ completed' = completed \cup {tasks[t].session}

(* doHandover: it succeeds, the remote device does not answer or does not   *)
(* support it, or it throws.  Then the message, if any, is pushed.          *)
HandoverTransports == {"handover", "snep"}
SendHandover(t) ==
    /\ Running(t, "send", "handover")
    /\ \/ /\ HandoverSupported /\ Arrives(t, HandoverTransports)
          /\ Succeeds(t)
          /\ UNCHANGED uiQueue
       \/ /\ NobodyKnows(t, HandoverTransports)
          /\ Post("handoverNotSupported", t)
          /\ tasks' = [tasks EXCEPT ![t].pc = "put"]
       \/ /\ HandoverSupported /\ SocketsOf(tasks[t].socks) # {}
          /\ NobodyKnows(t, HandoverTransports)
          /\ tasks' = [tasks EXCEPT ![t].pc = "put"]
          /\ UNCHANGED uiQueue
    /\ Silent
    /\ UNCHANGED <<link, executor, sockets, radio>>

(* SNEP PUT, then NPP; any of them may fail, a PUT also because its         *)
(* response is lost.                                                        *)
PutTransports == {"snep", "npp"}
SendPut(t) ==
    /\ Running(t, "send", "put")
    /\ \/ /\ tasks[t].msg /\ Arrives(t, PutTransports)
          /\ Succeeds(t)
          /\ UNCHANGED executor
       \/ /\ NobodyKnows(t, IF tasks[t].msg THEN PutTransports ELSE {})
          /\ tasks' = Finish(tasks, t) /\ executor' = Tail(executor)
    /\ Silent
    /\ UNCHANGED <<link, sockets, uiQueue, radio>>

(* onSendComplete *)
SendReport(t) ==
    /\ Running(t, "send", "succeeded")
    /\ Post("sendComplete", t)
    /\ tasks' = Finish(tasks, t) /\ executor' = Tail(executor)
    /\ Silent
    /\ UNCHANGED <<link, sockets, radio, completed, received>>

-----------------------------------------------------------------------------
Environment == RfActivated \/ RfFirstPacket \/ RfDeactivated \/ onReceive \/ enableDisable

UiMessage ==
    \/ onLlcpActivated \/ onLlcpFirstPacketReceived \/ onLlcpDeactivated
    \/ onLlcpServicesConnected \/ ReceiveComplete \/ HandoverNotSupported \/ SendComplete

TaskStep(t) ==
    \/ TaskStart(t)
    \/ ConnectReadNeeds(t) \/ ConnectTransports(t) \/ ConnectPublish(t)
    \/ SendSnapshot(t) \/ SendHandover(t) \/ SendPut(t) \/ SendReport(t)

Background == executor # <<>> /\ TaskStep(Head(executor))

Next ==
    \/ Environment
    \/ UiMessage
    \/ DebounceTimeout
    \/ onP2pSendConfirmed
    \/ Background

(* The UI thread keeps handling its messages, a delayed message comes due, *)
(* and a task ends because each of its native calls returns.  Nothing is   *)
(* assumed of the user, the remote device, the radio or the settings.      *)
Spec == Init /\ [][Next]_vars
FairSpec == Spec /\ WF_vars(UiMessage) /\ WF_vars(DebounceTimeout) /\ WF_vars(Background)

-----------------------------------------------------------------------------
(* Properties. *)

TaskIds == 1 .. Len(tasks)
SocketIds == Kinds \X Nat
TaskRecords ==
    [kind : {"connect", "send"}, pc : {"queued", "running", "connecting", "connected",
        "posted", "handover", "put", "succeeded", "done"}, cancelled : BOOLEAN,
     msg : BOOLEAN, uris : BOOLEAN, socks : [Kinds -> Nat], result : BOOLEAN, session : Nat]

(* Every variable has its type: fields, queues and the ghost variables. *)
TypeOK ==
    /\ phone \in PhoneKinds
    /\ mLinkState \in LinkStates /\ mSendState \in SendStates
    /\ mIsSendEnabled \in BOOLEAN /\ mIsReceiveEnabled \in BOOLEAN
    /\ mMessageToSend \in BOOLEAN /\ mUrisToSend \in BOOLEAN /\ mSendFlags \in BOOLEAN
    /\ mLlcpConnectDelayed \in BOOLEAN /\ mLlcpServicesConnected \in BOOLEAN
    /\ inRange \in BOOLEAN
    /\ mConnectTask \in TaskIds \cup {NoTask} /\ mSendTask \in TaskIds \cup {NoTask}
    /\ mClient \in [Kinds -> Nat]
    /\ tasks \in Seq(TaskRecords)
    /\ executor \in Seq(TaskIds)
    /\ uiQueue \in Seq([what : Whats, task : Nat])
    /\ debounce \in Nat /\ ahead \in Nat
    /\ open \in SUBSET SocketIds /\ alive \in SUBSET SocketIds
    /\ rf \in [up : BOOLEAN, firstPdu : BOOLEAN, taps : Nat, receives : Nat]
    /\ toggles \in Nat /\ session \in Nat /\ flagSession \in Nat
    /\ calls \in [thread : {"ui", "binder"}, made : Seq(Callbacks)]
    /\ completed \in SUBSET Nat /\ received \in SUBSET Nat

(* "onP2pInRange() and onP2pOutOfRange() will always be called alternately. *)
(* All other callbacks will only occur while a P2P device is in range."     *)
(* (P2pEventListener)                                                       *)
ListenerContract ==
    [][\A i \in 1 .. Len(calls'.made) :
          LET c == calls'.made[i] IN
          /\ c = "onP2pInRange" => i = 1 /\ ~inRange /\ inRange'
          /\ c = "onP2pOutOfRange" => inRange /\ ~inRange'
          /\ c \notin {"onP2pInRange", "onP2pOutOfRange"} => inRange']_vars

(* P2pLinkManager implements the abstract P2pListener: whatever the radio,  *)
(* the tasks and the settings do, the listener hears a legal story.         *)
Phase ==
    IF mLinkState = "DOWN" THEN "out"
    ELSE CASE mSendState = "NOTHING_TO_SEND"   -> "idle"
           [] mSendState = "NEED_CONFIRMATION" -> "asking"
           [] mSendState = "SENDING"           -> "sending"
           [] mSendState = "SEND_COMPLETE"     -> "sent"
Listener == INSTANCE P2pListener WITH phase <- Phase, heard <- calls.made
ImplementsListener == Listener!Spec

(* At most one debounce timeout is pending, and only while debouncing: none *)
(* outlives the debouncing it was started for and cuts a later one short.   *)
DebounceTimerOwned == debounce <= IF mLinkState = "DEBOUNCE" THEN 1 ELSE 0

(* Nothing but a re-tap, the timeout itself or a send that completed takes  *)
(* the timeout away, and no debouncing starts without one.                  *)
DebounceTimerKept ==
    [][mLinkState' = "DEBOUNCE" /\ (mLinkState = "DEBOUNCE" => debounce = 1)
          => debounce' = 1 \/ calls'.made = <<"onP2pSendComplete">>]_vars

(* The listener is in range exactly while the link is not down. *)
RangeMatchesLink == inRange <=> mLinkState # "DOWN"

(* No client socket leaks: each open one is a field of the manager or still *)
(* in the hands of the ConnectTask that opened it, which will publish or    *)
(* close it ("Once assigned, these are the responsibility of the code on    *)
(* the UI thread to release").                                              *)
NoSocketLeak ==
    \A s \in open :
        \/ s \in SocketsOf(mClient)
        \/ tasks[s[2]].pc = "connected" /\ s \in SocketsOf(tasks[s[2]].socks)

(* A ConnectTask is started only when no reference to an earlier one is     *)
(* left: the error "Still had a reference to mConnectTask!" never happens.  *)
NoConnectOverlap ==
    [][mConnectTask' # mConnectTask /\ mConnectTask' # NoTask => mConnectTask = NoTask]_vars

(* Once a link loss is handled the manager holds no client and no task that *)
(* could publish one: every ConnectTask alive is cancelled.                 *)
LinkLossReleasesClients ==
    mLinkState \in {"DOWN", "DEBOUNCE"} =>
        /\ mClient = NoClients /\ ~mLlcpServicesConnected
        /\ \A t \in TaskIds :
              tasks[t].kind = "connect" /\ tasks[t].pc # "done" => tasks[t].cancelled

(* Client sockets are neither lost by the tasks nor kept after a link loss. *)
ClientsReleased == NoSocketLeak /\ LinkLossReleasesClients

(* "We know either is requested - otherwise this task wouldn't have been    *)
(* started": a ConnectTask not cancelled reads needs that are there.        *)
NeedsKnown ==
    \A t \in TaskIds :
        tasks[t].kind = "connect" /\ tasks[t].pc = "running" /\ ~tasks[t].cancelled
            => mMessageToSend \/ mUrisToSend

(* A message that a SendTask took for sent is not sent again: not while its *)
(* end is reported, and not when the link is lost and found in between.  A  *)
(* send that failed is tried again after a debounce, rightly or wrongly.    *)
CompletedNotResent ==
    \A t \in TaskIds :
        tasks[t].pc \in {"handover", "put"} => tasks[t].session \notin completed

(* A confirmed send does not get lost between the confirmation, the first   *)
(* packet and the ConnectTask: while the link stays up the services end up  *)
(* connected, or the ConnectTask has found no transport.                    *)
ConnectFailed == mConnectTask # NoTask /\ tasks[mConnectTask].pc = "done" /\ mClient = NoClients
ConfirmedSendConnects ==
    mLinkState = "UP" /\ mSendState = "SENDING" /\ ~mLlcpServicesConnected
        ~> mLlcpServicesConnected \/ mLinkState # "UP" \/ mSendState # "SENDING" \/ ConnectFailed

(* A broken link is debounced: unless the send completed, the link is soon  *)
(* back or declared out of range.                                           *)
DebounceEnds ==
    debounce > 0 ~> mLinkState # "DEBOUNCE" \/ mSendState = "SEND_COMPLETE"

-----------------------------------------------------------------------------
(* What the documentation says and the code does not do. *)

(* "We'll start a debounce timer for the user to get the devices back       *)
(* together": the timer ends the debouncing whatever else happens.          *)
DebounceAlwaysEnds == mLinkState = "DEBOUNCE" ~> mLinkState # "DEBOUNCE"

(* "Called to indicate a send was successful": the send is one of the       *)
(* message that is in the hands of the manager.                             *)
SuccessIsOfThisMessage ==
    [][calls'.made = <<"onP2pSendComplete">> => session \in completed]_vars

(* "Even if the link drops and returns the user does not know": what the    *)
(* remote device has got already does not go out once more.                 *)
NeverSentTwice ==
    [][\A t \in TaskIds :
          tasks[t].pc = "running" /\ tasks'[t].pc \in {"handover", "put"}
              => session \notin received]_vars

(* "All callbacks are made from the UI thread." *)
CallbacksOnUiThread == calls.made # <<>> => calls.thread = "ui"

(* "Called when a NDEF payload is prepared to send, and confirmation is     *)
(* required": only the application that made the message can waive it.      *)
WaivedByThisMessage ==
    [][session' # session /\ mSendState' = "SENDING" /\ ~Appliance
          => flagSession' = session']_vars
=============================================================================
