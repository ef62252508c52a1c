---------------------------- MODULE P2pLinkProofs ----------------------------
(***************************************************************************)
(* Theorems about P2pLink, for every value of its constants and bounds.    *)
(***************************************************************************)
EXTENDS P2pLink, SequenceTheorems, TLAPS

-----------------------------------------------------------------------------
(* The listener's side: which callback is made in which link state.  None  *)
(* of it depends on the tasks or on the queue, so the invariant is small.  *)

ListenerInv ==
    /\ mLinkState \in LinkStates /\ mSendState \in SendStates
    /\ debounce \in Nat
    /\ RangeMatchesLink
    /\ DebounceTimerOwned

(* What one step does to the variables of ListenerInv. *)
listenerVars == <<mLinkState, mSendState, debounce, inRange, beam>>

(* A step of the radio, of the remote device or of a task leaves the link   *)
(* and the listener alone.                                                  *)
LEMMA OutsideIsQuiet ==
    ASSUME RfActivated \/ RfFirstPacket \/ RfDeactivated \/ onReceive \/ Background
    PROVE  UNCHANGED listenerVars /\ calls' = [thread |-> "ui", made |-> <<>>]
<1> USE DEF Silent, Tell, listenerVars, timer
<1>1. CASE RfActivated
  BY <1>1 DEF RfActivated
<1>2. CASE RfFirstPacket
  BY <1>2 DEF RfFirstPacket
<1>3. CASE RfDeactivated
  BY <1>3 DEF RfDeactivated
<1>4. CASE onReceive
  BY <1>4 DEF onReceive
<1>5. CASE Background
  <2> USE DEF link
  <2> DEFINE t == Head(executor)
  <2>1. CASE TaskStart(t)
    BY <2>1 DEF TaskStart
  <2>2. CASE ConnectReadNeeds(t)
    BY <2>2 DEF ConnectReadNeeds
  <2>3. CASE ConnectTransports(t)
    BY <2>3 DEF ConnectTransports
  <2>4. CASE ConnectPublish(t)
    BY <2>4 DEF ConnectPublish
  <2>5. CASE SendSnapshot(t)
    BY <2>5 DEF SendSnapshot
  <2>6. CASE SendHandover(t)
    BY <2>6 DEF SendHandover
  <2>7. CASE SendPut(t)
    BY <2>7 DEF SendPut
  <2>8. CASE SendReport(t)
    BY <2>8 DEF SendReport
  <2>9. QED
    BY <1>5, <2>1, <2>2, <2>3, <2>4, <2>5, <2>6, <2>7, <2>8 DEF Background, TaskStep
<1>6. QED
  BY <1>1, <1>2, <1>3, <1>4, <1>5

(* Every message of the UI thread, and every call of enableDisable, keeps   *)
(* the range and the timer in step with the link.                           *)
LEMMA ListenerInvStep == ListenerInv /\ [Next]_vars => ListenerInv'
<1> SUFFICES ASSUME ListenerInv, [Next]_vars PROVE ListenerInv'
  OBVIOUS
<1> USE DEF ListenerInv, RangeMatchesLink, DebounceTimerOwned, LinkStates, SendStates
<1>1. CASE RfActivated \/ RfFirstPacket \/ RfDeactivated \/ onReceive \/ Background
  BY <1>1, OutsideIsQuiet DEF listenerVars
<1>2. CASE enableDisable
  BY <1>2 DEF enableDisable, LinkLost, StartTimer, SameTimer, Silent, Tell
<1>3. CASE onLlcpActivated
  BY <1>3 DEF onLlcpActivated, ActivatedFromDown, ActivatedFromDebounce, ActivatedAgain,
        ActivatedNothingToSend, ActivatedNoConfirm, ActivatedAsk, StopTimer, SameTimer,
        Silent, Tell
<1>4. CASE onLlcpFirstPacketReceived
  BY <1>4 DEF onLlcpFirstPacketReceived, SameTimer, Silent, Tell
<1>5. CASE onLlcpDeactivated
  BY <1>5 DEF onLlcpDeactivated, LinkLost, StartTimer, SameTimer, Silent, Tell
<1>6. CASE onLlcpServicesConnected
  BY <1>6 DEF onLlcpServicesConnected, SameTimer, Silent, Tell
<1>7. CASE ReceiveComplete \/ HandoverNotSupported \/ SendComplete
  BY <1>7 DEF ReceiveComplete, HandoverNotSupported, SendComplete, SendOver, SameTimer, StopTimer,
        Silent, Tell
<1>8. CASE DebounceTimeout
  BY <1>8 DEF DebounceTimeout, TimeoutDue, OutOfRange, Silent, Tell
<1>9. CASE onP2pSendConfirmed
  BY <1>9 DEF onP2pSendConfirmed, StartTimer, timer, Silent, Tell
<1>10. CASE UNCHANGED vars
  BY <1>10 DEF vars, timer
<1>11. QED
  BY <1>1, <1>2, <1>3, <1>4, <1>5, <1>6, <1>7, <1>8, <1>9, <1>10
     DEF Next, Environment, UiMessage

(* The invariant of the listener's side holds in every behaviour.           *)
THEOREM ListenerInvHolds == Spec => []ListenerInv
<1>1. Init => ListenerInv
  BY DEF Init, ListenerInv, RangeMatchesLink, DebounceTimerOwned, LinkStates, SendStates
<1>2. QED
  BY <1>1, ListenerInvStep, PTL DEF Spec

(* onP2pOutOfRange and onP2pInRange tell where the link is, always.         *)
THEOREM RangeCorrect == Spec => []RangeMatchesLink
<1>1. ListenerInv => RangeMatchesLink
  BY DEF ListenerInv
<1>2. QED
  BY <1>1, ListenerInvHolds, PTL

(* No MSG_DEBOUNCE_TIMEOUT outlives the debouncing it was sent for.         *)
THEOREM TimerCorrect == Spec => []DebounceTimerOwned
<1>1. ListenerInv => DebounceTimerOwned
  BY DEF ListenerInv
<1>2. QED
  BY <1>1, ListenerInvHolds, PTL

-----------------------------------------------------------------------------
(* P2pLinkManager implements P2pListener. *)

(* The first state is the listener's first state.                           *)
LEMMA ListenerInit == Init => Listener!Init
  BY DEF Init, Listener!Init, Phase

(* Every step is a step the listener may see, or a quiet one.               *)
LEMMA ListenerStep == ListenerInv /\ [Next]_vars => [Listener!Next]_(Listener!vars)
<1> SUFFICES ASSUME ListenerInv, [Next]_vars PROVE [Listener!Next]_(Listener!vars)
  OBVIOUS
<1> USE DEF ListenerInv, LinkStates, SendStates, Phase
<1>0. ASSUME UNCHANGED <<mLinkState, mSendState>>, calls'.made = <<>> PROVE Listener!Quiet
  BY <1>0 DEF Listener!Quiet
<1>1. CASE RfActivated \/ RfFirstPacket \/ RfDeactivated \/ onReceive \/ Background
  <2>1. UNCHANGED <<mLinkState, mSendState>> /\ calls'.made = <<>>
    BY <1>1, OutsideIsQuiet DEF listenerVars
  <2>2. QED
    BY <2>1, <1>0 DEF Listener!Next
<1>2. CASE enableDisable \/ onLlcpDeactivated
  <2>1. Listener!Quiet \/ Listener!Hint
    BY <1>2 DEF enableDisable, onLlcpDeactivated, LinkLost, Silent, Tell,
          Listener!Quiet, Listener!Hint
  <2>2. QED
    BY <2>1 DEF Listener!Next
<1>3. CASE onLlcpActivated
  <2>1. CASE ActivatedFromDown
    <3>1. Listener!Appear
      BY <1>3, <2>1 DEF onLlcpActivated, ActivatedFromDown, ActivatedNothingToSend,
            ActivatedNoConfirm, ActivatedAsk, Tell, Listener!Appear
    <3>2. QED
      BY <3>1 DEF Listener!Next
  <2>2. CASE ActivatedFromDebounce \/ ActivatedAgain
    <3>1. Listener!Quiet
      BY <1>3, <2>2 DEF onLlcpActivated, ActivatedFromDebounce, ActivatedAgain, Silent, Tell,
            Listener!Quiet
    <3>2. QED
      BY <3>1 DEF Listener!Next
  <2>3. QED
    BY <1>3, <2>1, <2>2 DEF onLlcpActivated
<1>4. CASE onLlcpFirstPacketReceived
  <2>1. Listener!Quiet
    BY <1>4 DEF onLlcpFirstPacketReceived, Silent, Tell, Listener!Quiet
  <2>2. QED
    BY <2>1 DEF Listener!Next
<1>5. CASE onLlcpServicesConnected
  <2>1. Listener!Quiet \/ Listener!Hint
    BY <1>5 DEF onLlcpServicesConnected, Silent, Tell, Listener!Quiet, Listener!Hint
  <2>2. QED
    BY <2>1 DEF Listener!Next
<1>6. CASE ReceiveComplete \/ HandoverNotSupported \/ SendComplete
  <2>1. Listener!Quiet \/ Listener!Received \/ Listener!NotSupported \/ Listener!Sent
    BY <1>6 DEF ReceiveComplete, HandoverNotSupported, SendComplete, SendOver, Silent, Tell,
          Listener!Quiet, Listener!Received, Listener!NotSupported, Listener!Sent
  <2>2. QED
    BY <2>1 DEF Listener!Next
<1>7. CASE DebounceTimeout
  <2>1. Listener!Quiet \/ Listener!Leave
    BY <1>7 DEF DebounceTimeout, TimeoutDue, OutOfRange, Silent, Tell, Listener!Quiet, Listener!Leave
  <2>2. QED
    BY <2>1 DEF Listener!Next
<1>8. CASE onP2pSendConfirmed
  <2>1. Listener!Confirmed
    BY <1>8 DEF onP2pSendConfirmed, Silent, Tell, Listener!Confirmed
  <2>2. QED
    BY <2>1 DEF Listener!Next
<1>9. CASE UNCHANGED vars
  BY <1>9 DEF vars, Listener!vars
<1>10. QED
  BY <1>1, <1>2, <1>3, <1>4, <1>5, <1>6, <1>7, <1>8, <1>9 DEF Next, Environment, UiMessage

(* Whatever the radio, the tasks and the settings do, a P2pEventListener    *)
(* hears only what P2pListener allows.                                      *)
THEOREM ListenerRefinement == Spec => ImplementsListener
<1>1. QED
  BY ListenerInit, ListenerStep, ListenerInvHolds, PTL
     DEF Spec, ImplementsListener, Listener!Spec

-----------------------------------------------------------------------------
(* Lemmas on the operators that change tasks. *)

(* A new task has the type of a task.                                       *)
LEMMA NewTaskType ==
    ASSUME NEW kind \in {"connect", "send"} PROVE NewTask(kind) \in TaskRecords
  BY DEF NewTask, TaskRecords, NoTask, Kinds

(* Changing one task keeps the sequence, its length and every other task.   *)
LEMMA UpdateTask ==
    ASSUME NEW ts \in Seq(TaskRecords), NEW t, NEW r, t \in 1 .. Len(ts) => r \in TaskRecords
    PROVE  LET new == [ts EXCEPT ![t] = r] IN
           /\ new \in Seq(TaskRecords) /\ Len(new) = Len(ts)
           /\ \A j \in 1 .. Len(ts) : new[j] = IF j = t THEN r ELSE ts[j]
<1>1. CASE t \in 1 .. Len(ts)
  BY <1>1, ExceptSeq
<1>2. CASE t \notin 1 .. Len(ts)
  <2>1. DOMAIN ts = 1 .. Len(ts) /\ ts = [j \in DOMAIN ts |-> ts[j]]
    BY LenProperties
  <2>2. [ts EXCEPT ![t] = r] = ts
    BY <1>2, <2>1
  <2>3. QED
    BY <1>2, <2>2
<1>3. QED
  BY <1>1, <1>2

(* Cancelling changes nothing but the flag of one task.                     *)
LEMMA CancelTask ==
    ASSUME NEW ts \in Seq(TaskRecords), NEW t
    PROVE  /\ Cancel(ts, t) \in Seq(TaskRecords) /\ Len(Cancel(ts, t)) = Len(ts)
           /\ \A j \in 1 .. Len(ts) :
                 /\ Cancel(ts, t)[j].kind = ts[j].kind /\ Cancel(ts, t)[j].pc = ts[j].pc
                 /\ Cancel(ts, t)[j].socks = ts[j].socks
                 /\ ts[j].cancelled => Cancel(ts, t)[j].cancelled
                 /\ j = t /\ t # NoTask /\ ts[j].pc # "done" => Cancel(ts, t)[j].cancelled
                 /\ j # t => Cancel(ts, t)[j] = ts[j]
<1> DEFINE r == [ts[t] EXCEPT !.cancelled = TRUE]
<1>1. CASE t = NoTask \/ ts[t].pc = "done"
  BY <1>1 DEF Cancel
<1>2. CASE ~(t = NoTask \/ ts[t].pc = "done")
  <2>1. Cancel(ts, t) = [ts EXCEPT ![t] = r]
    BY <1>2 DEF Cancel
  <2>2. ASSUME t \in 1 .. Len(ts)
        PROVE  /\ r \in TaskRecords /\ r.kind = ts[t].kind /\ r.pc = ts[t].pc
               /\ r.socks = ts[t].socks /\ r.cancelled
    <3>1. ts[t] \in TaskRecords
      BY <2>2, ElementOfSeq
    <3>2. QED
      BY <3>1 DEF TaskRecords
  <2>3. QED
    BY <2>1, <2>2, UpdateTask
<1>3. QED
  BY <1>1, <1>2

(* Finishing changes one task, which is then done.                          *)
LEMMA FinishTask ==
    ASSUME NEW ts \in Seq(TaskRecords), NEW t
    PROVE  /\ Finish(ts, t) \in Seq(TaskRecords) /\ Len(Finish(ts, t)) = Len(ts)
           /\ \A j \in 1 .. Len(ts) :
                 IF j = t THEN Finish(ts, t)[j].pc = "done" ELSE Finish(ts, t)[j] = ts[j]
<1> DEFINE r == [NewTask(ts[t].kind) EXCEPT !.pc = "done"]
<1>1. Finish(ts, t) = [ts EXCEPT ![t] = r]
  BY DEF Finish
<1>2. ASSUME t \in 1 .. Len(ts) PROVE r \in TaskRecords /\ r.pc = "done"
  <2>1. ts[t] \in TaskRecords
    BY <1>2, ElementOfSeq
  <2>2. ts[t].kind \in {"connect", "send"}
    BY <2>1 DEF TaskRecords
  <2>3. QED
    BY <2>2, NewTaskType DEF NewTask, TaskRecords
<1>3. QED
  BY <1>1, <1>2, UpdateTask

(* Appending a task keeps the others.                                       *)
LEMMA AppendTask ==
    ASSUME NEW ts \in Seq(TaskRecords), NEW kind \in {"connect", "send"}
    PROVE  LET new == Append(ts, NewTask(kind)) IN
           /\ new \in Seq(TaskRecords) /\ Len(new) = Len(ts) + 1
           /\ \A j \in 1 .. Len(ts) : new[j] = ts[j]
           /\ new[Len(ts) + 1] = NewTask(kind)
  BY NewTaskType, AppendProperties

-----------------------------------------------------------------------------
(* The resources: ConnectTasks and client sockets.                          *)

ResourceTypes ==
    /\ mLinkState \in LinkStates /\ mSendState \in SendStates
    /\ tasks \in Seq(TaskRecords) /\ executor \in Seq(TaskIds)
    /\ uiQueue \in Seq([what : Whats, task : Nat])
    /\ mConnectTask \in Nat /\ mClient \in [Kinds -> Nat]

(* Where the link is not up, nothing is connected and nothing connects; and *)
(* a connect that was put off has not been started.                         *)
ConnectOnlyWhenUp ==
    /\ mLinkState # "UP" =>
          mConnectTask = NoTask /\ mClient = NoClients /\ ~mLlcpServicesConnected
    /\ mLinkState = "WAITING_PDU" => ~mLlcpConnectDelayed
    /\ mLinkState = "UP" /\ mLlcpConnectDelayed /\ mSendState = "NEED_CONFIRMATION"
          => mConnectTask = NoTask

(* The only ConnectTask that may still publish is the one referred to.      *)
OneLiveConnect ==
    \A t \in TaskIds :
        tasks[t].kind = "connect" /\ tasks[t].pc # "done" /\ ~tasks[t].cancelled
            => t = mConnectTask

(* The clients were published by the ConnectTask referred to.               *)
ClientsPublished ==
    mClient # NoClients =>
        mConnectTask \in TaskIds /\ tasks[mConnectTask].pc \in {"posted", "done"}

(* A result is in the queue only after its task has ended.                  *)
ResultAfterTask ==
    \A i \in 1 .. Len(uiQueue) :
        uiQueue[i].what = "connectDone" =>
            uiQueue[i].task \in TaskIds /\ tasks[uiQueue[i].task].pc \in {"posted", "done"}

OpenOwned ==
    \A s \in open :
        \/ s \in SocketsOf(mClient)
        \/ /\ s[2] \in TaskIds /\ tasks[s[2]].pc = "connected"
           /\ s \in SocketsOf(tasks[s[2]].socks)

ResourceInv ==
    /\ ResourceTypes
    /\ ConnectOnlyWhenUp
    /\ OneLiveConnect
    /\ ClientsPublished
    /\ ResultAfterTask
    /\ OpenOwned

(* What the steps that are not steps of a task do to the tasks: they may    *)
(* cancel them, take note of a posted result, and add one.                  *)
KeepsTasks ==
    /\ tasks' \in Seq(TaskRecords) /\ Len(tasks') \in {Len(tasks), Len(tasks) + 1}
    /\ \A j \in TaskIds :
          \/ tasks[j].pc \in {"posted", "done"} /\ tasks'[j].pc = "done"
          \/ /\ tasks'[j].kind = tasks[j].kind /\ tasks'[j].pc = tasks[j].pc
             /\ tasks'[j].socks = tasks[j].socks
             /\ tasks[j].cancelled => tasks'[j].cancelled
    /\ Len(tasks') = Len(tasks) + 1 =>
          /\ tasks'[Len(tasks) + 1].pc = "queued"
          /\ tasks'[Len(tasks) + 1].kind = "connect" => mConnectTask' = Len(tasks) + 1

QueueMoves ==
    \/ UNCHANGED uiQueue
    \/ uiQueue # <<>> /\ uiQueue' = Tail(uiQueue)
    \/ \E m \in [what : Whats, task : Nat] :
          /\ uiQueue' = Append(uiQueue, m)
          /\ m.what = "connectDone" =>
                m.task \in TaskIds' /\ tasks'[m.task].pc \in {"posted", "done"}

ConnectMoves ==
    \/ UNCHANGED <<mConnectTask, mClient, open>>
    \/ /\ mConnectTask' = NoTask /\ mClient' = NoClients
       /\ open' = open \ SocketsOf(mClient)
       /\ mConnectTask \in TaskIds =>
             tasks'[mConnectTask].cancelled \/ tasks'[mConnectTask].pc = "done"
    \/ /\ mConnectTask = NoTask /\ mConnectTask' = Len(tasks) + 1
       /\ Len(tasks') = Len(tasks) + 1
       /\ UNCHANGED <<mClient, open>>

ExecutorMoves ==
    \/ UNCHANGED executor
    \/ executor' = Append(executor, Len(tasks) + 1) /\ Len(tasks') = Len(tasks) + 1

(* The queue keeps its type, and results still follow their tasks.          *)
LEMMA QueueFrame ==
    ASSUME uiQueue \in Seq([what : Whats, task : Nat]), ResultAfterTask, QueueMoves,
           TaskIds \subseteq TaskIds',
           \A j \in TaskIds : tasks[j].pc \in {"posted", "done"}
                                 => tasks'[j].pc \in {"posted", "done"}
    PROVE  uiQueue' \in Seq([what : Whats, task : Nat]) /\ ResultAfterTask'
<1> DEFINE S == [what : Whats, task : Nat]
           Ended(m) == m.what = "connectDone" =>
                         m.task \in TaskIds' /\ tasks'[m.task].pc \in {"posted", "done"}
<1>1. uiQueue \in Seq(S) /\ Len(uiQueue) \in Nat
  BY LenProperties
<1>2. \A i \in 1 .. Len(uiQueue) : Ended(uiQueue[i])
  BY DEF ResultAfterTask
<1>3. SUFFICES uiQueue' \in Seq(S) /\ \A i \in 1 .. Len(uiQueue') : Ended(uiQueue'[i])
  BY DEF ResultAfterTask
<1>4. \/ UNCHANGED uiQueue
      \/ uiQueue # <<>> /\ uiQueue' = Tail(uiQueue)
      \/ \E m \in S : uiQueue' = Append(uiQueue, m) /\ Ended(m)
  BY DEF QueueMoves
<1> HIDE DEF S, Ended
<1>5. CASE UNCHANGED uiQueue
  BY <1>1, <1>2, <1>5
<1>6. CASE uiQueue # <<>> /\ uiQueue' = Tail(uiQueue)
  <2>1. /\ uiQueue' \in Seq(S) /\ Len(uiQueue') = Len(uiQueue) - 1
        /\ \A i \in 1 .. Len(uiQueue') : uiQueue'[i] = uiQueue[i + 1]
    BY <1>1, <1>6, HeadTailProperties
  <2>2. QED
    BY <1>1, <1>2, <2>1
<1>7. CASE \E m \in S : uiQueue' = Append(uiQueue, m) /\ Ended(m)
  <2>1. PICK m \in S : uiQueue' = Append(uiQueue, m) /\ Ended(m)
    BY <1>7
  <2>2. /\ uiQueue' \in Seq(S) /\ Len(uiQueue') = Len(uiQueue) + 1
        /\ uiQueue'[Len(uiQueue) + 1] = m
        /\ \A i \in 1 .. Len(uiQueue) : uiQueue'[i] = uiQueue[i]
    BY <1>1, <2>1, AppendProperties
  <2>3. ASSUME NEW i \in 1 .. Len(uiQueue') PROVE Ended(uiQueue'[i])
    <3>1. i \in 1 .. Len(uiQueue) \/ i = Len(uiQueue) + 1
      BY <1>1, <2>2
    <3>2. QED
      BY <1>2, <2>1, <2>2, <3>1
  <2>4. QED
    BY <2>2, <2>3
<1>8. QED
  BY <1>4, <1>5, <1>6, <1>7

(* Such a step preserves the invariant, given what it does to the link.     *)
LEMMA ResourceFrame ==
    ASSUME ResourceInv, KeepsTasks, QueueMoves, ConnectMoves, ExecutorMoves,
           ConnectOnlyWhenUp', mLinkState' \in LinkStates, mSendState' \in SendStates
    PROVE  ResourceInv' /\ ConnectMoves
<1> USE DEF ResourceInv
<1>0. Len(tasks) \in Nat /\ Len(tasks') \in Nat
  BY LenProperties DEF ResourceTypes, KeepsTasks
<1>4. uiQueue' \in Seq([what : Whats, task : Nat]) /\ ResultAfterTask'
  <2>1. TaskIds \subseteq TaskIds'
    BY <1>0 DEF TaskIds, KeepsTasks
  <2>2. QED
    BY <2>1, QueueFrame DEF ResourceTypes, KeepsTasks
<1>1. ResourceTypes'
  <2>1. mConnectTask' \in Nat /\ mClient' \in [Kinds -> Nat]
    BY <1>0 DEF ConnectMoves, ResourceTypes, NoClients, NoTask
  <2>2. executor' \in Seq(TaskIds)'
    <3>1. TaskIds \subseteq TaskIds'
      BY <1>0 DEF TaskIds, KeepsTasks
    <3>2. executor \in Seq(TaskIds')
      BY <3>1, SeqMonotonic DEF ResourceTypes
    <3>3. CASE UNCHANGED executor
      BY <3>2, <3>3
    <3>4. CASE executor' = Append(executor, Len(tasks) + 1) /\ Len(tasks') = Len(tasks) + 1
      <4>1. Len(tasks) + 1 \in TaskIds'
        BY <3>4, <1>0 DEF TaskIds
      <4>2. QED
        BY <3>2, <3>4, <4>1, AppendProperties
    <3>5. QED
      BY <3>3, <3>4 DEF ExecutorMoves
  <2>3. uiQueue' \in Seq([what : Whats, task : Nat])
    BY <1>4 DEF ResourceTypes
  <2>4. QED
    BY <2>1, <2>2, <2>3 DEF ResourceTypes, KeepsTasks
<1>2. OneLiveConnect'
  <2> SUFFICES ASSUME NEW t \in TaskIds', tasks'[t].kind = "connect",
                      tasks'[t].pc # "done", ~tasks'[t].cancelled
               PROVE  t = mConnectTask'
    BY DEF OneLiveConnect
  <2>1. CASE t \in TaskIds
    <3>1. t = mConnectTask
      BY <2>1 DEF KeepsTasks, OneLiveConnect
    <3>2. QED
      BY <2>1, <3>1, <1>0 DEF ConnectMoves, TaskIds, NoTask
  <2>2. CASE t \notin TaskIds
    BY <2>2, <1>0 DEF KeepsTasks, TaskIds
  <2>3. QED
    BY <2>1, <2>2
<1>3. ClientsPublished'
  BY <1>0 DEF ClientsPublished, KeepsTasks, ConnectMoves, TaskIds, NoTask
<1>5. OpenOwned'
  <2> SUFFICES ASSUME NEW s \in open'
               PROVE  \/ s \in SocketsOf(mClient')
                      \/ /\ s[2] \in TaskIds' /\ tasks'[s[2]].pc = "connected"
                         /\ s \in SocketsOf(tasks'[s[2]].socks)
    BY DEF OpenOwned, SocketsOf
  <2>1. s \in open
    BY DEF ConnectMoves
  <2>2. CASE s \in SocketsOf(mClient)
    BY <2>1, <2>2 DEF ConnectMoves
  <2>3. CASE /\ s[2] \in TaskIds /\ tasks[s[2]].pc = "connected"
             /\ s \in SocketsOf(tasks[s[2]].socks)
    BY <2>3, <1>0 DEF KeepsTasks, TaskIds
  <2>4. QED
    BY <2>1, <2>2, <2>3 DEF OpenOwned
<1>6. QED
  BY <1>1, <1>2, <1>3, <1>4, <1>5

(* A step that leaves the tasks alone keeps them.                           *)
LEMMA UnchangedKeeps ==
    ASSUME ResourceTypes, UNCHANGED tasks PROVE KeepsTasks
  BY LenProperties DEF ResourceTypes, KeepsTasks, TaskIds

(* Starting a ConnectTask keeps the others.                                 *)
LEMMA ConnectKeeps ==
    ASSUME ResourceTypes, connectLlcpServices
    PROVE  KeepsTasks /\ ExecutorMoves /\ mConnectTask' = Len(tasks) + 1
           /\ Len(tasks') = Len(tasks) + 1 /\ Len(tasks) \in Nat
<1>1. /\ tasks \in Seq(TaskRecords) /\ Len(tasks) \in Nat
      /\ tasks' = Append(tasks, NewTask("connect")) /\ mConnectTask' = Len(tasks) + 1
      /\ executor' = Append(executor, Len(tasks) + 1)
  BY LenProperties DEF ResourceTypes, connectLlcpServices
<1>2. NewTask("connect").pc = "queued"
  BY DEF NewTask
<1>3. /\ tasks' \in Seq(TaskRecords) /\ Len(tasks') = Len(tasks) + 1
      /\ \A j \in 1 .. Len(tasks) : tasks'[j] = tasks[j]
      /\ tasks'[Len(tasks) + 1].pc = "queued"
  BY <1>1, <1>2, AppendTask
<1>4. QED
  BY <1>1, <1>3 DEF KeepsTasks, ExecutorMoves, TaskIds

(* Starting a SendTask cancels the previous one and keeps the others.       *)
LEMMA SendKeeps ==
    ASSUME ResourceTypes, NEW ts \in Seq(TaskRecords), Len(ts) = Len(tasks),
           \A j \in TaskIds :
              ts[j] = tasks[j] \/ (tasks[j].pc \in {"posted", "done"} /\ ts[j].pc = "done"),
           sendNdefMessage(ts)
    PROVE  KeepsTasks /\ ExecutorMoves
<1> DEFINE cs == Cancel(ts, mSendTask)
<1>1. /\ Len(tasks) \in Nat /\ tasks' = Append(cs, NewTask("send"))
      /\ executor' = Append(executor, Len(tasks) + 1)
  BY LenProperties DEF ResourceTypes, sendNdefMessage
<1>2. /\ cs \in Seq(TaskRecords) /\ Len(cs) = Len(tasks)
      /\ \A j \in TaskIds :
            /\ cs[j].kind = ts[j].kind /\ cs[j].pc = ts[j].pc /\ cs[j].socks = ts[j].socks
            /\ ts[j].cancelled => cs[j].cancelled
  BY CancelTask DEF TaskIds
<1> HIDE DEF cs
<1>3. NewTask("send").pc = "queued" /\ NewTask("send").kind = "send"
  BY DEF NewTask
<1>4. /\ tasks' \in Seq(TaskRecords) /\ Len(tasks') = Len(tasks) + 1
      /\ \A j \in TaskIds : tasks'[j] = cs[j]
      /\ tasks'[Len(tasks) + 1] = NewTask("send")
  BY <1>1, <1>2, AppendTask DEF TaskIds
<1>5. QED
  BY <1>1, <1>2, <1>3, <1>4 DEF KeepsTasks, ExecutorMoves

(* Cancelling the SendTask keeps the tasks.                                 *)
LEMMA CancelKeeps ==
    ASSUME ResourceTypes, NEW t, tasks' = Cancel(tasks, t)
    PROVE  KeepsTasks
  BY CancelTask, LenProperties DEF ResourceTypes, KeepsTasks, TaskIds

(* Losing the link cancels both tasks and releases the clients.             *)
LEMMA LinkLostMoves ==
    ASSUME ResourceInv, NEW thread, LinkLost(thread)
    PROVE  /\ KeepsTasks /\ ConnectMoves /\ ExecutorMoves
           /\ mLinkState' \in LinkStates
           /\ mSendState' = mSendState /\ mLlcpConnectDelayed' = mLlcpConnectDelayed
                 => ConnectOnlyWhenUp'
<1>1. CASE mLinkState \in {"WAITING_PDU", "UP"}
  <2> DEFINE cs == Cancel(tasks, mSendTask)
  <2>1. /\ tasks' = Cancel(cs, mConnectTask) /\ mConnectTask' = NoTask
        /\ mClient' = NoClients /\ open' = open \ SocketsOf(mClient)
        /\ ~mLlcpServicesConnected' /\ UNCHANGED executor /\ mLinkState' = "DEBOUNCE"
    BY <1>1 DEF LinkLost, disconnectLlcpServices
  <2>2. /\ cs \in Seq(TaskRecords) /\ Len(cs) = Len(tasks)
        /\ \A j \in TaskIds :
              /\ cs[j].kind = tasks[j].kind /\ cs[j].pc = tasks[j].pc
              /\ cs[j].socks = tasks[j].socks
              /\ tasks[j].cancelled => cs[j].cancelled
    BY CancelTask DEF ResourceInv, ResourceTypes, TaskIds
  <2>3. /\ tasks' \in Seq(TaskRecords) /\ Len(tasks') = Len(tasks)
        /\ \A j \in TaskIds :
              /\ tasks'[j].kind = cs[j].kind /\ tasks'[j].pc = cs[j].pc
              /\ tasks'[j].socks = cs[j].socks
              /\ cs[j].cancelled => tasks'[j].cancelled
              /\ j = mConnectTask /\ j # NoTask /\ cs[j].pc # "done" => tasks'[j].cancelled
    <3> HIDE DEF cs
    <3>1. QED
      BY <2>1, <2>2, CancelTask DEF TaskIds
  <2> HIDE DEF cs
  <2>4. Len(tasks) \in Nat
    BY LenProperties DEF ResourceInv, ResourceTypes
  <2>5. KeepsTasks
    <3>1. ASSUME NEW j \in TaskIds
          PROVE  /\ tasks'[j].kind = tasks[j].kind /\ tasks'[j].pc = tasks[j].pc
                 /\ tasks'[j].socks = tasks[j].socks
                 /\ tasks[j].cancelled => tasks'[j].cancelled
      BY <2>2, <2>3
    <3>2. tasks' \in Seq(TaskRecords) /\ Len(tasks') = Len(tasks)
      BY <2>3
    <3>3. QED
      BY <3>1, <3>2, <2>4 DEF KeepsTasks
  <2>6. ConnectMoves
    BY <2>1, <2>2, <2>3, <2>4 DEF ConnectMoves, TaskIds, NoTask
  <2>7. QED
    BY <2>1, <2>5, <2>6 DEF ConnectOnlyWhenUp, ExecutorMoves, LinkStates, NoTask
<1>2. CASE mLinkState \notin {"WAITING_PDU", "UP"}
  <2>1. /\ UNCHANGED <<tasks, executor, mConnectTask, mLinkState, mLlcpServicesConnected>>
        /\ UNCHANGED <<mClient, open>>
    BY <1>2 DEF LinkLost, noNewTask, sockets
  <2>2. QED
    BY <2>1, UnchangedKeeps DEF ResourceInv, ResourceTypes, ConnectMoves, ExecutorMoves,
          ConnectOnlyWhenUp
<1>3. QED
  BY <1>1, <1>2

(* Every step but those of the tasks preserves the invariant.               *)
LEMMA ResourceOutside ==
    ASSUME ResourceInv, Environment \/ UiMessage \/ DebounceTimeout \/ onP2pSendConfirmed
    PROVE  ResourceInv' /\ ConnectMoves
<1> USE DEF ResourceInv
<1>0. Len(tasks) \in Nat /\ tasks \in Seq(TaskRecords)
  BY LenProperties DEF ResourceTypes
<1> DEFINE NothingMoves == UNCHANGED <<tasks, executor, mConnectTask, mClient, open>>
<1>a. ASSUME NothingMoves PROVE KeepsTasks /\ ConnectMoves /\ ExecutorMoves
  BY <1>a, UnchangedKeeps DEF ConnectMoves, ExecutorMoves
<1>b. ASSUME connectLlcpServices, mConnectTask = NoTask, UNCHANGED <<mClient, open>>
      PROVE  KeepsTasks /\ ConnectMoves /\ ExecutorMoves
  BY <1>b, ConnectKeeps DEF ConnectMoves
<1>1. CASE RfActivated \/ RfFirstPacket \/ RfDeactivated \/ onReceive
  <2>1. \E m \in [what : Whats, task : Nat] :
            uiQueue' = Append(uiQueue, m) /\ m.what # "connectDone"
    BY <1>1 DEF RfActivated, RfFirstPacket, RfDeactivated, onReceive, Post, Message, Whats, NoTask
  <2>2. NothingMoves /\ UNCHANGED <<mLinkState, mSendState, mLlcpConnectDelayed,
                                    mLlcpServicesConnected>>
    BY <1>1 DEF RfActivated, RfFirstPacket, RfDeactivated, onReceive, noNewTask, sockets
  <2>3. QED
    BY <2>1, <2>2, <1>a, ResourceFrame DEF QueueMoves, ConnectOnlyWhenUp, ResourceTypes
<1>2. CASE enableDisable
  <2>1. /\ UNCHANGED <<mSendState, mLlcpConnectDelayed, uiQueue>>
        /\ \/ LinkLost("binder")
           \/ NothingMoves /\ UNCHANGED <<mLinkState, mLlcpServicesConnected>>
    BY <1>2 DEF enableDisable, noNewTask, sockets
  <2>2. CASE LinkLost("binder")
    BY <2>1, <2>2, LinkLostMoves, ResourceFrame DEF QueueMoves, ResourceTypes
  <2>3. CASE NothingMoves /\ UNCHANGED <<mLinkState, mLlcpServicesConnected>>
    BY <2>1, <2>3, <1>a, ResourceFrame DEF QueueMoves, ConnectOnlyWhenUp, ResourceTypes
  <2>4. QED
    BY <2>1, <2>2, <2>3
<1>3. CASE onLlcpDeactivated
  <2>1. /\ UNCHANGED <<mSendState, mLlcpConnectDelayed>> /\ LinkLost("ui") /\ QueueMoves
    BY <1>3 DEF onLlcpDeactivated, Handle, QueueMoves
  <2>2. QED
    BY <2>1, LinkLostMoves, ResourceFrame DEF ResourceTypes
<1>4. CASE onLlcpActivated
  <2>1. QueueMoves /\ mLlcpConnectDelayed' = FALSE
        /\ UNCHANGED <<mClient, open, mLlcpServicesConnected>>
    BY <1>4 DEF onLlcpActivated, Handle, QueueMoves, sockets
  <2>2. CASE ActivatedAgain
    <3>1. NothingMoves /\ UNCHANGED <<mLinkState, mSendState>>
      BY <2>1, <2>2 DEF ActivatedAgain, noNewTask
    <3>2. QED
      BY <2>1, <3>1, <1>a, ResourceFrame DEF ConnectOnlyWhenUp, ResourceTypes
  <2>3. CASE mLinkState \in {"DOWN", "DEBOUNCE"} /\ connectLlcpServices
             /\ mLinkState' = "UP" /\ mSendState' = "SENDING"
    <3>1. KeepsTasks /\ ConnectMoves /\ ExecutorMoves
      BY <2>1, <2>3, <1>b DEF ConnectOnlyWhenUp
    <3>2. ConnectOnlyWhenUp'
      BY <2>1, <2>3 DEF ConnectOnlyWhenUp
    <3>3. QED
      BY <2>1, <2>3, <3>1, <3>2, ResourceFrame DEF LinkStates, SendStates
  <2>4. CASE mLinkState \in {"DOWN", "DEBOUNCE"} /\ noNewTask
             /\ mLinkState' = "WAITING_PDU" /\ mSendState' \in SendStates
    <3>1. NothingMoves
      BY <2>1, <2>4 DEF noNewTask
    <3>2. ConnectOnlyWhenUp'
      BY <2>1, <2>4, <3>1 DEF ConnectOnlyWhenUp
    <3>3. QED
      BY <2>1, <2>4, <3>1, <3>2, <1>a, ResourceFrame DEF LinkStates
  <2>5. QED
    BY <1>4, <2>2, <2>3, <2>4 DEF onLlcpActivated, ActivatedFromDown, ActivatedFromDebounce,
       ActivatedNothingToSend, ActivatedNoConfirm, ActivatedAsk, ResourceTypes, SendStates
<1>5. CASE onLlcpFirstPacketReceived
  <2>1. QueueMoves /\ UNCHANGED <<mClient, open, mLlcpServicesConnected, mSendState>>
    BY <1>5 DEF onLlcpFirstPacketReceived, Handle, QueueMoves, sockets
  <2>2. CASE mLinkState = "WAITING_PDU" /\ mLinkState' = "UP" /\ connectLlcpServices
             /\ UNCHANGED mLlcpConnectDelayed
    <3>1. KeepsTasks /\ ConnectMoves /\ ExecutorMoves
      BY <2>1, <2>2, <1>b DEF ConnectOnlyWhenUp
    <3>2. ConnectOnlyWhenUp'
      BY <2>1, <2>2 DEF ConnectOnlyWhenUp
    <3>3. QED
      BY <2>1, <2>2, <3>1, <3>2, ResourceFrame DEF LinkStates, ResourceTypes
  <2>3. CASE noNewTask /\ mLinkState = "WAITING_PDU" /\ mLinkState' = "UP"
    <3>1. NothingMoves
      BY <2>1, <2>3 DEF noNewTask
    <3>2. ConnectOnlyWhenUp'
      BY <2>1, <2>3, <3>1 DEF ConnectOnlyWhenUp
    <3>3. QED
      BY <2>1, <2>3, <3>1, <3>2, <1>a, ResourceFrame DEF LinkStates, ResourceTypes
  <2>4. CASE noNewTask /\ UNCHANGED <<mLinkState, mLlcpConnectDelayed>>
    <3>1. NothingMoves
      BY <2>1, <2>4 DEF noNewTask
    <3>2. ConnectOnlyWhenUp'
      BY <2>1, <2>4, <3>1 DEF ConnectOnlyWhenUp
    <3>3. QED
      BY <2>1, <2>4, <3>1, <3>2, <1>a, ResourceFrame DEF ResourceTypes
  <2>5. QED
    BY <1>5, <2>2, <2>3, <2>4 DEF onLlcpFirstPacketReceived
<1>6. CASE onLlcpServicesConnected
  <2> DEFINE t == Head(uiQueue).task
             after == Finish(tasks, t)
  <2>1. /\ uiQueue # <<>> /\ Head(uiQueue).what = "connectDone" /\ QueueMoves
        /\ UNCHANGED <<mClient, open, mLinkState, mSendState, mLlcpConnectDelayed, mConnectTask>>
        /\ mLlcpServicesConnected' # mLlcpServicesConnected => mLinkState = "UP"
    BY <1>6 DEF onLlcpServicesConnected, Handle, QueueMoves, sockets
  <2>2. tasks[t].pc \in {"posted", "done"}
    <3>1. uiQueue \in Seq([what : Whats, task : Nat]) /\ Len(uiQueue) \in Nat
      BY LenProperties DEF ResourceTypes
    <3>2. 1 \in 1 .. Len(uiQueue) /\ uiQueue[1] = Head(uiQueue)
      BY <2>1, <3>1
    <3>3. QED
      BY <2>1, <3>2 DEF ResultAfterTask
  <2>3. /\ after \in Seq(TaskRecords) /\ Len(after) = Len(tasks)
        /\ \A j \in TaskIds :
              after[j] = tasks[j] \/ (tasks[j].pc \in {"posted", "done"} /\ after[j].pc = "done")
    BY <1>0, <2>2, FinishTask DEF TaskIds
  <2>4. KeepsTasks /\ ExecutorMoves
    <3>1. CASE sendNdefMessage(after)
      <4> HIDE DEF after
      <4>1. QED
        BY <2>3, <3>1, SendKeeps
    <3>2. CASE tasks' = after /\ UNCHANGED executor
      <4>1. KeepsTasks
        <5> HIDE DEF after
        <5>1. QED
          BY <1>0, <2>3, <3>2 DEF KeepsTasks
      <4>2. QED
        BY <3>2, <4>1 DEF ExecutorMoves
    <3>3. QED
      BY <1>6, <3>1, <3>2 DEF onLlcpServicesConnected
  <2>5. ConnectOnlyWhenUp'
    BY <2>1 DEF ConnectOnlyWhenUp
  <2>6. QED
    BY <2>1, <2>4, <2>5, ResourceFrame DEF ConnectMoves, ResourceTypes
<1>7. CASE ReceiveComplete
  <2>1. /\ QueueMoves /\ UNCHANGED <<mClient, open, mLinkState, mLlcpConnectDelayed,
                                     mLlcpServicesConnected, mConnectTask, executor>>
        /\ mSendState' \in {mSendState, "NOTHING_TO_SEND"}
        /\ UNCHANGED tasks \/ tasks' = Cancel(tasks, mSendTask)
    BY <1>7 DEF ReceiveComplete, Handle, QueueMoves, sockets
  <2>2. KeepsTasks
    BY <2>1, UnchangedKeeps, CancelKeeps
  <2>3. QED
    BY <2>1, <2>2, ResourceFrame
       DEF ConnectMoves, ExecutorMoves, ConnectOnlyWhenUp, ResourceTypes, SendStates
<1>8. CASE HandoverNotSupported \/ SendComplete
  <2>1. /\ QueueMoves /\ UNCHANGED <<mLinkState, mLlcpConnectDelayed, mLlcpServicesConnected>>
        /\ NothingMoves
        /\ mSendState' \in {mSendState, "NOTHING_TO_SEND", "SEND_COMPLETE"}
    BY <1>8 DEF HandoverNotSupported, SendComplete, SendOver, Handle, QueueMoves, sockets
  <2>2. QED
    BY <2>1, <1>a, ResourceFrame DEF ConnectOnlyWhenUp, ResourceTypes, SendStates
<1>9. CASE DebounceTimeout
  <2>1. /\ UNCHANGED <<uiQueue, mLlcpConnectDelayed, mLlcpServicesConnected>>
        /\ NothingMoves
        /\ \/ UNCHANGED <<mLinkState, mSendState>>
           \/ mLinkState = "DEBOUNCE" /\ mLinkState' = "DOWN" /\ mSendState' = "NOTHING_TO_SEND"
    BY <1>9 DEF DebounceTimeout, TimeoutDue, OutOfRange, noNewTask, sockets
  <2>2. QED
    BY <2>1, <1>a, ResourceFrame
       DEF QueueMoves, ConnectOnlyWhenUp, ResourceTypes, LinkStates, SendStates
<1>10. CASE onP2pSendConfirmed
  <2>1. /\ UNCHANGED <<uiQueue, mLlcpConnectDelayed, mLlcpServicesConnected, mClient, open>>
        /\ mSendState = "NEED_CONFIRMATION" /\ mSendState' = "SENDING"
        /\ mLinkState' = IF mLinkState = "WAITING_PDU" THEN "UP" ELSE mLinkState
    BY <1>10 DEF onP2pSendConfirmed, sockets
  <2>2. CASE connectLlcpServices /\ mLinkState \in {"WAITING_PDU", "UP"}
             /\ (mLinkState = "UP" => mLlcpConnectDelayed)
    <3>1. KeepsTasks /\ ConnectMoves /\ ExecutorMoves
      BY <2>1, <2>2, <1>b DEF ConnectOnlyWhenUp
    <3>2. ConnectOnlyWhenUp'
      BY <2>1, <2>2 DEF ConnectOnlyWhenUp
    <3>3. QED
      BY <2>1, <2>2, <3>1, <3>2, ResourceFrame DEF QueueMoves, LinkStates, SendStates
  <2>3. CASE sendNdefMessage(tasks) /\ UNCHANGED mConnectTask /\ UNCHANGED mLinkState
    <3>1. KeepsTasks /\ ExecutorMoves
      BY <1>0, <2>3, SendKeeps
    <3>2. QED
      BY <2>1, <2>3, <3>1, ResourceFrame
         DEF QueueMoves, ConnectMoves, ConnectOnlyWhenUp, ResourceTypes, SendStates
  <2>4. CASE noNewTask /\ UNCHANGED mLinkState
    <3>1. NothingMoves
      BY <2>1, <2>4 DEF noNewTask
    <3>2. QED
      BY <2>1, <2>4, <3>1, <1>a, ResourceFrame
         DEF QueueMoves, ConnectOnlyWhenUp, ResourceTypes, SendStates
  <2>5. QED
    BY <1>10, <2>2, <2>3, <2>4 DEF onP2pSendConfirmed
<1>11. QED
  BY <1>1, <1>2, <1>3, <1>4, <1>5, <1>6, <1>7, <1>8, <1>9, <1>10 DEF Environment, UiMessage

(* The message to send has its type; only two steps change it.             *)
BeamTypes == mMessageToSend \in BOOLEAN /\ mUrisToSend \in BOOLEAN /\ session \in Nat

(* No step breaks those types.                                               *)
LEMMA BeamTypesStep == BeamTypes /\ [Next]_vars => BeamTypes'
<1> SUFFICES ASSUME BeamTypes, [Next]_vars PROVE BeamTypes'
  OBVIOUS
<1>1. CASE Environment
  BY <1>1 DEF BeamTypes, beam, Environment, RfActivated, RfFirstPacket, RfDeactivated,
        onReceive, enableDisable
<1>2. CASE onLlcpActivated
  <2>1. CASE prepareMessageToSend
    <3>1. session' \in Nat
      BY <2>1 DEF BeamTypes, prepareMessageToSend
    <3>2. mMessageToSend' \in BOOLEAN /\ mUrisToSend' \in BOOLEAN
      BY <2>1, Zenon DEF prepareMessageToSend
    <3>3. QED
      BY <3>1, <3>2 DEF BeamTypes
  <2>2. CASE UNCHANGED beam
    BY <2>2 DEF BeamTypes, beam
  <2>3. QED
    BY <1>2, <2>1, <2>2 DEF onLlcpActivated, ActivatedFromDown, ActivatedFromDebounce,
       ActivatedAgain
<1>3. CASE UiMessage /\ ~onLlcpActivated
  BY <1>3 DEF BeamTypes, beam, UiMessage, onLlcpFirstPacketReceived, onLlcpDeactivated,
        onLlcpServicesConnected, ReceiveComplete, HandoverNotSupported, SendComplete
<1>4. CASE DebounceTimeout
  BY <1>4 DEF BeamTypes, DebounceTimeout, TimeoutDue, OutOfRange
<1>5. CASE onP2pSendConfirmed
  BY <1>5 DEF BeamTypes, beam, onP2pSendConfirmed
<1>6. CASE Background
  BY <1>6, OutsideIsQuiet DEF BeamTypes, beam, listenerVars
<1>7. CASE UNCHANGED vars
  BY <1>7 DEF BeamTypes, beam, vars
<1>8. QED
  BY <1>1, <1>2, <1>3, <1>4, <1>5, <1>6, <1>7 DEF Next

(* The running task t becomes r.                                            *)
Becomes(t, r) ==
    /\ executor # <<>> /\ t = Head(executor)
    /\ r \in TaskRecords /\ tasks' = [tasks EXCEPT ![t] = r]
    /\ r.kind = tasks[t].kind /\ tasks[t].pc \notin {"posted", "done"}
    /\ r.pc = "done" \/ r.cancelled = tasks[t].cancelled
    /\ executor' = executor \/ executor' = Tail(executor)
    /\ UNCHANGED <<mLinkState, mSendState, mConnectTask, mLlcpConnectDelayed,
                   mLlcpServicesConnected>>

(* The other tasks stay as they are, and one ConnectTask at most is alive.   *)
LEMMA RunningTask ==
    ASSUME ResourceInv, NEW t, NEW r, Becomes(t, r)
    PROVE  /\ t \in TaskIds /\ TaskIds' = TaskIds
           /\ \A j \in TaskIds : tasks'[j] = IF j = t THEN r ELSE tasks[j]
           /\ tasks' \in Seq(TaskRecords) /\ executor' \in Seq(TaskIds)'
           /\ OneLiveConnect'
<1> USE DEF Becomes
<1>1. /\ tasks \in Seq(TaskRecords) /\ executor \in Seq(TaskIds)
  BY DEF ResourceInv, ResourceTypes
<1>2. t \in TaskIds /\ Tail(executor) \in Seq(TaskIds)
  BY <1>1, HeadTailProperties
<1>3. /\ tasks' \in Seq(TaskRecords) /\ Len(tasks') = Len(tasks)
      /\ \A j \in TaskIds : tasks'[j] = IF j = t THEN r ELSE tasks[j]
  BY <1>1, UpdateTask DEF TaskIds
<1>4. TaskIds' = TaskIds
  BY <1>3 DEF TaskIds
<1>5. OneLiveConnect'
  BY <1>2, <1>3, <1>4 DEF OneLiveConnect, ResourceInv
<1>6. executor' \in Seq(TaskIds)'
  BY <1>1, <1>2, <1>4
<1>7. QED
  BY <1>2, <1>3, <1>4, <1>5, <1>6

(* A step of a task that neither publishes nor closes sockets it holds.     *)
LEMMA QuietTaskFrame ==
    ASSUME ResourceInv, NEW t, NEW r, Becomes(t, r), tasks[t].pc # "connected",
           UNCHANGED mClient, QueueMoves,
           \A s \in open' : s \in open \/ (s[2] = t /\ r.pc = "connected"
                                              /\ s \in SocketsOf(r.socks))
    PROVE  ResourceInv'
<1>1. /\ t \in TaskIds /\ TaskIds' = TaskIds
      /\ \A j \in TaskIds : tasks'[j] = IF j = t THEN r ELSE tasks[j]
      /\ tasks' \in Seq(TaskRecords) /\ executor' \in Seq(TaskIds)'
      /\ OneLiveConnect'
  BY RunningTask
<1>2. /\ tasks[t].pc \notin {"connected", "posted", "done"}
      /\ UNCHANGED <<mLinkState, mSendState, mConnectTask, mLlcpConnectDelayed,
                     mLlcpServicesConnected, mClient>>
  BY DEF Becomes
<1>3. uiQueue' \in Seq([what : Whats, task : Nat]) /\ ResultAfterTask'
  BY <1>1, <1>2, QueueFrame DEF ResourceInv, ResourceTypes
<1>4. ResourceTypes'
  BY <1>1, <1>2, <1>3 DEF ResourceInv, ResourceTypes
<1>5. ClientsPublished' /\ ConnectOnlyWhenUp'
  BY <1>1, <1>2 DEF ClientsPublished, ConnectOnlyWhenUp, ResourceInv
<1>6. OpenOwned'
  <2> SUFFICES ASSUME NEW s \in open'
               PROVE  \/ s \in SocketsOf(mClient)
                      \/ /\ s[2] \in TaskIds /\ tasks'[s[2]].pc = "connected"
                         /\ s \in SocketsOf(tasks'[s[2]].socks)
    BY <1>1, <1>2 DEF OpenOwned, SocketsOf
  <2>1. CASE s \in open
    BY <1>1, <1>2, <2>1 DEF OpenOwned, ResourceInv
  <2>2. CASE s[2] = t /\ r.pc = "connected" /\ s \in SocketsOf(r.socks)
    BY <1>1, <2>2
  <2>3. QED
    BY <2>1, <2>2
<1>7. QED
  BY <1>1, <1>3, <1>4, <1>5, <1>6 DEF ResourceInv

(* A step of a task preserves the invariant: only a ConnectTask that is     *)
(* not cancelled, hence the one referred to, publishes its clients.         *)
LEMMA ResourceTask ==
    ASSUME ResourceInv, BeamTypes, Background
    PROVE  ResourceInv'
<1> DEFINE t == Head(executor)
           old == tasks[t]
<1>0. executor # <<>> /\ TaskStep(t)
  BY DEF Background
<1>1. t \in TaskIds /\ old \in TaskRecords
  <2>1. tasks \in Seq(TaskRecords) /\ executor \in Seq(TaskIds)
    BY DEF ResourceInv, ResourceTypes
  <2>2. t \in TaskIds
    BY <1>0, <2>1, HeadTailProperties
  <2>3. QED
    BY <2>1, <2>2, ElementOfSeq DEF TaskIds
<1>2. /\ old.kind \in {"connect", "send"} /\ old.cancelled \in BOOLEAN
      /\ old.msg \in BOOLEAN /\ old.uris \in BOOLEAN /\ old.result \in BOOLEAN
      /\ old.socks \in [Kinds -> Nat] /\ old.session \in Nat
  BY <1>1 DEF TaskRecords
<1>3. t \in Nat /\ mClient \in [Kinds -> Nat] /\ NoTask \in Nat /\ NoClients \in [Kinds -> Nat]
  BY <1>1 DEF TaskIds, ResourceInv, ResourceTypes, NoTask, NoClients
<1> DEFINE quit == [NewTask(old.kind) EXCEPT !.pc = "done"]
<1>4. quit \in TaskRecords /\ quit.kind = old.kind /\ quit.pc = "done"
  BY <1>2, NewTaskType DEF NewTask, TaskRecords
<1>5. Finish(tasks, t) = [tasks EXCEPT ![t] = quit]
  BY DEF Finish
<1>6. UNCHANGED link => UNCHANGED <<mLinkState, mSendState, mConnectTask, mLlcpConnectDelayed,
                                    mLlcpServicesConnected>>
  BY DEF link
<1>7. UNCHANGED sockets => UNCHANGED <<mClient, open>>
  BY DEF sockets
<1>8. UNCHANGED uiQueue => QueueMoves
  BY DEF QueueMoves
<1>9. ASSUME NEW what \in Whats \ {"connectDone"}, Post(what, t) PROVE QueueMoves
  BY <1>3, <1>9 DEF Post, Message, QueueMoves
<1> HIDE DEF t, old, quit
<1> USE <1>0, <1>1, <1>2, <1>3, <1>4, <1>5, <1>6, <1>7, <1>8
<1>10. CASE TaskStart(t)
  <2>1. UNCHANGED mClient /\ UNCHANGED open /\ QueueMoves /\ old.pc = "queued"
    BY <1>10 DEF TaskStart, old
  <2>2. CASE old.cancelled
    <3>1. Becomes(t, quit)
      BY <1>10, <2>2 DEF TaskStart, Becomes, t, old
    <3>2. QED
      BY <2>1, <3>1, QuietTaskFrame DEF old
  <2>3. CASE ~old.cancelled
    <3> DEFINE r == [old EXCEPT !.pc = "running"]
    <3>1. r \in TaskRecords /\ r.kind = old.kind /\ r.cancelled = old.cancelled
      BY DEF TaskRecords
    <3>2. tasks' = [tasks EXCEPT ![t] = r]
      BY <1>10, <2>3 DEF TaskStart, old
    <3>3. Becomes(t, r)
      BY <1>10, <2>1, <2>3, <3>1, <3>2 DEF TaskStart, Becomes, t, old
    <3>4. QED
      BY <2>1, <3>3, QuietTaskFrame DEF old
  <2>4. QED
    BY <2>2, <2>3
<1>11. CASE ConnectReadNeeds(t)
  <2> DEFINE r == [old EXCEPT !.pc = "connecting", !.msg = mMessageToSend, !.uris = mUrisToSend]
  <2>1. /\ UNCHANGED <<mClient, open>> /\ QueueMoves /\ old.pc = "running"
        /\ tasks' = [tasks EXCEPT ![t] = r] /\ UNCHANGED <<link, executor>>
    BY <1>11 DEF ConnectReadNeeds, Running, old
  <2>2. r \in TaskRecords /\ r.kind = old.kind /\ r.cancelled = old.cancelled
    BY DEF TaskRecords, BeamTypes
  <2>3. Becomes(t, r)
    BY <2>1, <2>2 DEF Becomes, t, old
  <2>4. QED
    BY <2>1, <2>3, QuietTaskFrame DEF old
<1>12. CASE ConnectTransports(t)
  <2>1. PICK ks \in SUBSET Kinds :
           /\ open' = open \cup {<<k, t>> : k \in ks}
           /\ tasks' = [tasks EXCEPT ![t].pc = "connected", ![t].result = ks # {},
                            ![t].socks = [k \in Kinds |-> IF k \in ks THEN t ELSE NoTask]]
    BY <1>12 DEF ConnectTransports, Transports
  <2> DEFINE c == [k \in Kinds |-> IF k \in ks THEN t ELSE NoTask]
             r == [old EXCEPT !.pc = "connected", !.result = ks # {}, !.socks = c]
  <2>2. /\ UNCHANGED mClient /\ QueueMoves /\ old.pc = "connecting"
        /\ tasks' = [tasks EXCEPT ![t] = r] /\ UNCHANGED <<link, executor>>
    <3>1. tasks' = [tasks EXCEPT ![t] = r]
      BY <2>1 DEF old
    <3>2. /\ UNCHANGED mClient /\ UNCHANGED uiQueue /\ old.pc = "connecting"
          /\ UNCHANGED <<link, executor>>
      BY <1>12 DEF ConnectTransports, Running, old
    <3>3. QED
      BY <3>1, <3>2
  <2>3. c \in [Kinds -> Nat] /\ (ks # {}) \in BOOLEAN
    OBVIOUS
  <2>4. r \in TaskRecords /\ r.kind = old.kind /\ r.cancelled = old.cancelled
        /\ r.pc = "connected" /\ r.socks = c
    BY <2>3 DEF TaskRecords
  <2>5. Becomes(t, r)
    BY <2>2, <2>4 DEF Becomes, t, old
  <2>6. \A s \in {<<k, t>> : k \in ks} : s[2] = t /\ s \in SocketsOf(r.socks)
    <3>1. t # NoTask
      BY DEF TaskIds, NoTask
    <3>2. \A k \in ks : k \in Kinds /\ r.socks[k] = t
      BY <2>1, <2>4
    <3>3. ASSUME NEW k \in ks PROVE <<k, t>> \in SocketsOf(r.socks)
      <4> HIDE DEF r
      <4>1. QED
        BY <3>1, <3>2 DEF SocketsOf
    <3> HIDE DEF r
    <3>4. QED
      BY <3>3
  <2>7. QED
    <3> HIDE DEF r
    <3>1. QED
      BY <2>1, <2>2, <2>4, <2>5, <2>6, QuietTaskFrame DEF old
<1>13. CASE SendSnapshot(t)
  <2>1. UNCHANGED <<mClient, open>> /\ QueueMoves /\ old.pc = "running" /\ UNCHANGED link
    BY <1>13 DEF SendSnapshot, Running, old
  <2>2. CASE tasks' = Finish(tasks, t) /\ executor' = Tail(executor)
    <3>1. Becomes(t, quit)
      BY <2>1, <2>2 DEF Becomes, t, old
    <3>2. QED
      BY <2>1, <3>1, QuietTaskFrame DEF old
  <2>3. CASE /\ tasks' = [tasks EXCEPT ![t].pc = IF mUrisToSend THEN "handover" ELSE "put",
                                   ![t].msg = mMessageToSend, ![t].uris = mUrisToSend,
                                   ![t].socks = mClient, ![t].session = session]
             /\ UNCHANGED executor
    <3> DEFINE r == [old EXCEPT !.pc = IF mUrisToSend THEN "handover" ELSE "put",
                                !.msg = mMessageToSend, !.uris = mUrisToSend,
                                !.socks = mClient, !.session = session]
    <3>1. r \in TaskRecords /\ r.kind = old.kind /\ r.cancelled = old.cancelled
      BY DEF TaskRecords, BeamTypes
    <3>2. tasks' = [tasks EXCEPT ![t] = r]
      BY <2>3 DEF old
    <3>3. Becomes(t, r)
      BY <2>1, <2>3, <3>1, <3>2 DEF Becomes, t, old
    <3>4. QED
      BY <2>1, <3>3, QuietTaskFrame DEF old
  <2>4. QED
    BY <1>13, <2>2, <2>3 DEF SendSnapshot
<1>14. CASE SendHandover(t)
  <2>1. UNCHANGED <<mClient, open>> /\ old.pc = "handover" /\ UNCHANGED <<link, executor>>
    BY <1>14 DEF SendHandover, Running, old
  <2>2. QueueMoves
    BY <1>14, <1>9 DEF SendHandover, Whats
  <2>3. PICK p \in {"succeeded", "put"} : tasks' = [tasks EXCEPT ![t].pc = p]
    BY <1>14 DEF SendHandover, Succeeds
  <2> DEFINE r == [old EXCEPT !.pc = p]
  <2>4. r \in TaskRecords /\ r.kind = old.kind /\ r.cancelled = old.cancelled
    BY DEF TaskRecords
  <2>5. tasks' = [tasks EXCEPT ![t] = r]
    BY <2>3 DEF old
  <2>6. Becomes(t, r)
    BY <2>1, <2>4, <2>5 DEF Becomes, t, old
  <2>7. QED
    BY <2>1, <2>2, <2>6, QuietTaskFrame DEF old
<1>15. CASE SendPut(t)
  <2>1. UNCHANGED <<mClient, open>> /\ old.pc = "put" /\ UNCHANGED link /\ QueueMoves
    BY <1>15 DEF SendPut, Running, old
  <2>2. CASE tasks' = [tasks EXCEPT ![t].pc = "succeeded"] /\ UNCHANGED executor
    <3> DEFINE r == [old EXCEPT !.pc = "succeeded"]
    <3>1. r \in TaskRecords /\ r.kind = old.kind /\ r.cancelled = old.cancelled
      BY DEF TaskRecords
    <3>2. tasks' = [tasks EXCEPT ![t] = r]
      BY <2>2 DEF old
    <3>3. Becomes(t, r)
      BY <2>1, <2>2, <3>1, <3>2 DEF Becomes, t, old
    <3>4. QED
      BY <2>1, <3>3, QuietTaskFrame DEF old
  <2>3. CASE tasks' = Finish(tasks, t) /\ executor' = Tail(executor)
    <3>1. Becomes(t, quit)
      BY <2>1, <2>3 DEF Becomes, t, old
    <3>2. QED
      BY <2>1, <3>1, QuietTaskFrame DEF old
  <2>4. QED
    BY <1>15, <2>2, <2>3 DEF SendPut, Succeeds
<1>16. CASE SendReport(t)
  <2>1. /\ UNCHANGED <<mClient, open>> /\ old.pc = "succeeded" /\ UNCHANGED link
        /\ tasks' = Finish(tasks, t) /\ executor' = Tail(executor)
    BY <1>16 DEF SendReport, Running, old
  <2>2. QueueMoves
    BY <1>16, <1>9 DEF SendReport, Whats
  <2>3. Becomes(t, quit)
    BY <2>1 DEF Becomes, t, old
  <2>4. QED
    BY <2>1, <2>2, <2>3, QuietTaskFrame DEF old
<1>17. CASE ConnectPublish(t)
  <2> DEFINE r == [old EXCEPT !.pc = "posted", !.socks = NoClients,
                              !.result = IF old.cancelled THEN FALSE ELSE old.result]
  <2>1. /\ old.kind = "connect" /\ old.pc = "connected" /\ UNCHANGED link
        /\ executor' = Tail(executor) /\ Post("connectDone", t)
    BY <1>17 DEF ConnectPublish, Running, old
  <2>2. /\ r \in TaskRecords /\ r.kind = old.kind /\ r.cancelled = old.cancelled
        /\ r.pc = "posted" /\ r.socks = NoClients
    BY DEF TaskRecords
  <2>3. tasks' = [tasks EXCEPT ![t] = r]
    <3>1. CASE old.cancelled
      <4>1. r = [old EXCEPT !.pc = "posted", !.socks = NoClients, !.result = FALSE]
        BY <3>1
      <4>2. QED
        BY <1>17, <3>1, <4>1 DEF ConnectPublish, old
    <3>2. CASE ~old.cancelled
      <4>1. r = [old EXCEPT !.pc = "posted", !.socks = NoClients]
        BY <3>2 DEF TaskRecords
      <4>2. QED
        BY <1>17, <3>2, <4>1 DEF ConnectPublish, old
    <3>3. QED
      BY <3>1, <3>2
  <2> HIDE DEF r
  <2>4. Becomes(t, r)
    BY <2>1, <2>2, <2>3 DEF Becomes, t, old
  <2>5. /\ t \in TaskIds /\ TaskIds' = TaskIds
        /\ \A j \in TaskIds : tasks'[j] = IF j = t THEN r ELSE tasks[j]
        /\ tasks' \in Seq(TaskRecords) /\ executor' \in Seq(TaskIds)'
        /\ OneLiveConnect'
    BY <2>4, RunningTask
  <2>6. QueueMoves
    <3> DEFINE m == [what |-> "connectDone", task |-> t]
    <3>1. m \in [what : Whats, task : Nat] /\ m.task = t /\ uiQueue' = Append(uiQueue, m)
      BY <2>1 DEF Post, Message, Whats
    <3>2. tasks'[t].pc = "posted" /\ t \in TaskIds'
      BY <2>2, <2>5
    <3> HIDE DEF m
    <3>3. QED
      BY <3>1, <3>2 DEF QueueMoves
  <2>7. uiQueue' \in Seq([what : Whats, task : Nat]) /\ ResultAfterTask'
    BY <2>1, <2>2, <2>5, <2>6, QueueFrame DEF ResourceInv, ResourceTypes, old
  <2>8. UNCHANGED <<mLinkState, mSendState, mConnectTask, mLlcpConnectDelayed,
                    mLlcpServicesConnected>>
    BY <2>1
  <2>9. CASE old.cancelled
    <3>1. open' = open \ SocketsOf(old.socks) /\ UNCHANGED mClient
      BY <1>17, <2>9 DEF ConnectPublish, old
    <3>2. ResourceTypes' /\ ConnectOnlyWhenUp'
      BY <2>5, <2>7, <2>8, <3>1 DEF ResourceInv, ResourceTypes, ConnectOnlyWhenUp
    <3>3. ClientsPublished'
      BY <2>2, <2>5, <2>8, <3>1 DEF ResourceInv, ClientsPublished
    <3>4. OpenOwned'
      <4> SUFFICES ASSUME NEW s \in open'
                   PROVE  \/ s \in SocketsOf(mClient)
                          \/ /\ s[2] \in TaskIds /\ tasks'[s[2]].pc = "connected"
                             /\ s \in SocketsOf(tasks'[s[2]].socks)
        BY <2>5, <3>1 DEF OpenOwned, SocketsOf
      <4>1. s \in open /\ s \notin SocketsOf(old.socks)
        BY <3>1
      <4>2. QED
        BY <2>5, <4>1 DEF ResourceInv, OpenOwned, old
    <3>5. QED
      BY <2>5, <2>7, <3>2, <3>3, <3>4 DEF ResourceInv
  <2>10. CASE ~old.cancelled
    <3>1. UNCHANGED open /\ mClient' = old.socks
      BY <1>17, <2>10 DEF ConnectPublish, old
    <3>2. t = mConnectTask /\ t # NoTask
      BY <2>1, <2>10 DEF ResourceInv, OneLiveConnect, old, TaskIds, NoTask
    <3>3. mClient = NoClients
      BY <2>1, <3>2 DEF ResourceInv, ClientsPublished, old
    <3>4. ResourceTypes' /\ ConnectOnlyWhenUp'
      BY <2>5, <2>7, <2>8, <3>1, <3>2 DEF ResourceInv, ResourceTypes, ConnectOnlyWhenUp
    <3>5. ClientsPublished'
      BY <2>2, <2>5, <2>8, <3>2 DEF ClientsPublished
    <3>6. OpenOwned'
      <4> SUFFICES ASSUME NEW s \in open
                   PROVE  \/ s \in SocketsOf(old.socks)
                          \/ /\ s[2] \in TaskIds /\ tasks'[s[2]].pc = "connected"
                             /\ s \in SocketsOf(tasks'[s[2]].socks)
        BY <2>5, <3>1 DEF OpenOwned, SocketsOf
      <4>1. s \notin SocketsOf(mClient)
        BY <3>3 DEF SocketsOf, NoClients
      <4>2. QED
        BY <2>5, <4>1 DEF ResourceInv, OpenOwned, old
    <3>7. QED
      BY <2>5, <2>7, <3>4, <3>5, <3>6 DEF ResourceInv
  <2>11. QED
    BY <2>9, <2>10
<1>18. QED
  BY <1>10, <1>11, <1>12, <1>13, <1>14, <1>15, <1>16, <1>17 DEF TaskStep

(* The invariant of the resources holds in every behaviour.                 *)
THEOREM ResourceInvHolds == Spec => [](ResourceInv /\ BeamTypes)
<1>1. Init => ResourceInv /\ BeamTypes
  <2> SUFFICES ASSUME Init PROVE ResourceInv /\ BeamTypes
    OBVIOUS
  <2> USE DEF Init
  <2>1. tasks = <<>> /\ executor = <<>> /\ uiQueue = <<>> /\ TaskIds = {} /\ Len(uiQueue) = 0
    BY DEF TaskIds
  <2>2. ResourceTypes
    BY <2>1, EmptySeq DEF ResourceTypes, LinkStates, SendStates, NoTask, NoClients
  <2>3. OneLiveConnect /\ ResultAfterTask
    BY <2>1 DEF OneLiveConnect, ResultAfterTask
  <2>4. ConnectOnlyWhenUp /\ ClientsPublished /\ OpenOwned /\ BeamTypes
    BY DEF ConnectOnlyWhenUp, ClientsPublished, OpenOwned, BeamTypes
  <2>5. QED
    BY <2>2, <2>3, <2>4 DEF ResourceInv
<1>2. ResourceInv /\ BeamTypes /\ [Next]_vars => (ResourceInv /\ BeamTypes)'
  <2> SUFFICES ASSUME ResourceInv, BeamTypes, [Next]_vars PROVE ResourceInv'
    BY BeamTypesStep
  <2>1. CASE UNCHANGED vars
    BY <2>1 DEF vars, config, beam, sockets, timer, radio, ResourceInv, ResourceTypes, TaskIds,
       ConnectOnlyWhenUp, OneLiveConnect, ClientsPublished, ResultAfterTask, OpenOwned
  <2>2. QED
    BY <2>1, ResourceOutside, ResourceTask DEF Next
<1>3. QED
  BY <1>1, <1>2, PTL DEF Spec

(* No client socket leaks, in whatever order the radio, the user, the       *)
(* settings and the tasks run, and after a link loss no client is held and  *)
(* no ConnectTask can publish one.                                          *)
THEOREM ClientsCorrect == Spec => []ClientsReleased
<1>1. ResourceInv => NoSocketLeak
  BY DEF ResourceInv, OpenOwned, NoSocketLeak
<1>2. ResourceInv => LinkLossReleasesClients
  BY DEF ResourceInv, ResourceTypes, ConnectOnlyWhenUp, OneLiveConnect,
     LinkLossReleasesClients, TaskIds, NoTask
<1>3. ResourceInv => ClientsReleased
  BY <1>1, <1>2 DEF ClientsReleased
<1>4. QED
  BY <1>3, ResourceInvHolds, PTL

(* "Still had a reference to mConnectTask!" is never logged.                *)
THEOREM ConnectsNeverOverlap == Spec => NoConnectOverlap
<1>1. ResourceInv /\ BeamTypes /\ [Next]_vars
          => [mConnectTask' # mConnectTask /\ mConnectTask' # NoTask
                  => mConnectTask = NoTask]_vars
  <2> SUFFICES ASSUME ResourceInv, Next, mConnectTask' # mConnectTask, mConnectTask' # NoTask
               PROVE  mConnectTask = NoTask
    OBVIOUS
  <2>1. CASE Background
    BY <2>1 DEF Background, TaskStep, TaskStart, ConnectReadNeeds, ConnectTransports,
       ConnectPublish, SendSnapshot, SendHandover, SendPut, SendReport, link
  <2>2. CASE Environment \/ UiMessage \/ DebounceTimeout \/ onP2pSendConfirmed
    BY <2>2, ResourceOutside DEF ConnectMoves
  <2>3. QED
    BY <2>1, <2>2 DEF Next
<1>2. QED
  BY <1>1, ResourceInvHolds, PTL DEF Spec, NoConnectOverlap

-----------------------------------------------------------------------------
(* A message reaches the remote device once.  The tasks are numbered in the *)
(* order of the executor, and their reports come in that order too.         *)

(* Where a SendTask has taken its copy of the message.                      *)
Sends == {"handover", "put", "succeeded"}
Reports == {"connectDone", "sendComplete"}

(* The first task that has not ended.                                       *)
First == Len(tasks) - Len(executor) + 1

(* The executor holds the last tasks, in order; only its head has begun.    *)
InOrder ==
    /\ Len(executor) <= Len(tasks)
    /\ \A i \in 1 .. Len(executor) : executor[i] = Len(tasks) - Len(executor) + i
    /\ \A t \in TaskIds :
          /\ t < First <=> tasks[t].pc \in {"posted", "done"}
          /\ t > First => tasks[t].pc = "queued"
          /\ tasks[t].pc = "done" => ~tasks[t].result

(* A report is that of a task that has ended, of its kind.                  *)
ReportSound(m) ==
    m.what \in Reports =>
        /\ m.task \in TaskIds /\ m.task < First
        /\ tasks[m.task].kind = IF m.what = "connectDone" THEN "connect" ELSE "send"
ReportsInOrder ==
    /\ \A i \in 1 .. Len(uiQueue) : ReportSound(uiQueue[i])
    /\ \A i, j \in 1 .. Len(uiQueue) :
          i < j /\ uiQueue[i].what \in Reports /\ uiQueue[j].what \in Reports
              => uiQueue[i].task <= uiQueue[j].task

(* No end of a send is to be reported for a task before t.                  *)
NoneBefore(t) ==
    \A i \in 1 .. Len(uiQueue) : uiQueue[i].what = "sendComplete" => uiQueue[i].task >= t

(* After the ConnectTask referred to comes one SendTask at most, and only   *)
(* when the services are connected.                                         *)
OneSendEach ==
    /\ mConnectTask # NoTask =>
          /\ mConnectTask \in TaskIds /\ tasks[mConnectTask].kind = "connect"
          /\ \/ Len(tasks) = mConnectTask
             \/ /\ Len(tasks) = mConnectTask + 1
                /\ mLlcpServicesConnected /\ mSendState # "NEED_CONFIRMATION"
    /\ mLlcpServicesConnected =>
          /\ mConnectTask # NoTask /\ mConnectTask < First /\ NoneBefore(mConnectTask)
          /\ tasks[mConnectTask].pc = "done"

(* When a SendTask was added, those before it had ended and reported.       *)
SendsLast ==
    \A t \in TaskIds : tasks[t].kind = "send" => t <= First /\ NoneBefore(t)

(* A message is copied for the current session or an earlier one, and not   *)
(* after a task took it for sent; one to be confirmed is not copied.        *)
Sessions ==
    /\ \A s \in completed : s \in Nat /\ s <= session
    /\ \A t \in TaskIds : tasks[t].pc \in Sends =>
          /\ tasks[t].session <= session
          /\ tasks[t].pc # "succeeded" => tasks[t].session \notin completed
    /\ mSendState = "NEED_CONFIRMATION" =>
          /\ session \notin completed
          /\ \A t \in TaskIds : tasks[t].pc \in Sends => tasks[t].session # session

(* Once a task took it for sent, the send is over or its end is reported.   *)
SendComes == \E i \in 1 .. Len(uiQueue) : uiQueue[i].what = "sendComplete"
Reported ==
    mLinkState # "DOWN" /\ mSendState = "SENDING" /\ session \in completed =>
        SendComes \/ \E t \in TaskIds : tasks[t].pc = "succeeded"

SendInv == InOrder /\ ReportsInOrder /\ OneSendEach /\ SendsLast /\ Sessions /\ Reported

(* What the steps that are not of a task do to the tasks: nothing that      *)
(* counts here, but for one that is added.                                  *)
KeepsSends ==
    /\ \A j \in TaskIds :
          /\ tasks'[j].kind = tasks[j].kind
          /\ \/ /\ tasks'[j].pc = tasks[j].pc /\ tasks'[j].session = tasks[j].session
                /\ tasks'[j].result = tasks[j].result
             \/ tasks[j].pc \in {"posted", "done"} /\ tasks'[j].pc = "done" /\ ~tasks'[j].result
    /\ tasks' \in Seq(TaskRecords) /\ executor' \in Seq(Nat)
    /\ \/ Len(tasks') = Len(tasks) /\ UNCHANGED executor
       \/ /\ Len(tasks') = Len(tasks) + 1 /\ executor' = Append(executor, Len(tasks) + 1)
          /\ tasks'[Len(tasks) + 1].pc = "queued"

(* They add no report to the queue.                                         *)
NoReports ==
    \/ UNCHANGED uiQueue
    \/ uiQueue # <<>> /\ uiQueue' = Tail(uiQueue)
    \/ \E m \in [what : Whats, task : Nat] :
          uiQueue' = Append(uiQueue, m) /\ m.what \notin Reports

(* They go on with the services as they are, disconnect, connect anew, or   *)
(* are the report of the ConnectTask referred to.                           *)
ConnectTurns ==
    \/ /\ UNCHANGED <<mConnectTask, mLlcpServicesConnected>> /\ Len(tasks') = Len(tasks)
       /\ mConnectTask # NoTask /\ mSendState' = "NEED_CONFIRMATION"
             => mSendState = "NEED_CONFIRMATION"
    \/ mConnectTask' = NoTask /\ ~mLlcpServicesConnected' /\ Len(tasks') = Len(tasks)
    \/ /\ mConnectTask = NoTask /\ mConnectTask' = Len(tasks')
       /\ UNCHANGED mLlcpServicesConnected
       /\ Len(tasks') = Len(tasks) + 1 /\ tasks'[Len(tasks')].kind = "connect"
    \/ /\ UNCHANGED mConnectTask /\ mLlcpServicesConnected'
       /\ mConnectTask = Len(tasks) /\ mConnectTask # NoTask
       /\ mConnectTask < First /\ NoneBefore(mConnectTask)' /\ tasks'[mConnectTask].pc = "done"
       /\ \/ Len(tasks') = Len(tasks)
          \/ /\ Len(tasks') = Len(tasks) + 1 /\ tasks'[Len(tasks')].kind = "send"
             /\ mSendState' # "NEED_CONFIRMATION"

(* A new session begins with the link down; the end of a send is taken from *)
(* the queue only by a step after which nothing is being sent.              *)
SessionTurns ==
    /\ UNCHANGED completed
    /\ \/ session' = session + 1
       \/ /\ UNCHANGED session
          /\ mSendState' = "NEED_CONFIRMATION" => mSendState = "NEED_CONFIRMATION"
          /\ mLinkState' # "DOWN" /\ mSendState' = "SENDING" =>
                \/ mSendState = "NEED_CONFIRMATION"
                \/ /\ mLinkState # "DOWN" /\ mSendState = "SENDING"
                   /\ uiQueue # <<>> /\ uiQueue' = Tail(uiQueue)
                         => Head(uiQueue).what # "sendComplete"

(* The parts of the type invariants that these proofs use.                  *)
SendTypes ==
    /\ tasks \in Seq(TaskRecords) /\ Len(tasks) \in Nat
    /\ executor \in Seq(Nat) /\ Len(executor) \in Nat
    /\ uiQueue \in Seq([what : Whats, task : Nat]) /\ Len(uiQueue) \in Nat
    /\ mConnectTask \in Nat /\ session \in Nat

(* The types that the sequences and the counters need, of the invariants    *)
(* proved above.                                                            *)
LEMMA SendTypesHold == ASSUME ResourceInv, BeamTypes PROVE SendTypes
<1>1. TaskIds \subseteq Nat
  BY DEF TaskIds
<1>2. executor \in Seq(Nat)
  BY <1>1, SeqMonotonic DEF ResourceInv, ResourceTypes
<1>3. QED
  BY <1>2, LenProperties DEF ResourceInv, ResourceTypes, BeamTypes, SendTypes

(* Adding a task behind the others keeps their order.                       *)
LEMMA OutsideOrder ==
    ASSUME SendTypes, InOrder, KeepsSends
    PROVE  /\ InOrder' /\ First' = First /\ First \in Nat \ {0}
           /\ TaskIds \subseteq TaskIds' /\ \A j \in TaskIds' : j \in TaskIds \/ j = Len(tasks')
           /\ Len(tasks') \in Nat
<1>1. Len(tasks') \in Nat /\ Len(executor') \in Nat
  BY LenProperties DEF KeepsSends
<1>2. CASE Len(tasks') = Len(tasks) /\ UNCHANGED executor
  <2>1. First' = First /\ TaskIds' = TaskIds /\ First \in Nat \ {0}
    BY <1>2 DEF SendTypes, First, TaskIds, InOrder
  <2>2. \A t \in TaskIds : /\ t < First <=> tasks'[t].pc \in {"posted", "done"}
                           /\ t > First => tasks'[t].pc = "queued"
                           /\ tasks'[t].pc = "done" => ~tasks'[t].result
    BY DEF InOrder, KeepsSends
  <2>3. InOrder'
    BY <1>2, <2>1, <2>2 DEF InOrder
  <2>4. QED
    BY <1>1, <2>1, <2>3
<1>3. CASE /\ Len(tasks') = Len(tasks) + 1 /\ executor' = Append(executor, Len(tasks) + 1)
           /\ tasks'[Len(tasks) + 1].pc = "queued"
  <2>1. /\ Len(executor') = Len(executor) + 1 /\ executor'[Len(executor) + 1] = Len(tasks) + 1
        /\ \A i \in 1 .. Len(executor) : executor'[i] = executor[i]
    BY <1>3, AppendProperties DEF SendTypes
  <2>2. First' = First /\ First <= Len(tasks) + 1 /\ First \in Nat \ {0}
    BY <1>3, <2>1 DEF First, SendTypes, InOrder
  <2>3. \A i \in 1 .. Len(executor') : executor'[i] = Len(tasks') - Len(executor') + i
    <3> TAKE i \in 1 .. Len(executor')
    <3>1. i \in 1 .. Len(executor) \/ i = Len(executor) + 1
      BY <2>1 DEF SendTypes
    <3>2. Len(tasks') - Len(executor') = Len(tasks) - Len(executor)
      BY <1>3, <2>1 DEF SendTypes
    <3>3. CASE i \in 1 .. Len(executor)
      BY <2>1, <3>2, <3>3 DEF InOrder
    <3>4. CASE i = Len(executor) + 1
      BY <1>3, <2>1, <3>2, <3>4 DEF SendTypes
    <3>5. QED
      BY <3>1, <3>3, <3>4
  <2>4. ASSUME NEW t \in TaskIds'
        PROVE  /\ t < First <=> tasks'[t].pc \in {"posted", "done"}
               /\ t > First => tasks'[t].pc = "queued"
               /\ tasks'[t].pc = "done" => ~tasks'[t].result
    <3>1. t \in TaskIds \/ t = Len(tasks) + 1
      BY <1>3 DEF TaskIds, SendTypes
    <3>2. CASE t \in TaskIds
      <4>1. \/ tasks'[t].pc = tasks[t].pc /\ tasks'[t].result = tasks[t].result
            \/ tasks[t].pc \in {"posted", "done"} /\ tasks'[t].pc = "done" /\ ~tasks'[t].result
        BY <3>2 DEF KeepsSends
      <4>2. QED
        BY <2>2, <3>2, <4>1 DEF InOrder, TaskIds
    <3>3. CASE t = Len(tasks) + 1
      BY <1>3, <2>2, <3>3 DEF SendTypes
    <3>4. QED
      BY <3>1, <3>2, <3>3
  <2>5. Len(executor') <= Len(tasks')
    BY <1>3, <2>1 DEF InOrder, SendTypes
  <2>6. InOrder'
    BY <2>2, <2>3, <2>4, <2>5 DEF InOrder
  <2>7. TaskIds \subseteq TaskIds' /\ \A j \in TaskIds' : j \in TaskIds \/ j = Len(tasks')
    BY <1>3 DEF TaskIds, SendTypes
  <2>8. QED
    BY <1>1, <2>2, <2>6, <2>7
<1>4. QED
  BY <1>2, <1>3 DEF KeepsSends

(* What is left in the queue was there, in the same order.                  *)
LEMMA OutsideQueue ==
    ASSUME SendTypes, NoReports
    PROVE  \E d \in {0, 1} :
              /\ Len(uiQueue') \in Nat
              /\ \A i \in 1 .. Len(uiQueue') :
                    \/ uiQueue'[i].what \notin Reports
                    \/ i + d \in 1 .. Len(uiQueue) /\ uiQueue'[i] = uiQueue[i + d]
              /\ d = 0 => \A i \in 1 .. Len(uiQueue) :
                             i \in 1 .. Len(uiQueue') /\ uiQueue'[i] = uiQueue[i]
              /\ d = 1 => /\ uiQueue' = Tail(uiQueue) /\ uiQueue[1] = Head(uiQueue)
                          /\ \A i \in 2 .. Len(uiQueue) :
                                i - 1 \in 1 .. Len(uiQueue') /\ uiQueue'[i - 1] = uiQueue[i]
<1>1. CASE UNCHANGED uiQueue
  <2>1. WITNESS 0 \in {0, 1}
  <2>2. QED
    BY <1>1 DEF SendTypes
<1>2. CASE uiQueue # <<>> /\ uiQueue' = Tail(uiQueue)
  <2>1. /\ Len(uiQueue') = Len(uiQueue) - 1 /\ Len(uiQueue) # 0
        /\ \A i \in 1 .. Len(uiQueue') : uiQueue'[i] = uiQueue[i + 1]
    BY <1>2, HeadTailProperties, EmptySeq DEF SendTypes
  <2>2. WITNESS 1 \in {0, 1}
  <2>3. uiQueue[1] = Head(uiQueue)
    BY <1>2 DEF SendTypes
  <2>4. QED
    BY <1>2, <2>1, <2>3 DEF SendTypes
<1>3. CASE \E m \in [what : Whats, task : Nat] :
              uiQueue' = Append(uiQueue, m) /\ m.what \notin Reports
  <2>1. PICK m \in [what : Whats, task : Nat] :
              uiQueue' = Append(uiQueue, m) /\ m.what \notin Reports
    BY <1>3
  <2>2. /\ Len(uiQueue') = Len(uiQueue) + 1 /\ uiQueue'[Len(uiQueue) + 1] = m
        /\ \A i \in 1 .. Len(uiQueue) : uiQueue'[i] = uiQueue[i]
    BY <2>1, AppendProperties DEF SendTypes
  <2>3. WITNESS 0 \in {0, 1}
  <2>4. \A i \in 1 .. Len(uiQueue') : i \in 1 .. Len(uiQueue) \/ i = Len(uiQueue) + 1
    BY <2>2 DEF SendTypes
  <2>5. QED
    BY <2>1, <2>2, <2>4 DEF SendTypes
<1>4. QED
  BY <1>1, <1>2, <1>3 DEF NoReports

(* So the steps that are not of a task preserve the invariant.              *)
LEMMA OutsideSends ==
    ASSUME SendTypes, SendInv, KeepsSends, NoReports, ConnectTurns, SessionTurns
    PROVE  SendInv'
<1> USE DEF SendInv
<1>1. /\ InOrder' /\ First' = First /\ First \in Nat \ {0}
      /\ TaskIds \subseteq TaskIds' /\ \A j \in TaskIds' : j \in TaskIds \/ j = Len(tasks')
      /\ Len(tasks') \in Nat
  BY OutsideOrder
<1>2. PICK d \in {0, 1} :
              /\ Len(uiQueue') \in Nat
              /\ \A i \in 1 .. Len(uiQueue') :
                    \/ uiQueue'[i].what \notin Reports
                    \/ i + d \in 1 .. Len(uiQueue) /\ uiQueue'[i] = uiQueue[i + d]
              /\ d = 0 => \A i \in 1 .. Len(uiQueue) :
                             i \in 1 .. Len(uiQueue') /\ uiQueue'[i] = uiQueue[i]
              /\ d = 1 => /\ uiQueue' = Tail(uiQueue) /\ uiQueue[1] = Head(uiQueue)
                          /\ \A i \in 2 .. Len(uiQueue) :
                                i - 1 \in 1 .. Len(uiQueue') /\ uiQueue'[i - 1] = uiQueue[i]
  BY OutsideQueue
<1>3. \A j \in TaskIds :
          /\ tasks'[j].kind = tasks[j].kind
          /\ \/ tasks'[j].pc = tasks[j].pc /\ tasks'[j].session = tasks[j].session
             \/ tasks[j].pc \in {"posted", "done"} /\ tasks'[j].pc = "done"
  BY DEF KeepsSends
<1>4. ASSUME NEW i \in 1 .. Len(uiQueue'), uiQueue'[i].what \in Reports
      PROVE  /\ uiQueue'[i].task \in TaskIds' /\ uiQueue'[i].task < First'
             /\ tasks'[uiQueue'[i].task].kind
                   = IF uiQueue'[i].what = "connectDone" THEN "connect" ELSE "send"
  <2>1. i + d \in 1 .. Len(uiQueue) /\ uiQueue'[i] = uiQueue[i + d]
    BY <1>2, <1>4
  <2>2. ReportSound(uiQueue[i + d])
    BY <2>1 DEF ReportsInOrder
  <2>3. QED
    BY <1>1, <1>3, <1>4, <2>1, <2>2 DEF ReportSound
<1>5. ASSUME NEW i \in 1 .. Len(uiQueue'), NEW j \in 1 .. Len(uiQueue'), i < j,
             uiQueue'[i].what \in Reports, uiQueue'[j].what \in Reports
      PROVE  uiQueue'[i].task <= uiQueue'[j].task
  <2>1. /\ i + d \in 1 .. Len(uiQueue) /\ uiQueue'[i] = uiQueue[i + d]
        /\ j + d \in 1 .. Len(uiQueue) /\ uiQueue'[j] = uiQueue[j + d]
    BY <1>2, <1>5
  <2>2. i + d < j + d
    BY <1>2, <1>5
  <2>3. QED
    BY <1>5, <2>1, <2>2 DEF ReportsInOrder
<1>6. ReportsInOrder'
  BY <1>4, <1>5 DEF ReportsInOrder, ReportSound
<1> DEFINE Later(n) == \A i \in 1 .. Len(uiQueue') :
                           uiQueue'[i].what = "sendComplete" => uiQueue'[i].task >= n
<1>7. ASSUME NEW n, NoneBefore(n) PROVE Later(n)
  BY <1>2, <1>7 DEF NoneBefore, Reports
<1>8. OneSendEach'
  <2> USE <1>1
  <2>0. Len(tasks) \in Nat /\ mConnectTask \in Nat /\ NoTask = 0 /\ TaskIds' = 1 .. Len(tasks')
    BY DEF SendTypes, NoTask, TaskIds
  <2>a. mConnectTask # NoTask => mConnectTask \in TaskIds /\ tasks[mConnectTask].kind = "connect"
    BY DEF OneSendEach
  <2>1. CASE /\ UNCHANGED <<mConnectTask, mLlcpServicesConnected>> /\ Len(tasks') = Len(tasks)
             /\ mConnectTask # NoTask /\ mSendState' = "NEED_CONFIRMATION"
                   => mSendState = "NEED_CONFIRMATION"
    <3>1. mLlcpServicesConnected => Later(mConnectTask)
      BY <1>7 DEF OneSendEach
    <3>2. mLlcpServicesConnected' =>
             /\ Later(mConnectTask') /\ mConnectTask' # NoTask /\ mConnectTask' < First'
             /\ tasks'[mConnectTask'].pc = "done"
      BY <2>1, <2>a, <3>1, <1>3 DEF OneSendEach
    <3>3. mConnectTask' # NoTask => mConnectTask' \in TaskIds' /\ tasks'[mConnectTask'].kind = "connect"
      BY <2>1, <2>a, <1>3
    <3>4. mConnectTask' # NoTask =>
             \/ Len(tasks') = mConnectTask'
             \/ /\ Len(tasks') = mConnectTask' + 1
                /\ mLlcpServicesConnected' /\ mSendState' # "NEED_CONFIRMATION"
      BY <2>1 DEF OneSendEach
    <3>5. QED
      BY <3>2, <3>3, <3>4 DEF OneSendEach, NoneBefore
  <2>2. CASE mConnectTask' = NoTask /\ ~mLlcpServicesConnected' /\ Len(tasks') = Len(tasks)
    BY <2>2 DEF OneSendEach
  <2>3. CASE /\ mConnectTask = NoTask /\ mConnectTask' = Len(tasks')
             /\ UNCHANGED mLlcpServicesConnected
             /\ Len(tasks') = Len(tasks) + 1 /\ tasks'[Len(tasks')].kind = "connect"
    <3>1. ~mLlcpServicesConnected'
      BY <2>3 DEF OneSendEach
    <3>2. QED
      BY <2>0, <2>3, <3>1 DEF OneSendEach
  <2>4. CASE /\ UNCHANGED mConnectTask /\ mLlcpServicesConnected'
             /\ mConnectTask = Len(tasks) /\ mConnectTask # NoTask
             /\ mConnectTask < First /\ NoneBefore(mConnectTask)' /\ tasks'[mConnectTask].pc = "done"
             /\ \/ Len(tasks') = Len(tasks)
                \/ /\ Len(tasks') = Len(tasks) + 1 /\ tasks'[Len(tasks')].kind = "send"
                   /\ mSendState' # "NEED_CONFIRMATION"
    <3>1. mConnectTask' \in TaskIds' /\ tasks'[mConnectTask'].kind = "connect"
      BY <2>4, <2>a, <1>3
    <3>2. Later(mConnectTask')
      BY <2>4 DEF NoneBefore
    <3>3. QED
      BY <2>0, <2>4, <3>1, <3>2 DEF OneSendEach, NoneBefore
  <2>5. QED
    BY <2>1, <2>2, <2>3, <2>4 DEF ConnectTurns
<1>9. SendsLast'
  <2> SUFFICES ASSUME NEW t \in TaskIds', tasks'[t].kind = "send"
               PROVE  t <= First' /\ NoneBefore(t)'
    BY DEF SendsLast
  <2>1. CASE t \in TaskIds
    <3>1. t <= First /\ NoneBefore(t)
      BY <2>1, <1>3 DEF SendsLast
    <3>2. QED
      BY <3>1, <1>1, <1>7 DEF NoneBefore
  <2>2. CASE t \notin TaskIds
    <3>1. t = Len(tasks') /\ Len(tasks') = Len(tasks) + 1 /\ t \in Nat
      BY <1>1, <2>2 DEF KeepsSends, TaskIds, SendTypes
    <3>2. /\ mConnectTask = Len(tasks) /\ mConnectTask < First
          /\ UNCHANGED mConnectTask /\ NoneBefore(mConnectTask)'
      BY <3>1 DEF ConnectTurns, SendTypes
    <3>3. t <= First'
      BY <1>1, <3>1, <3>2 DEF SendTypes
    <3>4. ASSUME NEW i \in 1 .. Len(uiQueue'), uiQueue'[i].what = "sendComplete"
          PROVE  uiQueue'[i].task >= t
      <4>1. i + d \in 1 .. Len(uiQueue) /\ uiQueue'[i] = uiQueue[i + d]
        BY <1>2, <3>4 DEF Reports
      <4>2. ReportSound(uiQueue[i + d])
        BY <4>1 DEF ReportsInOrder
      <4>3. uiQueue'[i].task \in TaskIds /\ tasks[uiQueue'[i].task].kind = "send"
        BY <3>4, <4>1, <4>2 DEF ReportSound, Reports
      <4>4. uiQueue'[i].task >= Len(tasks)
        BY <3>2, <3>4 DEF NoneBefore
      <4>5. tasks[Len(tasks)].kind = "connect" /\ Len(tasks) # NoTask
        <5>1. mConnectTask # NoTask
          BY <3>1 DEF ConnectTurns, SendTypes
        <5>2. QED
          BY <5>1, <3>2 DEF OneSendEach
      <4>6. uiQueue'[i].task = Len(tasks)
        BY <4>3, <4>4 DEF TaskIds, SendTypes
      <4>7. QED
        BY <4>3, <4>5, <4>6
    <3>5. QED
      BY <3>3, <3>4 DEF NoneBefore
  <2>3. QED
    BY <2>1, <2>2
<1>10. \A t \in TaskIds' : tasks'[t].pc \in Sends =>
           t \in TaskIds /\ tasks[t].pc = tasks'[t].pc /\ tasks'[t].session = tasks[t].session
  <2> TAKE t \in TaskIds'
  <2>1. CASE t \in TaskIds
    BY <1>3, <2>1 DEF Sends
  <2>2. CASE t \notin TaskIds
    <3>1. t = Len(tasks') /\ Len(tasks') = Len(tasks) + 1
      BY <1>1, <2>2 DEF KeepsSends, TaskIds, SendTypes
    <3>2. QED
      BY <3>1 DEF KeepsSends, Sends, SendTypes
  <2>3. QED
    BY <2>1, <2>2
<1>11. Sessions'
  <2>0. session \in Nat /\ UNCHANGED completed
    BY DEF SendTypes, SessionTurns
  <2>1. CASE session' = session + 1
    <3>1. /\ \A s \in completed : s \in Nat /\ s <= session
          /\ \A t \in TaskIds : tasks[t].pc \in Sends =>
                /\ tasks[t].session <= session
                /\ tasks[t].pc # "succeeded" => tasks[t].session \notin completed
      BY DEF Sessions
    <3>2. \A t \in TaskIds : tasks[t] \in TaskRecords
      BY DEF SendTypes, TaskIds
    <3>3. \A t \in TaskIds : tasks[t].session \in Nat
      BY <3>2 DEF TaskRecords
    <3>4. /\ \A s \in completed : s # session' /\ s \in Nat /\ s <= session'
          /\ \A t \in TaskIds : tasks[t].pc \in Sends => tasks[t].session # session' /\ tasks[t].session <= session'
      BY <2>0, <2>1, <3>1, <3>3
    <3>5. QED
      BY <1>10, <2>0, <3>1, <3>4 DEF Sessions
  <2>2. CASE UNCHANGED session /\ (mSendState' = "NEED_CONFIRMATION" => mSendState = "NEED_CONFIRMATION")
    BY <1>10, <2>0, <2>2 DEF Sessions
  <2>3. QED
    BY <2>1, <2>2 DEF SessionTurns
<1>12. Reported'
  <2> SUFFICES ASSUME mLinkState' # "DOWN", mSendState' = "SENDING", session' \in completed'
               PROVE  SendComes' \/ \E t \in TaskIds' : tasks'[t].pc = "succeeded"
    BY DEF Reported
  <2>1. UNCHANGED session
    <3>1. session \in Nat /\ session' \in completed /\ \A s \in completed : s <= session
      BY DEF SendTypes, SessionTurns, Sessions
    <3>2. QED
      BY <3>1 DEF SessionTurns
  <2>2. /\ mLinkState # "DOWN" /\ mSendState = "SENDING" /\ session \in completed
        /\ uiQueue # <<>> /\ uiQueue' = Tail(uiQueue)
                         => Head(uiQueue).what # "sendComplete"
    BY <2>1 DEF SessionTurns, Sessions, SendTypes
  <2>3. CASE \E t \in TaskIds : tasks[t].pc = "succeeded"
    BY <1>1, <1>3, <2>3
  <2>4. CASE SendComes
    <3>1. PICK i \in 1 .. Len(uiQueue) : uiQueue[i].what = "sendComplete"
      BY <2>4 DEF SendComes
    <3>2. CASE d = 0
      BY <1>2, <3>1, <3>2 DEF SendComes
    <3>3. CASE d = 1
      <4>1. i # 1
        <5>1. uiQueue # <<>>
          BY <3>1, EmptySeq
        <5>2. QED
          BY <1>2, <2>2, <3>1, <3>3, <5>1
      <4>2. i \in 2 .. Len(uiQueue)
        BY <4>1 DEF SendTypes
      <4>3. QED
        BY <1>2, <3>1, <3>3, <4>2 DEF SendComes
    <3>4. QED
      BY <3>2, <3>3
  <2>5. QED
    BY <2>2, <2>3, <2>4 DEF Reported
<1>13. QED
  BY <1>1, <1>6, <1>8, <1>9, <1>11, <1>12

(* What the operators on tasks keep of the sends.                           *)
SameSends(old, new, t) ==
    /\ new[t].kind = old[t].kind
    /\ \/ new[t].pc = old[t].pc /\ new[t].session = old[t].session /\ new[t].result = old[t].result
       \/ old[t].pc \in {"posted", "done"} /\ new[t].pc = "done" /\ ~new[t].result

(* Cancelling touches neither a copy nor a result.                          *)
LEMMA CancelSends ==
    ASSUME NEW ts \in Seq(TaskRecords), NEW t
    PROVE  \A j \in 1 .. Len(ts) :
              /\ Cancel(ts, t)[j].session = ts[j].session /\ Cancel(ts, t)[j].result = ts[j].result
              /\ SameSends(ts, Cancel(ts, t), j)
<1> SUFFICES ASSUME NEW j \in 1 .. Len(ts)
             PROVE  Cancel(ts, t)[j].session = ts[j].session /\ Cancel(ts, t)[j].result = ts[j].result
  BY CancelTask DEF SameSends
<1>1. CASE t = NoTask \/ ts[t].pc = "done"
  BY <1>1 DEF Cancel
<1>2. CASE ~(t = NoTask \/ ts[t].pc = "done")
  <2>1. Cancel(ts, t) = [ts EXCEPT ![t].cancelled = TRUE]
    BY <1>2 DEF Cancel
  <2>2. ts[j] \in TaskRecords /\ DOMAIN ts = 1 .. Len(ts)
    BY ElementOfSeq, LenProperties
  <2>3. QED
    BY <2>1, <2>2 DEF TaskRecords
<1>3. QED
  BY <1>1, <1>2

(* Finishing a task that has posted its result keeps the sends.             *)
LEMMA FinishSends ==
    ASSUME NEW ts \in Seq(TaskRecords), NEW t \in 1 .. Len(ts), ts[t].pc \in {"posted", "done"}
    PROVE  /\ Finish(ts, t)[t].pc = "done"
           /\ \A j \in 1 .. Len(ts) : SameSends(ts, Finish(ts, t), j)
<1>1. DOMAIN ts = 1 .. Len(ts)
  BY LenProperties
<1>2. Finish(ts, t)[t] = [NewTask(ts[t].kind) EXCEPT !.pc = "done"]
  BY <1>1 DEF Finish
<1>3. /\ Finish(ts, t)[t].kind = ts[t].kind /\ Finish(ts, t)[t].pc = "done"
      /\ ~Finish(ts, t)[t].result
  BY <1>2 DEF NewTask
<1>4. \A j \in 1 .. Len(ts) : j # t => Finish(ts, t)[j] = ts[j]
  BY FinishTask
<1>5. QED
  BY <1>3, <1>4 DEF SameSends

(* A step that leaves tasks and executor alone keeps the sends.             *)
LEMMA SameKeepsSends ==
    ASSUME SendTypes, UNCHANGED <<tasks, executor>>
    PROVE  KeepsSends /\ Len(tasks') = Len(tasks)
  BY DEF SendTypes, KeepsSends

(* So does one that changes a task in this way.                             *)
LEMMA OneKeepsSends ==
    ASSUME SendTypes, tasks' \in Seq(TaskRecords), Len(tasks') = Len(tasks), UNCHANGED executor,
           \A j \in TaskIds : SameSends(tasks, tasks', j)
    PROVE  KeepsSends
  BY DEF SendTypes, KeepsSends, SameSends, TaskIds

(* A ConnectTask is added where there is none.                              *)
LEMMA ConnectTurn ==
    ASSUME SendTypes, connectLlcpServices, mConnectTask = NoTask, UNCHANGED mLlcpServicesConnected
    PROVE  KeepsSends /\ ConnectTurns
<1>1. /\ tasks' = Append(tasks, NewTask("connect")) /\ mConnectTask' = Len(tasks) + 1
      /\ executor' = Append(executor, Len(tasks) + 1)
  BY DEF connectLlcpServices
<1>2. /\ tasks' \in Seq(TaskRecords) /\ Len(tasks') = Len(tasks) + 1
      /\ \A j \in 1 .. Len(tasks) : tasks'[j] = tasks[j]
      /\ tasks'[Len(tasks) + 1] = NewTask("connect")
  BY <1>1, AppendTask DEF SendTypes
<1>3. NewTask("connect").pc = "queued" /\ NewTask("connect").kind = "connect"
  BY DEF NewTask
<1>4. executor' \in Seq(Nat)
  BY <1>1, AppendProperties DEF SendTypes
<1>5. KeepsSends
  BY <1>1, <1>2, <1>3, <1>4 DEF KeepsSends, TaskIds
<1>6. QED
  BY <1>1, <1>2, <1>3, <1>5 DEF ConnectTurns

(* A SendTask is added: the one before it is cancelled.                     *)
LEMMA SendTurn ==
    ASSUME SendTypes, NEW ts \in Seq(TaskRecords), Len(ts) = Len(tasks), sendNdefMessage(ts),
           \A j \in TaskIds : SameSends(tasks, ts, j)
    PROVE  /\ KeepsSends /\ Len(tasks') = Len(tasks) + 1 /\ tasks'[Len(tasks')].kind = "send"
           /\ \A j \in TaskIds : tasks'[j].pc = ts[j].pc
<1> DEFINE cs == Cancel(ts, mSendTask)
<1>1. /\ tasks' = Append(cs, NewTask("send"))
      /\ executor' = Append(executor, Len(tasks) + 1)
  BY DEF sendNdefMessage
<1>2. /\ cs \in Seq(TaskRecords) /\ Len(cs) = Len(tasks)
      /\ \A j \in TaskIds : SameSends(ts, cs, j) /\ cs[j].pc = ts[j].pc
  BY CancelTask, CancelSends DEF TaskIds
<1>3. \A j \in TaskIds : SameSends(tasks, cs, j)
  BY <1>2, CancelTask, CancelSends DEF SameSends, TaskIds
<1> HIDE DEF cs
<1>4. /\ tasks' \in Seq(TaskRecords) /\ Len(tasks') = Len(tasks) + 1
      /\ \A j \in TaskIds : tasks'[j] = cs[j]
      /\ tasks'[Len(tasks) + 1] = NewTask("send")
  BY <1>1, <1>2, AppendTask DEF TaskIds
<1>5. NewTask("send").pc = "queued" /\ NewTask("send").kind = "send"
  BY DEF NewTask
<1>6. executor' \in Seq(Nat)
  BY <1>1, AppendProperties DEF SendTypes
<1>7. \A j \in TaskIds : SameSends(tasks, tasks', j)
  BY <1>3, <1>4 DEF SameSends
<1>8. KeepsSends
  BY <1>1, <1>4, <1>5, <1>6, <1>7 DEF KeepsSends, SameSends
<1>9. QED
  BY <1>2, <1>4, <1>5, <1>8

(* Losing the link adds no task and disconnects, or does nothing.           *)
LEMMA LostTurn ==
    ASSUME SendTypes, NEW thread, LinkLost(thread), UNCHANGED mSendState
    PROVE  /\ KeepsSends /\ ConnectTurns
           /\ mLinkState' = "DEBOUNCE" \/ UNCHANGED mLinkState
           /\ mLinkState' = "DEBOUNCE" => mLinkState # "DOWN"
<1>1. CASE mLinkState \in {"WAITING_PDU", "UP"}
  <2> DEFINE cs == Cancel(tasks, mSendTask)
  <2>1. /\ tasks' = Cancel(cs, mConnectTask) /\ mConnectTask' = NoTask
        /\ ~mLlcpServicesConnected' /\ UNCHANGED executor /\ mLinkState' = "DEBOUNCE"
    BY <1>1 DEF LinkLost, disconnectLlcpServices
  <2>2. /\ cs \in Seq(TaskRecords) /\ Len(cs) = Len(tasks)
        /\ \A j \in TaskIds : SameSends(tasks, cs, j) /\ cs[j].pc = tasks[j].pc
                              /\ cs[j].session = tasks[j].session /\ cs[j].result = tasks[j].result
    <3>1. tasks \in Seq(TaskRecords)
      BY DEF SendTypes
    <3>2. /\ cs \in Seq(TaskRecords) /\ Len(cs) = Len(tasks)
          /\ \A j \in 1 .. Len(tasks) : cs[j].pc = tasks[j].pc
      BY <3>1, CancelTask
    <3>3. \A j \in 1 .. Len(tasks) : SameSends(tasks, cs, j)
                /\ cs[j].session = tasks[j].session /\ cs[j].result = tasks[j].result
      BY <3>1, CancelSends
    <3>4. QED
      BY <3>2, <3>3 DEF TaskIds
  <2> HIDE DEF cs
  <2>3. /\ tasks' \in Seq(TaskRecords) /\ Len(tasks') = Len(tasks)
        /\ \A j \in TaskIds : SameSends(cs, tasks', j)
    BY <2>1, <2>2, CancelTask, CancelSends DEF TaskIds
  <2>4. \A j \in TaskIds : SameSends(tasks, tasks', j)
    BY <2>2, <2>3 DEF SameSends
  <2>5. KeepsSends
    BY <2>1, <2>3, <2>4, OneKeepsSends
  <2>6. QED
    BY <1>1, <2>1, <2>3, <2>5 DEF ConnectTurns
<1>2. CASE mLinkState \notin {"WAITING_PDU", "UP"}
  <2>1. UNCHANGED <<tasks, executor, mConnectTask, mLinkState, mLlcpServicesConnected>>
    BY <1>2 DEF LinkLost, noNewTask
  <2>2. QED
    BY <1>2, <2>1, SameKeepsSends DEF ConnectTurns
<1>3. QED
  BY <1>1, <1>2

(* Every step that is not of a task preserves the invariant.                *)
LEMMA OutsideSendStep ==
    ASSUME ResourceInv, BeamTypes, SendInv,
           Environment \/ UiMessage \/ DebounceTimeout \/ onP2pSendConfirmed
    PROVE  SendInv' /\ KeepsSends
<1>0. SendTypes
  BY SendTypesHold
<1> DEFINE Quiet == UNCHANGED <<tasks, executor, mConnectTask, mLlcpServicesConnected>>
<1>a. ASSUME Quiet, mSendState' = "NEED_CONFIRMATION" => mSendState = "NEED_CONFIRMATION" \/ mConnectTask = NoTask
      PROVE  KeepsSends /\ ConnectTurns
  BY <1>0, <1>a, SameKeepsSends DEF ConnectTurns
<1>1. CASE RfActivated \/ RfFirstPacket \/ RfDeactivated \/ onReceive
  <2>1. PICK m \in [what : Whats, task : Nat] : uiQueue' = Append(uiQueue, m) /\ m.what \notin Reports
    BY <1>1 DEF RfActivated, RfFirstPacket, RfDeactivated, onReceive, Post, Message, Whats, NoTask, Reports
  <2>2. Quiet /\ UNCHANGED <<mLinkState, mSendState, completed, session>>
    BY <1>1 DEF RfActivated, RfFirstPacket, RfDeactivated, onReceive, noNewTask, beam
  <2>3. uiQueue # <<>> => uiQueue' # Tail(uiQueue)
    <3>1. Len(uiQueue') = Len(uiQueue) + 1
      BY <1>0, <2>1, AppendProperties DEF SendTypes
    <3>2. uiQueue # <<>> => Len(Tail(uiQueue)) = Len(uiQueue) - 1
      BY <1>0, HeadTailProperties DEF SendTypes
    <3>3. QED
      BY <1>0, <3>1, <3>2 DEF SendTypes
  <2>4. QED
    BY <1>0, <1>a, <2>1, <2>2, <2>3, OutsideSends DEF NoReports, SessionTurns
<1>2. CASE enableDisable
  <2>1. /\ UNCHANGED <<mSendState, uiQueue, completed, session>>
        /\ LinkLost("binder") \/ (Quiet /\ UNCHANGED mLinkState)
    BY <1>2 DEF enableDisable, noNewTask, beam
  <2>2. KeepsSends /\ ConnectTurns /\ (mLinkState' # "DOWN" => mLinkState # "DOWN")
    BY <1>0, <1>a, <2>1, LostTurn
  <2>3. uiQueue # <<>> => uiQueue' # Tail(uiQueue)
    <3>1. uiQueue # <<>> => Len(Tail(uiQueue)) = Len(uiQueue) - 1
      BY <1>0, HeadTailProperties DEF SendTypes
    <3>2. QED
      BY <1>0, <2>1, <3>1 DEF SendTypes
  <2>4. QED
    BY <1>0, <2>1, <2>2, <2>3, OutsideSends DEF NoReports, SessionTurns
<1>3. CASE onLlcpDeactivated
  <2>1. /\ UNCHANGED <<mSendState, completed, session>> /\ LinkLost("ui")
        /\ uiQueue # <<>> /\ uiQueue' = Tail(uiQueue) /\ Head(uiQueue).what = "llcpDeactivated"
    BY <1>3 DEF onLlcpDeactivated, Handle, beam
  <2>2. KeepsSends /\ ConnectTurns /\ (mLinkState' # "DOWN" => mLinkState # "DOWN")
    BY <1>0, <2>1, LostTurn
  <2>3. QED
    BY <1>0, <2>1, <2>2, OutsideSends DEF NoReports, SessionTurns
<1>4. CASE onLlcpActivated
  <2>1. /\ uiQueue # <<>> /\ uiQueue' = Tail(uiQueue) /\ Head(uiQueue).what = "llcpActivated"
        /\ UNCHANGED <<mLlcpServicesConnected, completed>>
    BY <1>4 DEF onLlcpActivated, Handle
  <2>2. CASE ActivatedAgain
    <3>1. Quiet /\ UNCHANGED <<mLinkState, mSendState, session>>
      BY <2>1, <2>2 DEF ActivatedAgain, noNewTask, beam
    <3>2. QED
      BY <1>0, <1>a, <2>1, <3>1, OutsideSends DEF NoReports, SessionTurns
  <2>3. CASE ActivatedFromDebounce
    <3>1. /\ mConnectTask = NoTask /\ mLinkState = "DEBOUNCE" /\ UNCHANGED <<mSendState, session>>
      BY <2>3 DEF ActivatedFromDebounce, ResourceInv, ConnectOnlyWhenUp, beam
    <3>2. SessionTurns
      BY <2>1, <3>1 DEF SessionTurns
    <3>3. KeepsSends /\ ConnectTurns
      BY <1>0, <1>a, <2>1, <2>3, <3>1, ConnectTurn DEF ActivatedFromDebounce, noNewTask
    <3>4. QED
      BY <1>0, <2>1, <3>2, <3>3, OutsideSends DEF NoReports
  <2>4. CASE ActivatedFromDown
    <3>1. mConnectTask = NoTask /\ session' = session + 1
      BY <2>4 DEF ActivatedFromDown, prepareMessageToSend, ResourceInv, ConnectOnlyWhenUp
    <3>2. SessionTurns
      BY <2>1, <3>1 DEF SessionTurns
    <3>3. connectLlcpServices \/ noNewTask
      BY <2>4 DEF ActivatedFromDown, ActivatedNothingToSend, ActivatedNoConfirm, ActivatedAsk
    <3>4. KeepsSends /\ ConnectTurns
      BY <1>0, <1>a, <2>1, <3>1, <3>3, ConnectTurn DEF noNewTask
    <3>5. QED
      BY <1>0, <2>1, <3>2, <3>4, OutsideSends DEF NoReports
  <2>5. QED
    BY <1>4, <2>2, <2>3, <2>4 DEF onLlcpActivated
<1>5. CASE onLlcpFirstPacketReceived
  <2>1. /\ uiQueue # <<>> /\ uiQueue' = Tail(uiQueue) /\ Head(uiQueue).what = "llcpFirstPacket"
        /\ UNCHANGED <<mLlcpServicesConnected, completed, mSendState, session>>
        /\ mLinkState' # "DOWN" => mLinkState # "DOWN"
    BY <1>5 DEF onLlcpFirstPacketReceived, Handle, beam
  <2>2. noNewTask \/ (connectLlcpServices /\ mLinkState = "WAITING_PDU")
    BY <1>5 DEF onLlcpFirstPacketReceived
  <2>3. KeepsSends /\ ConnectTurns
    BY <1>0, <1>a, <2>1, <2>2, ConnectTurn DEF noNewTask, ResourceInv, ConnectOnlyWhenUp
  <2>4. QED
    BY <1>0, <2>1, <2>3, OutsideSends DEF NoReports, SessionTurns
<1>6. CASE onLlcpServicesConnected
  <2> DEFINE t == Head(uiQueue).task
             after == Finish(tasks, t)
  <2>1. /\ uiQueue # <<>> /\ uiQueue' = Tail(uiQueue) /\ Head(uiQueue).what = "connectDone"
        /\ UNCHANGED <<completed, mSendState, session, mLinkState, mConnectTask>>
    BY <1>6 DEF onLlcpServicesConnected, Handle, beam
  <2>2. 1 \in 1 .. Len(uiQueue) /\ uiQueue[1] = Head(uiQueue)
    BY <1>0, <2>1 DEF SendTypes
  <2>3. /\ t \in TaskIds /\ t < First /\ tasks[t].kind = "connect"
        /\ tasks[t].pc \in {"posted", "done"}
    <3>1. ReportSound(uiQueue[1])
      BY <2>2 DEF SendInv, ReportsInOrder
    <3>2. t \in TaskIds /\ t < First /\ tasks[t].kind = "connect"
      BY <2>1, <2>2, <3>1 DEF ReportSound, Reports
    <3>3. QED
      BY <3>2 DEF SendInv, InOrder
  <2>4. /\ after \in Seq(TaskRecords) /\ Len(after) = Len(tasks)
        /\ \A j \in TaskIds : SameSends(tasks, after, j)
        /\ after[t].pc = "done"
    <3>1. tasks \in Seq(TaskRecords) /\ t \in 1 .. Len(tasks)
      BY <1>0, <2>3 DEF SendTypes, TaskIds
    <3>2. after \in Seq(TaskRecords) /\ Len(after) = Len(tasks)
      BY <3>1, FinishTask
    <3>3. QED
      BY <2>3, <3>1, <3>2, FinishSends DEF TaskIds
  <2>5. SessionTurns
    BY <2>1 DEF SessionTurns
  <2>6. CASE ~tasks[t].cancelled /\ tasks[t].result /\ mLinkState = "UP"
    <3>1. tasks[t].pc = "posted" /\ mConnectTask = t /\ t # NoTask
      <4>1. tasks[t].pc # "done"
        BY <2>3, <2>6 DEF SendInv, InOrder
      <4>2. QED
        BY <2>3, <2>6, <4>1 DEF ResourceInv, OneLiveConnect, TaskIds, NoTask
    <3>2. mConnectTask = Len(tasks)
      BY <1>0, <3>1 DEF SendInv, OneSendEach
    <3>3. NoneBefore(mConnectTask)'
      <4>1. /\ Len(uiQueue') = Len(uiQueue) - 1
            /\ \A i \in 1 .. Len(uiQueue') : uiQueue'[i] = uiQueue[i + 1]
        BY <1>0, <2>1, HeadTailProperties DEF SendTypes
      <4>2. ASSUME NEW i \in 1 .. Len(uiQueue'), uiQueue'[i].what = "sendComplete"
            PROVE  uiQueue'[i].task >= t
        <5>1. i + 1 \in 1 .. Len(uiQueue) /\ 1 < i + 1 /\ uiQueue[i + 1] = uiQueue'[i]
          BY <1>0, <4>1 DEF SendTypes
        <5>2. uiQueue[1].task <= uiQueue[i + 1].task
          BY <2>1, <2>2, <4>2, <5>1 DEF SendInv, ReportsInOrder, Reports
        <5>3. uiQueue[i + 1].task \in Nat /\ t \in Nat
          <6>1. uiQueue[i + 1] \in [what : Whats, task : Nat]
            BY <1>0, <5>1, ElementOfSeq DEF SendTypes
          <6>2. QED
            BY <2>3, <6>1 DEF TaskIds
        <5>4. QED
          BY <2>2, <5>1, <5>2, <5>3
      <4>3. QED
        BY <2>1, <3>1, <4>2 DEF NoneBefore
    <3>4. /\ mLlcpServicesConnected'
          /\ \/ sendNdefMessage(after) /\ mSendState = "SENDING"
             \/ tasks' = after /\ UNCHANGED executor
      BY <1>6, <2>6 DEF onLlcpServicesConnected
    <3> HIDE DEF after
    <3>5. CASE sendNdefMessage(after) /\ mSendState = "SENDING"
      <4>1. /\ KeepsSends /\ Len(tasks') = Len(tasks) + 1 /\ tasks'[Len(tasks')].kind = "send"
            /\ tasks'[t].pc = "done"
        BY <1>0, <2>3, <2>4, <3>5, SendTurn
      <4>2. ConnectTurns
        BY <2>1, <2>3, <3>1, <3>2, <3>3, <3>4, <3>5, <4>1 DEF ConnectTurns
      <4>3. QED
        BY <1>0, <2>1, <2>5, <4>1, <4>2, OutsideSends DEF NoReports
    <3>6. CASE tasks' = after /\ UNCHANGED executor
      <4>1. KeepsSends /\ Len(tasks') = Len(tasks) /\ tasks'[t].pc = "done"
        BY <1>0, <2>4, <3>6, OneKeepsSends
      <4>2. ConnectTurns
        BY <2>1, <2>3, <3>1, <3>2, <3>3, <3>4, <4>1 DEF ConnectTurns
      <4>3. QED
        BY <1>0, <2>1, <2>5, <4>1, <4>2, OutsideSends DEF NoReports
    <3>7. QED
      BY <3>4, <3>5, <3>6
  <2>7. CASE ~(~tasks[t].cancelled /\ tasks[t].result /\ mLinkState = "UP")
    <3>1. tasks' = after /\ UNCHANGED <<executor, mLlcpServicesConnected>>
      BY <1>6, <2>7 DEF onLlcpServicesConnected
    <3> HIDE DEF after
    <3>2. KeepsSends /\ Len(tasks') = Len(tasks)
      BY <1>0, <2>4, <3>1, OneKeepsSends
    <3>3. ConnectTurns
      BY <2>1, <3>1, <3>2 DEF ConnectTurns
    <3>4. QED
      BY <1>0, <2>1, <2>5, <3>2, <3>3, OutsideSends DEF NoReports
  <2>8. QED
    BY <2>6, <2>7
<1>7. CASE ReceiveComplete
  <2>1. /\ uiQueue # <<>> /\ uiQueue' = Tail(uiQueue) /\ Head(uiQueue).what = "receive"
        /\ UNCHANGED <<completed, session, mLinkState, mConnectTask, executor, mLlcpServicesConnected>>
        /\ mSendState' \in {mSendState, "NOTHING_TO_SEND"}
        /\ UNCHANGED tasks \/ tasks' = Cancel(tasks, mSendTask)
    BY <1>7 DEF ReceiveComplete, Handle, beam
  <2>2. KeepsSends /\ Len(tasks') = Len(tasks)
    BY <1>0, <2>1, SameKeepsSends, OneKeepsSends, CancelTask, CancelSends DEF SendTypes, TaskIds
  <2>3. ConnectTurns
    BY <2>1, <2>2 DEF ConnectTurns
  <2>4. QED
    BY <1>0, <2>1, <2>2, <2>3, OutsideSends DEF NoReports, SessionTurns
<1>8. CASE HandoverNotSupported \/ SendComplete
  <2>1. /\ uiQueue # <<>> /\ uiQueue' = Tail(uiQueue)
        /\ UNCHANGED <<completed, session, mLinkState>> /\ Quiet
        /\ mSendState' \in {mSendState, "NOTHING_TO_SEND", "SEND_COMPLETE"}
        /\ mLinkState' # "DOWN" => mSendState' # "SENDING"
    BY <1>8 DEF HandoverNotSupported, SendComplete, SendOver, Handle, beam
  <2>2. QED
    BY <1>0, <1>a, <2>1, OutsideSends DEF NoReports, SessionTurns
<1>9. CASE DebounceTimeout
  <2>1. /\ UNCHANGED <<uiQueue, completed, session>> /\ Quiet
        /\ \/ UNCHANGED <<mLinkState, mSendState>>
           \/ mLinkState' = "DOWN" /\ mSendState' = "NOTHING_TO_SEND"
    BY <1>9 DEF DebounceTimeout, OutOfRange, noNewTask
  <2>2. uiQueue # <<>> => uiQueue' # Tail(uiQueue)
    <3>1. uiQueue # <<>> => Len(Tail(uiQueue)) = Len(uiQueue) - 1
      BY <1>0, HeadTailProperties DEF SendTypes
    <3>2. QED
      BY <1>0, <2>1, <3>1 DEF SendTypes
  <2>3. QED
    BY <1>0, <1>a, <2>1, <2>2, OutsideSends DEF NoReports, SessionTurns
<1>10. CASE onP2pSendConfirmed
  <2>1. /\ UNCHANGED <<uiQueue, completed, session, mLlcpServicesConnected>>
        /\ mSendState = "NEED_CONFIRMATION" /\ mSendState' = "SENDING"
    BY <1>10 DEF onP2pSendConfirmed, beam
  <2>2. SessionTurns
    BY <2>1 DEF SessionTurns
  <2>3. CASE connectLlcpServices /\ mLinkState \in {"WAITING_PDU", "UP"}
             /\ (mLinkState = "UP" => mLlcpConnectDelayed)
    <3>1. mConnectTask = NoTask
      BY <2>1, <2>3 DEF ResourceInv, ConnectOnlyWhenUp
    <3>2. QED
      BY <1>0, <2>1, <2>2, <2>3, <3>1, ConnectTurn, OutsideSends DEF NoReports
  <2>4. CASE sendNdefMessage(tasks) /\ UNCHANGED mConnectTask /\ mLlcpServicesConnected
    <3>1. /\ KeepsSends /\ Len(tasks') = Len(tasks) + 1 /\ tasks'[Len(tasks')].kind = "send"
          /\ \A j \in TaskIds : tasks'[j].pc = tasks[j].pc
      BY <1>0, <2>4, SendTurn DEF SameSends, SendTypes
    <3>2. /\ mConnectTask \in TaskIds /\ mConnectTask = Len(tasks) /\ mConnectTask # NoTask
          /\ mConnectTask < First /\ NoneBefore(mConnectTask) /\ tasks[mConnectTask].pc = "done"
      BY <2>1, <2>4 DEF SendInv, OneSendEach
    <3>3. ConnectTurns
      BY <2>1, <2>4, <3>1, <3>2 DEF ConnectTurns, NoneBefore
    <3>4. QED
      BY <1>0, <2>1, <2>2, <3>1, <3>3, OutsideSends DEF NoReports
  <2>5. CASE noNewTask
    BY <1>0, <1>a, <2>1, <2>2, <2>5, OutsideSends DEF NoReports, noNewTask
  <2>6. QED
    BY <1>10, <2>3, <2>4, <2>5 DEF onP2pSendConfirmed
<1>11. QED
  BY <1>1, <1>2, <1>3, <1>4, <1>5, <1>6, <1>7, <1>8, <1>9, <1>10 DEF Environment, UiMessage

(* What the running task t does: it goes on or ends, and tells the UI       *)
(* thread no more than its own end.                                         *)
TaskTurns(t) ==
    /\ t \in TaskIds /\ tasks' \in Seq(TaskRecords) /\ Len(tasks') = Len(tasks)
    /\ \A j \in TaskIds : j # t => tasks'[j] = tasks[j]
    /\ tasks'[t].kind = tasks[t].kind /\ tasks[t].pc \notin {"posted", "done"}
    /\ UNCHANGED <<mLinkState, mSendState, mConnectTask, mLlcpServicesConnected, session>>
    /\ \/ UNCHANGED executor /\ tasks'[t].pc \notin {"queued", "posted", "done"}
       \/ executor' = Tail(executor) /\ tasks'[t].pc \in {"posted", "done"}
    /\ tasks'[t].pc = "done" => ~tasks'[t].result

SameReports ==
    \/ UNCHANGED uiQueue
    \/ \E m \in [what : Whats, task : Nat] :
          uiQueue' = Append(uiQueue, m) /\ m.what \notin Reports

(* What becomes of its copy of the message.                                 *)
CopyTurns(t) ==
    \/ /\ UNCHANGED completed /\ SameReports
       /\ tasks[t].pc # "succeeded" /\ tasks'[t].pc \notin Sends
    \/ /\ UNCHANGED <<completed, uiQueue>> /\ tasks[t].pc = "running" /\ tasks[t].kind = "send"
       /\ mLinkState = "UP" /\ mSendState = "SENDING"
       /\ tasks'[t].pc \in {"handover", "put"} /\ tasks'[t].session = session
    \/ /\ UNCHANGED completed /\ SameReports
       /\ tasks[t].pc = "handover" /\ tasks'[t].pc = "put" /\ tasks'[t].session = tasks[t].session
    \/ /\ UNCHANGED uiQueue /\ tasks[t].pc \in {"handover", "put"}
       /\ completed' = completed \cup {tasks[t].session}
       /\ tasks'[t].pc = "succeeded" /\ tasks'[t].session = tasks[t].session
    \/ /\ UNCHANGED completed /\ uiQueue' = Append(uiQueue, Message("sendComplete", t))
       /\ tasks[t].kind = "send" /\ tasks'[t].pc = "done"
    \/ /\ UNCHANGED completed /\ uiQueue' = Append(uiQueue, Message("connectDone", t))
       /\ tasks[t].kind = "connect" /\ tasks[t].pc = "connected" /\ tasks'[t].pc = "posted"

(* An update of the running task.                                           *)
LEMMA Updated ==
    ASSUME SendTypes, NEW t \in TaskIds, NEW r \in TaskRecords, tasks' = [tasks EXCEPT ![t] = r]
    PROVE  /\ tasks' \in Seq(TaskRecords) /\ Len(tasks') = Len(tasks) /\ tasks'[t] = r
           /\ \A j \in TaskIds : j # t => tasks'[j] = tasks[j]
  BY UpdateTask DEF SendTypes, TaskIds

(* Each step of a task is of this kind.                                     *)
LEMMA TaskStepTurns ==
    ASSUME ResourceInv, BeamTypes, Background
    PROVE  TaskTurns(Head(executor)) /\ CopyTurns(Head(executor))
<1> DEFINE t == Head(executor)
           old == tasks[t]
<1>0. SendTypes
  BY SendTypesHold
<1>1. executor # <<>> /\ TaskStep(t)
  BY DEF Background
<1>2. t \in TaskIds /\ old \in TaskRecords
  <2>1. executor \in Seq(TaskIds) /\ tasks \in Seq(TaskRecords)
    BY DEF ResourceInv, ResourceTypes
  <2>2. t \in TaskIds
    BY <1>1, <2>1, HeadTailProperties
  <2>3. QED
    BY <2>1, <2>2, ElementOfSeq DEF TaskIds
<1>3. /\ old.kind \in {"connect", "send"} /\ old.cancelled \in BOOLEAN
      /\ old.msg \in BOOLEAN /\ old.uris \in BOOLEAN /\ old.result \in BOOLEAN
      /\ old.socks \in [Kinds -> Nat] /\ old.session \in Nat
  BY <1>2 DEF TaskRecords
<1> DEFINE quit == [NewTask(old.kind) EXCEPT !.pc = "done"]
<1>4. quit \in TaskRecords /\ quit.kind = old.kind /\ quit.pc = "done" /\ ~quit.result
  BY <1>3, NewTaskType DEF NewTask, TaskRecords
<1>5. Finish(tasks, t) = [tasks EXCEPT ![t] = quit]
  BY DEF Finish
<1>6. t \in Nat /\ mClient \in [Kinds -> Nat] /\ NoTask \in Nat /\ NoClients \in [Kinds -> Nat]
  BY <1>2 DEF TaskIds, ResourceInv, ResourceTypes, NoTask, NoClients
<1>7. UNCHANGED link => UNCHANGED <<mLinkState, mSendState, mConnectTask, mLlcpServicesConnected, session>>
  BY DEF link, beam
<1>8. UNCHANGED uiQueue => SameReports
  BY DEF SameReports
<1> HIDE DEF t, old, quit
<1>a. ASSUME NEW r \in TaskRecords, tasks' = [tasks EXCEPT ![t] = r], r.kind = old.kind,
             old.pc \notin {"posted", "done"}, UNCHANGED link,
             \/ UNCHANGED executor /\ r.pc \notin {"queued", "posted", "done"}
             \/ executor' = Tail(executor) /\ r.pc \in {"posted", "done"},
             r.pc = "done" => ~r.result
      PROVE  TaskTurns(t) /\ tasks'[t] = r
  BY <1>0, <1>2, <1>7, <1>a, Updated DEF TaskTurns, old
<1>b. ASSUME tasks' = Finish(tasks, t), executor' = Tail(executor), UNCHANGED link,
             old.pc \notin {"posted", "done"}
      PROVE  TaskTurns(t) /\ tasks'[t].pc = "done"
  BY <1>a, <1>b, <1>4, <1>5
<1> USE <1>2, <1>3, <1>6
<1>10. CASE TaskStart(t)
  <2>1. UNCHANGED <<link, uiQueue, completed>> /\ old.pc = "queued"
    BY <1>10 DEF TaskStart, old
  <2>2. CASE old.cancelled
    <3>1. TaskTurns(t) /\ tasks'[t].pc = "done"
      BY <1>10, <1>b, <2>1, <2>2 DEF TaskStart, old
    <3>2. QED
      BY <1>8, <2>1, <3>1 DEF CopyTurns, Sends, t, old
  <2>3. CASE ~old.cancelled
    <3> DEFINE r == [old EXCEPT !.pc = "running"]
    <3>1. r \in TaskRecords /\ r.kind = old.kind /\ r.pc = "running"
      BY DEF TaskRecords
    <3>2. tasks' = [tasks EXCEPT ![t] = r] /\ UNCHANGED executor
      BY <1>10, <2>3 DEF TaskStart, old
    <3> HIDE DEF r
    <3>3. TaskTurns(t) /\ tasks'[t] = r
      BY <1>a, <2>1, <3>1, <3>2
    <3>4. QED
      BY <1>8, <2>1, <3>1, <3>3 DEF CopyTurns, Sends, t, old
  <2>4. QED
    BY <2>2, <2>3
<1>11. CASE ConnectReadNeeds(t)
  <2> DEFINE r == [old EXCEPT !.pc = "connecting", !.msg = mMessageToSend, !.uris = mUrisToSend]
  <2>1. /\ UNCHANGED <<uiQueue, completed>> /\ old.pc = "running"
        /\ tasks' = [tasks EXCEPT ![t] = r] /\ UNCHANGED <<link, executor>>
    BY <1>11 DEF ConnectReadNeeds, Running, old
  <2>2. r \in TaskRecords /\ r.kind = old.kind /\ r.pc = "connecting"
    BY DEF TaskRecords, BeamTypes
  <2> HIDE DEF r
  <2>3. TaskTurns(t) /\ tasks'[t] = r
    BY <1>a, <2>1, <2>2
  <2>4. QED
    BY <1>8, <2>1, <2>2, <2>3 DEF CopyTurns, Sends, t, old
<1>12. CASE ConnectTransports(t)
  <2>1. PICK ks \in SUBSET Kinds :
           tasks' = [tasks EXCEPT ![t].pc = "connected", ![t].result = ks # {},
                            ![t].socks = [k \in Kinds |-> IF k \in ks THEN t ELSE NoTask]]
    BY <1>12 DEF ConnectTransports, Transports
  <2> DEFINE c == [k \in Kinds |-> IF k \in ks THEN t ELSE NoTask]
             r == [old EXCEPT !.pc = "connected", !.result = ks # {}, !.socks = c]
  <2>2. tasks' = [tasks EXCEPT ![t] = r]
    BY <2>1 DEF old
  <2>3. UNCHANGED <<uiQueue, completed>> /\ old.pc = "connecting" /\ UNCHANGED <<link, executor>>
    BY <1>12 DEF ConnectTransports, Running, old
  <2>4. c \in [Kinds -> Nat] /\ (ks # {}) \in BOOLEAN
    OBVIOUS
  <2>5. r \in TaskRecords /\ r.kind = old.kind /\ r.pc = "connected"
    BY <2>4 DEF TaskRecords
  <2> HIDE DEF r
  <2>6. TaskTurns(t) /\ tasks'[t] = r
    BY <1>a, <2>2, <2>3, <2>5
  <2>7. QED
    BY <1>8, <2>3, <2>5, <2>6 DEF CopyTurns, Sends, t, old
<1>13. CASE ConnectPublish(t)
  <2>1. /\ old.pc = "connected" /\ old.kind = "connect" /\ UNCHANGED <<link, completed>>
        /\ executor' = Tail(executor) /\ uiQueue' = Append(uiQueue, Message("connectDone", t))
    BY <1>13 DEF ConnectPublish, Running, old, Post
  <2>2. PICK r \in {[old EXCEPT !.pc = "posted", !.socks = NoClients, !.result = FALSE],
                    [old EXCEPT !.pc = "posted", !.socks = NoClients]} :
            tasks' = [tasks EXCEPT ![t] = r]
    BY <1>13 DEF ConnectPublish, old
  <2>3. r \in TaskRecords /\ r.kind = old.kind /\ r.pc = "posted"
    BY DEF TaskRecords
  <2>4. TaskTurns(t) /\ tasks'[t] = r
    BY <1>a, <2>1, <2>2, <2>3
  <2>5. QED
    BY <2>1, <2>3, <2>4 DEF CopyTurns, t, old
<1>14. CASE SendSnapshot(t)
  <2>1. UNCHANGED <<link, uiQueue, completed>> /\ old.pc = "running" /\ old.kind = "send"
    BY <1>14 DEF SendSnapshot, Running, old
  <2>2. CASE tasks' = Finish(tasks, t) /\ executor' = Tail(executor)
    <3>1. TaskTurns(t) /\ tasks'[t].pc = "done"
      BY <1>b, <2>1, <2>2
    <3>2. QED
      BY <1>8, <2>1, <3>1 DEF CopyTurns, Sends, t, old
  <2>3. CASE /\ mLinkState = "UP" /\ mSendState = "SENDING"
             /\ tasks' = [tasks EXCEPT ![t].pc = IF mUrisToSend THEN "handover" ELSE "put",
                                   ![t].msg = mMessageToSend, ![t].uris = mUrisToSend,
                                   ![t].socks = mClient, ![t].session = session]
             /\ UNCHANGED executor
    <3> DEFINE r == [old EXCEPT !.pc = IF mUrisToSend THEN "handover" ELSE "put",
                                !.msg = mMessageToSend, !.uris = mUrisToSend,
                                !.socks = mClient, !.session = session]
    <3>1. /\ r \in TaskRecords /\ r.kind = old.kind /\ r.pc \in {"handover", "put"}
          /\ r.session = session
      BY DEF TaskRecords, BeamTypes
    <3>2. tasks' = [tasks EXCEPT ![t] = r]
      BY <2>3 DEF old
    <3> HIDE DEF r
    <3>3. TaskTurns(t) /\ tasks'[t] = r
      BY <1>a, <2>1, <2>3, <3>1, <3>2
    <3>4. QED
      BY <2>1, <2>3, <3>1, <3>3 DEF CopyTurns, t, old
  <2>4. QED
    BY <1>14, <2>2, <2>3 DEF SendSnapshot
<1>15. CASE SendHandover(t)
  <2>1. UNCHANGED <<link, executor>> /\ old.pc = "handover" /\ old.kind = "send"
    BY <1>15 DEF SendHandover, Running, old
  <2>2. PICK pc \in {"succeeded", "put"} :
           /\ tasks' = [tasks EXCEPT ![t].pc = pc]
           /\ \/ pc = "succeeded" /\ completed' = completed \cup {old.session} /\ UNCHANGED uiQueue
              \/ pc = "put" /\ UNCHANGED <<completed, uiQueue>>
              \/ pc = "put" /\ UNCHANGED completed /\ Post("handoverNotSupported", t)
    BY <1>15 DEF SendHandover, Succeeds, NobodyKnows, old
  <2> DEFINE r == [old EXCEPT !.pc = pc]
  <2>3. r \in TaskRecords /\ r.kind = old.kind /\ r.pc = pc /\ r.session = old.session
    BY DEF TaskRecords
  <2>4. tasks' = [tasks EXCEPT ![t] = r]
    BY <2>2 DEF old
  <2> HIDE DEF r
  <2>5. TaskTurns(t) /\ tasks'[t] = r
    BY <1>a, <2>1, <2>2, <2>3, <2>4
  <2>6. CASE pc = "put" /\ UNCHANGED completed /\ Post("handoverNotSupported", t)
    <3> DEFINE m == Message("handoverNotSupported", t)
    <3>1. m \in [what : Whats, task : Nat] /\ m.what \notin Reports /\ uiQueue' = Append(uiQueue, m)
      BY <2>6 DEF Message, Whats, Reports, Post
    <3> HIDE DEF m
    <3>2. QED
      BY <2>1, <2>3, <2>5, <2>6, <3>1 DEF CopyTurns, SameReports, t, old
  <2>7. QED
    BY <1>8, <2>1, <2>2, <2>3, <2>5, <2>6 DEF CopyTurns, t, old
<1>16. CASE SendPut(t)
  <2>1. UNCHANGED <<link, uiQueue>> /\ old.pc = "put" /\ old.kind = "send"
    BY <1>16 DEF SendPut, Running, old
  <2>2. CASE tasks' = Finish(tasks, t) /\ executor' = Tail(executor) /\ UNCHANGED completed
    <3>1. TaskTurns(t) /\ tasks'[t].pc = "done"
      BY <1>b, <2>1, <2>2
    <3>2. QED
      BY <1>8, <2>1, <2>2, <3>1 DEF CopyTurns, Sends, t, old
  <2>3. CASE /\ tasks' = [tasks EXCEPT ![t].pc = "succeeded"] /\ UNCHANGED executor
             /\ completed' = completed \cup {old.session}
    <3> DEFINE r == [old EXCEPT !.pc = "succeeded"]
    <3>1. r \in TaskRecords /\ r.kind = old.kind /\ r.pc = "succeeded" /\ r.session = old.session
      BY DEF TaskRecords
    <3>2. tasks' = [tasks EXCEPT ![t] = r]
      BY <2>3 DEF old
    <3> HIDE DEF r
    <3>3. TaskTurns(t) /\ tasks'[t] = r
      BY <1>a, <2>1, <2>3, <3>1, <3>2
    <3>4. QED
      BY <2>1, <2>3, <3>1, <3>3 DEF CopyTurns, t, old
  <2>4. QED
    BY <1>16, <2>2, <2>3 DEF SendPut, Succeeds, NobodyKnows, old
<1>17. CASE SendReport(t)
  <2>1. /\ UNCHANGED <<link, completed>> /\ old.pc = "succeeded" /\ old.kind = "send"
        /\ tasks' = Finish(tasks, t) /\ executor' = Tail(executor)
        /\ uiQueue' = Append(uiQueue, Message("sendComplete", t))
    BY <1>17 DEF SendReport, Running, old, Post
  <2>2. TaskTurns(t) /\ tasks'[t].pc = "done"
    BY <1>b, <2>1
  <2>3. QED
    BY <2>1, <2>2 DEF CopyTurns, t, old
<1>18. QED
  BY <1>1, <1>10, <1>11, <1>12, <1>13, <1>14, <1>15, <1>16, <1>17 DEF TaskStep, t

(* A task that goes on or ends keeps the order of the tasks.                *)
LEMMA TaskOrder ==
    ASSUME SendTypes, InOrder, executor # <<>>, TaskTurns(Head(executor))
    PROVE  /\ InOrder' /\ Head(executor) = First /\ First <= First'
           /\ TaskIds' = TaskIds /\ First \in Nat /\ First' \in Nat
           /\ tasks'[First].pc \in {"posted", "done"} => First < First'
<1> DEFINE t == Head(executor)
<1>1. /\ Len(executor) \in Nat \ {0} /\ executor[1] = t
      /\ Len(Tail(executor)) = Len(executor) - 1
      /\ \A i \in 1 .. Len(Tail(executor)) : Tail(executor)[i] = executor[i + 1]
  BY HeadTailProperties, EmptySeq DEF SendTypes
<1>2. t = Len(tasks) - Len(executor) + 1 /\ t = First /\ First \in Nat
  BY <1>1 DEF InOrder, First, SendTypes
<1>3. Len(tasks') = Len(tasks) /\ TaskIds' = TaskIds
  BY DEF TaskTurns, TaskIds
<1> HIDE DEF t
<1>4. \A j \in TaskIds : j # t => tasks'[j] = tasks[j]
  BY DEF TaskTurns, t
<1>5. CASE UNCHANGED executor /\ tasks'[t].pc \notin {"queued", "posted", "done"}
  <2>1. First' = First
    BY <1>3, <1>5 DEF First
  <2>2. \A j \in TaskIds : /\ j < First <=> tasks'[j].pc \in {"posted", "done"}
                           /\ j > First => tasks'[j].pc = "queued"
                           /\ tasks'[j].pc = "done" => ~tasks'[j].result
    BY <1>2, <1>4, <1>5 DEF InOrder, TaskIds
  <2>3. InOrder'
    BY <1>3, <1>5, <2>1, <2>2 DEF InOrder
  <2>4. QED
    BY <1>2, <1>3, <1>5, <2>1, <2>3 DEF t
<1>6. CASE executor' = Tail(executor) /\ tasks'[t].pc \in {"posted", "done"}
  <2>1. First' = First + 1
    BY <1>1, <1>2, <1>3, <1>6 DEF First, SendTypes
  <2>2. tasks'[t].pc = "done" => ~tasks'[t].result
    BY DEF TaskTurns, t
  <2>3. ASSUME NEW j \in TaskIds
        PROVE  /\ j < First + 1 <=> tasks'[j].pc \in {"posted", "done"}
               /\ j > First + 1 => tasks'[j].pc = "queued"
               /\ tasks'[j].pc = "done" => ~tasks'[j].result
    <3>1. j \in Nat
      BY DEF TaskIds
    <3>2. CASE j = t
      BY <1>2, <1>6, <2>2, <3>1, <3>2
    <3>3. CASE j # t
      <4>1. tasks'[j] = tasks[j] /\ (j < First + 1 <=> j < First)
        BY <1>2, <1>4, <3>1, <3>3
      <4>2. /\ j < First <=> tasks[j].pc \in {"posted", "done"}
            /\ j > First => tasks[j].pc = "queued"
            /\ tasks[j].pc = "done" => ~tasks[j].result
        BY DEF InOrder
      <4>3. QED
        BY <1>2, <3>1, <4>1, <4>2
    <3>4. QED
      BY <3>2, <3>3
  <2>4. \A i \in 1 .. Len(executor') : executor'[i] = Len(tasks') - Len(executor') + i
    <3> TAKE i \in 1 .. Len(executor')
    <3>1. Len(executor') = Len(executor) - 1 /\ i + 1 \in 1 .. Len(executor)
      BY <1>1, <1>6
    <3>2. executor'[i] = executor[i + 1] /\ executor[i + 1] = Len(tasks) - Len(executor) + (i + 1)
      BY <1>1, <1>6, <3>1 DEF InOrder
    <3>3. QED
      BY <1>1, <1>3, <3>1, <3>2 DEF SendTypes
  <2>5. Len(executor') <= Len(tasks')
    BY <1>1, <1>3, <1>6 DEF InOrder, SendTypes
  <2>6. InOrder'
    BY <1>3, <2>1, <2>3, <2>4, <2>5 DEF InOrder
  <2>7. QED
    BY <1>2, <1>3, <2>1, <2>6 DEF t
<1>7. QED
  BY <1>5, <1>6 DEF TaskTurns, t

(* What was in the queue stays there; a message may be added.               *)
LEMMA TaskQueue ==
    ASSUME SendTypes, NEW t \in Nat,
           SameReports \/ \E what \in Reports : uiQueue' = Append(uiQueue, Message(what, t))
    PROVE  /\ Len(uiQueue') \in Nat
           /\ \A i \in 1 .. Len(uiQueue) : i \in 1 .. Len(uiQueue') /\ uiQueue'[i] = uiQueue[i]
           /\ \A i \in 1 .. Len(uiQueue') :
                 \/ i \in 1 .. Len(uiQueue) \/ uiQueue'[i].what \notin Reports
                 \/ /\ i = Len(uiQueue) + 1 /\ uiQueue'[i].task = t
                    /\ uiQueue' = Append(uiQueue, Message(uiQueue'[i].what, t))
<1>1. CASE UNCHANGED uiQueue
  BY <1>1 DEF SendTypes
<1>2. ASSUME NEW m \in [what : Whats, task : Nat], uiQueue' = Append(uiQueue, m)
      PROVE  /\ Len(uiQueue') \in Nat
             /\ \A i \in 1 .. Len(uiQueue) : i \in 1 .. Len(uiQueue') /\ uiQueue'[i] = uiQueue[i]
             /\ \A i \in 1 .. Len(uiQueue') : i \in 1 .. Len(uiQueue) \/ i = Len(uiQueue) + 1
             /\ uiQueue'[Len(uiQueue) + 1] = m
  <2>1. /\ Len(uiQueue') = Len(uiQueue) + 1 /\ uiQueue'[Len(uiQueue) + 1] = m
        /\ \A i \in 1 .. Len(uiQueue) : uiQueue'[i] = uiQueue[i]
    BY <1>2, AppendProperties DEF SendTypes
  <2>2. QED
    BY <2>1 DEF SendTypes
<1>3. CASE \E m \in [what : Whats, task : Nat] :
              uiQueue' = Append(uiQueue, m) /\ m.what \notin Reports
  BY <1>2, <1>3
<1>4. CASE \E what \in Reports : uiQueue' = Append(uiQueue, Message(what, t))
  <2>1. PICK what \in Reports : uiQueue' = Append(uiQueue, Message(what, t))
    BY <1>4
  <2>2. /\ Message(what, t) \in [what : Whats, task : Nat]
        /\ Message(what, t).what = what /\ Message(what, t).task = t
    BY <2>1 DEF Message, Reports, Whats
  <2>3. /\ Len(uiQueue') \in Nat
        /\ \A i \in 1 .. Len(uiQueue) : i \in 1 .. Len(uiQueue') /\ uiQueue'[i] = uiQueue[i]
        /\ \A i \in 1 .. Len(uiQueue') : i \in 1 .. Len(uiQueue) \/ i = Len(uiQueue) + 1
        /\ uiQueue'[Len(uiQueue) + 1] = Message(what, t)
    BY <1>2, <2>1, <2>2
  <2>4. QED
    BY <2>1, <2>2, <2>3
<1>5. QED
  BY <1>1, <1>3, <1>4 DEF SameReports

(* So the steps of the tasks preserve the invariant: a copy is made only    *)
(* where no end of a send is to be reported.                                *)
LEMMA TaskSends ==
    ASSUME SendTypes, SendInv, executor # <<>>,
           TaskTurns(Head(executor)), CopyTurns(Head(executor))
    PROVE  /\ SendInv'
           /\ \A j \in TaskIds : tasks[j].pc # "succeeded" /\ tasks'[j].pc = "succeeded"
                                    => tasks[j].session \notin completed
<1> DEFINE t == Head(executor)
<1>1. /\ InOrder' /\ t = First /\ First <= First'
      /\ TaskIds' = TaskIds /\ First \in Nat /\ First' \in Nat
      /\ tasks'[First].pc \in {"posted", "done"} => First < First'
  BY TaskOrder DEF SendInv
<1> HIDE DEF t
<1>2. /\ t \in TaskIds /\ Len(tasks') = Len(tasks)
      /\ \A j \in TaskIds : j # t => tasks'[j] = tasks[j]
      /\ tasks'[t].kind = tasks[t].kind /\ tasks[t].pc \notin {"posted", "done"}
      /\ UNCHANGED <<mLinkState, mSendState, mConnectTask, mLlcpServicesConnected, session>>
  BY DEF TaskTurns, t
<1>3. CopyTurns(t) /\ t \in Nat
  BY <1>1 DEF t
<1>4. /\ Len(uiQueue') \in Nat
      /\ \A i \in 1 .. Len(uiQueue) : i \in 1 .. Len(uiQueue') /\ uiQueue'[i] = uiQueue[i]
      /\ \A i \in 1 .. Len(uiQueue') :
            \/ i \in 1 .. Len(uiQueue) \/ uiQueue'[i].what \notin Reports
            \/ /\ i = Len(uiQueue) + 1 /\ uiQueue'[i].task = t
               /\ uiQueue' = Append(uiQueue, Message(uiQueue'[i].what, t))
  <2>1. SameReports \/ \E what \in Reports : uiQueue' = Append(uiQueue, Message(what, t))
    BY <1>3 DEF CopyTurns, SameReports, Reports
  <2>2. QED
    BY <1>3, <2>1, TaskQueue
(* A report that is new is that of the task, which has ended.               *)
<1>5. ASSUME NEW i \in 1 .. Len(uiQueue'), i \notin 1 .. Len(uiQueue), uiQueue'[i].what \in Reports
      PROVE  /\ i = Len(uiQueue) + 1 /\ uiQueue'[i].task = t /\ t < First'
             /\ tasks[t].kind = IF uiQueue'[i].what = "connectDone" THEN "connect" ELSE "send"
  <2>1. i = Len(uiQueue) + 1 /\ uiQueue'[i].task = t
    BY <1>4, <1>5
  <2>2. \/ uiQueue'[i].what = "sendComplete" /\ tasks[t].kind = "send" /\ tasks'[t].pc = "done"
        \/ uiQueue'[i].what = "connectDone" /\ tasks[t].kind = "connect" /\ tasks'[t].pc = "posted"
    <3>1. CASE SameReports
      <4>1. uiQueue' # uiQueue
        BY <1>5
      <4>2. PICK m \in [what : Whats, task : Nat] : uiQueue' = Append(uiQueue, m) /\ m.what \notin Reports
        BY <3>1, <4>1 DEF SameReports
      <4>3. uiQueue'[i] = m
        BY <2>1, <4>2, AppendProperties DEF SendTypes
      <4>4. QED
        BY <1>5, <4>2, <4>3
    <3>2. ASSUME NEW what \in Reports, uiQueue' = Append(uiQueue, Message(what, t))
          PROVE  uiQueue'[i].what = what
      <4>1. Message(what, t) \in [what : Whats, task : Nat] /\ Message(what, t).what = what
        BY <1>3 DEF Message, Reports, Whats
      <4>2. uiQueue'[i] = Message(what, t)
        BY <2>1, <3>2, <4>1, AppendProperties DEF SendTypes
      <4>3. QED
        BY <4>1, <4>2
    <3>3. QED
      BY <1>3, <3>1, <3>2 DEF CopyTurns, SameReports, Reports
  <2>3. QED
    BY <1>1, <2>1, <2>2
<1>6. \A j \in TaskIds : tasks'[j].kind = tasks[j].kind
  BY <1>2
<1>7. ReportsInOrder'
  <2>1. ASSUME NEW i \in 1 .. Len(uiQueue'), uiQueue'[i].what \in Reports
        PROVE  /\ uiQueue'[i].task \in TaskIds /\ uiQueue'[i].task < First'
               /\ tasks'[uiQueue'[i].task].kind
                     = IF uiQueue'[i].what = "connectDone" THEN "connect" ELSE "send"
    <3>1. CASE i \in 1 .. Len(uiQueue)
      <4>1. uiQueue'[i] = uiQueue[i] /\ ReportSound(uiQueue[i])
        BY <1>4, <3>1 DEF SendInv, ReportsInOrder
      <4>2. QED
        BY <1>1, <1>6, <2>1, <4>1 DEF ReportSound, TaskIds
    <3>2. CASE i \notin 1 .. Len(uiQueue)
      BY <1>2, <1>5, <1>6, <2>1, <3>2
    <3>3. QED
      BY <3>1, <3>2
  <2>2. ASSUME NEW i \in 1 .. Len(uiQueue'), NEW j \in 1 .. Len(uiQueue'), i < j,
               uiQueue'[i].what \in Reports, uiQueue'[j].what \in Reports
        PROVE  uiQueue'[i].task <= uiQueue'[j].task
    <3>1. i \in 1 .. Len(uiQueue)
      BY <1>4, <1>5, <2>2 DEF SendTypes
    <3>2. CASE j \in 1 .. Len(uiQueue)
      BY <1>4, <2>2, <3>1, <3>2 DEF SendInv, ReportsInOrder
    <3>3. CASE j \notin 1 .. Len(uiQueue)
      <4>1. uiQueue'[i] = uiQueue[i] /\ ReportSound(uiQueue[i])
        BY <1>4, <3>1 DEF SendInv, ReportsInOrder
      <4>2. uiQueue'[i].task < First /\ uiQueue'[i].task \in Nat
        BY <2>2, <4>1 DEF ReportSound, TaskIds
      <4>3. uiQueue'[j].task = First
        BY <1>1, <1>5, <2>2, <3>3
      <4>4. QED
        BY <1>1, <4>2, <4>3
    <3>4. QED
      BY <3>2, <3>3
  <2>3. QED
    BY <1>1, <2>1, <2>2 DEF ReportsInOrder, ReportSound
<1> DEFINE Later(n) == \A i \in 1 .. Len(uiQueue') :
                           uiQueue'[i].what = "sendComplete" => uiQueue'[i].task >= n
<1>8. ASSUME NEW n \in Nat, n <= First, NoneBefore(n) PROVE Later(n)
  BY <1>1, <1>4, <1>5, <1>8 DEF NoneBefore, Reports
<1>9. OneSendEach'
  <2>1. mConnectTask \in Nat
    BY DEF SendTypes
  <2>2. mLlcpServicesConnected =>
            /\ Later(mConnectTask) /\ mConnectTask < First' /\ mConnectTask # NoTask
            /\ tasks'[mConnectTask].pc = "done"
    <3> SUFFICES ASSUME mLlcpServicesConnected
                 PROVE  /\ Later(mConnectTask) /\ mConnectTask < First' /\ mConnectTask # NoTask
                        /\ tasks'[mConnectTask].pc = "done"
      OBVIOUS
    <3>1. /\ mConnectTask # NoTask /\ mConnectTask < First /\ NoneBefore(mConnectTask)
          /\ tasks[mConnectTask].pc = "done" /\ mConnectTask \in TaskIds
      BY DEF SendInv, OneSendEach
    <3>2. mConnectTask # t
      BY <1>1, <3>1
    <3>3. QED
      BY <1>1, <1>2, <1>8, <2>1, <3>1, <3>2
  <2>3. QED
    BY <1>1, <1>2, <1>6, <2>1, <2>2 DEF SendInv, OneSendEach, NoneBefore
<1>10. SendsLast'
  <2> SUFFICES ASSUME NEW q \in TaskIds, tasks'[q].kind = "send"
               PROVE  q <= First' /\ Later(q)
    BY <1>1 DEF SendsLast, NoneBefore
  <2>1. q \in Nat /\ q <= First /\ NoneBefore(q)
    BY <1>6 DEF SendInv, SendsLast, TaskIds
  <2>2. QED
    BY <1>1, <1>8, <2>1
(* Only the running task has a copy.                                        *)
<1>11. \A j \in TaskIds : tasks[j].pc \in Sends => j = t
  BY <1>1 DEF SendInv, InOrder, Sends, TaskIds
<1>12. \A j \in TaskIds : tasks'[j].pc \in Sends => j = t
  BY <1>2, <1>11
<1>13. tasks[t].session \in Nat
  <2>1. tasks[t] \in TaskRecords
    BY <1>2, ElementOfSeq DEF SendTypes, TaskIds
  <2>2. QED
    BY <2>1 DEF TaskRecords
<1>14. ASSUME tasks[t].pc = "running", tasks[t].kind = "send", mLinkState = "UP", mSendState = "SENDING"
       PROVE  session \notin completed
  <2>1. ~SendComes
    <3>1. ASSUME NEW i \in 1 .. Len(uiQueue), uiQueue[i].what = "sendComplete" PROVE FALSE
      <4>1. uiQueue[i].task \in TaskIds /\ uiQueue[i].task < First
        BY <3>1 DEF SendInv, ReportsInOrder, ReportSound, Reports
      <4>2. uiQueue[i].task >= t
        BY <1>2, <1>14, <3>1 DEF SendInv, SendsLast, NoneBefore
      <4>3. QED
        BY <1>1, <4>1, <4>2 DEF TaskIds
    <3>2. QED
      BY <3>1 DEF SendComes
  <2>2. \A j \in TaskIds : tasks[j].pc # "succeeded"
    BY <1>11, <1>14 DEF Sends
  <2>3. QED
    BY <1>14, <2>1, <2>2 DEF SendInv, Reported
<1>15. /\ \A s \in completed : s \in Nat /\ s <= session
       /\ tasks[t].pc \in Sends =>
             /\ tasks[t].session <= session
             /\ tasks[t].pc # "succeeded" => tasks[t].session \notin completed
       /\ mSendState = "NEED_CONFIRMATION" =>
             session \notin completed /\ (tasks[t].pc \in Sends => tasks[t].session # session)
  BY <1>2 DEF SendInv, Sessions
<1>16. /\ \A s \in completed' : s \in Nat /\ s <= session
       /\ tasks'[t].pc \in Sends =>
             /\ tasks'[t].session <= session
             /\ tasks'[t].pc # "succeeded" => tasks'[t].session \notin completed'
       /\ mSendState = "NEED_CONFIRMATION" =>
             session \notin completed' /\ (tasks'[t].pc \in Sends => tasks'[t].session # session)
  <2>1. session \in Nat
    BY DEF SendTypes
  <2>2. QED
    BY <1>3, <1>13, <1>14, <1>15, <2>1 DEF CopyTurns, Sends
<1>17. Sessions'
  BY <1>1, <1>2, <1>12, <1>16 DEF Sessions
<1>18. Reported'
  <2> SUFFICES ASSUME mLinkState # "DOWN", mSendState = "SENDING", session \in completed'
               PROVE  SendComes' \/ \E j \in TaskIds : tasks'[j].pc = "succeeded"
    BY <1>1, <1>2 DEF Reported
  <2>1. CASE tasks'[t].pc = "succeeded"
    BY <1>2, <2>1
  <2>2. CASE uiQueue' = Append(uiQueue, Message("sendComplete", t))
    <3>1. Message("sendComplete", t) \in [what : Whats, task : Nat]
      BY <1>3 DEF Message, Whats
    <3>2. Len(uiQueue) + 1 \in 1 .. Len(uiQueue') /\ uiQueue'[Len(uiQueue) + 1].what = "sendComplete"
      BY <2>2, <3>1, AppendProperties DEF SendTypes, Message
    <3>3. QED
      BY <3>2 DEF SendComes
  <2>3. CASE UNCHANGED completed /\ tasks[t].pc # "succeeded"
    <3>1. \A j \in TaskIds : tasks[j].pc # "succeeded"
      BY <1>11, <2>3 DEF Sends
    <3>2. SendComes
      BY <2>3, <3>1 DEF SendInv, Reported
    <3>3. QED
      BY <1>4, <3>2 DEF SendComes
  <2>4. QED
    BY <1>3, <2>1, <2>2, <2>3 DEF CopyTurns
<1>19. \A j \in TaskIds : tasks[j].pc # "succeeded" /\ tasks'[j].pc = "succeeded"
                             => tasks[j].session \notin completed
  <2> SUFFICES ASSUME tasks[t].pc # "succeeded", tasks'[t].pc = "succeeded"
               PROVE  tasks[t].session \notin completed
    BY <1>2
  <2>1. tasks[t].pc \in {"handover", "put"}
    BY <1>3 DEF CopyTurns, Sends
  <2>2. QED
    BY <1>15, <2>1 DEF Sends
<1>20. QED
  BY <1>1, <1>7, <1>9, <1>10, <1>17, <1>18, <1>19 DEF SendInv

(* The invariant of the sends holds in every behaviour.                     *)
THEOREM SendInvHolds == Spec => []SendInv
<1>1. Init => SendInv
  <2> SUFFICES ASSUME Init PROVE SendInv
    OBVIOUS
  <2>1. /\ tasks = <<>> /\ executor = <<>> /\ uiQueue = <<>> /\ TaskIds = {}
        /\ Len(tasks) = 0 /\ Len(executor) = 0 /\ Len(uiQueue) = 0
    BY DEF Init, TaskIds
  <2>2. InOrder /\ ReportsInOrder
    BY <2>1 DEF InOrder, ReportsInOrder
  <2>3. OneSendEach /\ SendsLast /\ Sessions /\ Reported
    BY <2>1 DEF OneSendEach, SendsLast, Sessions, Reported, Init
  <2>4. QED
    BY <2>2, <2>3 DEF SendInv
<1>2. ResourceInv /\ BeamTypes /\ SendInv /\ [Next]_vars => SendInv'
  <2> SUFFICES ASSUME ResourceInv, BeamTypes, SendInv, [Next]_vars PROVE SendInv'
    OBVIOUS
  <2>1. CASE UNCHANGED vars
    BY <2>1 DEF vars, config, beam, sockets, timer, radio, SendInv, InOrder, First, TaskIds, ReportsInOrder,
       ReportSound, OneSendEach, NoneBefore, SendsLast, Sessions, Reported, SendComes
  <2>2. CASE Background
    BY <2>2, SendTypesHold, TaskStepTurns, TaskSends DEF Background
  <2>3. CASE Environment \/ UiMessage \/ DebounceTimeout \/ onP2pSendConfirmed
    BY <2>3, OutsideSendStep
  <2>4. QED
    BY <2>1, <2>2, <2>3 DEF Next
<1>3. QED
  BY <1>1, <1>2, ResourceInvHolds, PTL DEF Spec

(* Whatever the radio and the user do while it is sent and its end is       *)
(* reported, a message that a SendTask took for sent is not sent again.     *)
THEOREM SentOnce == Spec => []CompletedNotResent
<1>1. SendInv => CompletedNotResent
  BY DEF SendInv, Sessions, Sends, CompletedNotResent
<1>2. QED
  BY <1>1, SendInvHolds, PTL
=============================================================================
