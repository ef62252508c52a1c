--------------------------- MODULE PeerToPeerProofs ---------------------------
(***************************************************************************)
(* Proofs about PeerToPeer: type correctness, and the invariants that let  *)
(* a waiting thread rely on the stack's callbacks: handles that identify   *)
(* their connection, no stale handle, and a wake-up for every thread       *)
(* asleep on mDisconnectingEvent or mCongEvent that can still be found.    *)
(***************************************************************************)
EXTENDS PeerToPeer, TLAPS

(* What the callback in progress knows *)
CallbackShape ==
    /\ cb.ev \in {"requestFind", "requestGive"} =>
          /\ link[cb.h] # "free"
          /\ \A c \in Conns : InTable(c) => mNfaConnHandle[c] # cb.h
    /\ cb.ev = "requestGive" => mNfaConnHandle[cb.conn] = None
    /\ cb.ev = "discFind" => link[cb.h] = "free"
    /\ cb.ev = "discMark" =>
          /\ mNfaConnHandle[cb.conn] = cb.h
          /\ \A c \in Conns : InTable(c) /\ mNfaConnHandle[c] = cb.h => c = cb.conn
    /\ cb.ev = "uncongested" => link[cb.h] = "open"

(* A client that is still connecting is not being closed *)
ConnectingNotClosed == \A c \in Conns : user[c] \in Connecting => closer[c] = "closed"

Core ==
    /\ HandleOfOneConn
    /\ NoStaleHandle
    /\ DisconnectWakes
    /\ SendWakes
    /\ CallbackShape
    /\ ConnectingNotClosed

-----------------------------------------------------------------------------
(* The types *)

USE PeerToPeerAssumption

LEMMA InitTypeOK == Init => TypeOK
BY DEF Init, TypeOK, NoServer, Idle, Slots, UserStates, CloserStates, ThreadStates,
       InAccept, Events, Found, ThreadType, ThreadHolds, CallbackType, CallbackHolds

(* One thread takes a step *)
LEMMA ThreadStep ==
    ASSUME TypeOK, NEW t \in Threads, NEW r \in ThreadType, ThreadHolds(r),
           thread' = [thread EXCEPT ![t] = r]
    PROVE  /\ thread' \in [Threads -> ThreadType]
           /\ \A u \in Threads : ThreadHolds(thread'[u])
<1> USE DEF TypeOK
<1>1. thread' \in [Threads -> ThreadType]
  OBVIOUS
<1>2. ASSUME NEW u \in Threads PROVE ThreadHolds(thread'[u])
  <2>1. CASE u = t
    BY <2>1
  <2>2. CASE u # t
    BY <2>2
  <2> QED
    BY <2>1, <2>2
<1> QED
  BY <1>1, <1>2

(* ... which leaves its server and its block alone *)
LEMMA ThreadMoves ==
    ASSUME TypeOK, NEW t \in Threads, NEW at \in ThreadStates,
           thread' = [thread EXCEPT ![t].at = at],
           at \in InAccept => thread[t].at \in InAccept \ {"allocate"}
    PROVE  /\ thread' \in [Threads -> ThreadType]
           /\ \A u \in Threads : ThreadHolds(thread'[u])
<1> DEFINE r == [at |-> at, srv |-> thread[t].srv, conn |-> thread[t].conn]
<1>1. r \in ThreadType /\ ThreadHolds(r)
  BY DEF TypeOK, ThreadType, ThreadHolds
<1>2. thread' = [thread EXCEPT ![t] = r]
  <2>1. thread[t] \in ThreadType
    BY DEF TypeOK
  <2>2. [thread[t] EXCEPT !.at = at] = r
    BY <2>1 DEF ThreadType
  <2> QED
    BY <2>2
<1> HIDE DEF r
<1> QED
  BY <1>1, <1>2, ThreadStep

(* notifyOne on mConnRequestEvent *)
LEMMA NotifyAcceptTypeOK ==
    ASSUME TypeOK, NEW s, NotifyAccept(s)
    PROVE  /\ thread' \in [Threads -> ThreadType]
           /\ \A t \in Threads : ThreadHolds(thread'[t])
<1>1. CASE UNCHANGED thread
  BY <1>1 DEF TypeOK
<1>2. ASSUME NEW t \in Accepting(s), thread' = [thread EXCEPT ![t].at = "woken"]
      PROVE  /\ thread' \in [Threads -> ThreadType]
             /\ \A u \in Threads : ThreadHolds(thread'[u])
  BY <1>2, ThreadMoves DEF Accepting, ThreadStates, InAccept
<1> QED
  BY <1>1, <1>2 DEF NotifyAccept

(* The steps of the Java server thread and of its socket keep the types *)
LEMMA ServerTypeOK ==
    ASSUME TypeOK,
           \/ DeregisterNotify \/ DeregisterRemove
           \/ \E t \in Threads : Start(t) \/ Stop(t) \/ ServerThread(t)
    PROVE  TypeOK'
<1> DEFINE TT == /\ thread' \in [Threads -> ThreadType]
                 /\ \A u \in Threads : ThreadHolds(thread'[u])
<1> USE DEF TypeOK, Slots, stackVars
<1>1. CASE DeregisterNotify
  <2>1. TT
    BY <1>1, NotifyAcceptTypeOK DEF DeregisterNotify
  <2> QED
    BY <1>1, <2>1 DEF DeregisterNotify
<1>2. CASE DeregisterRemove
  <2> DEFINE t == closing.of
  <2>1. TT
    <3>1. CASE thread[t].at = "closing"
      BY <1>2, <3>1, ThreadMoves DEF DeregisterRemove, ThreadStates, InAccept
    <3>2. CASE thread[t].at # "closing"
      BY <1>2, <3>2 DEF DeregisterRemove
    <3> QED
      BY <3>1, <3>2
  <2> QED
    BY <1>2, <2>1 DEF DeregisterRemove, NoServer
<1>3. ASSUME NEW t \in Threads, Start(t) PROVE TypeOK'
  <2>1. TT
    BY <1>3, ThreadMoves DEF Start, ThreadStates, InAccept
  <2> QED
    BY <1>3, <2>1 DEF Start
<1>4. ASSUME NEW t \in Threads, Stop(t) PROVE TypeOK'
  BY <1>4 DEF Stop, CloseSocket
<1>5. ASSUME NEW t \in Threads, Create(t) PROVE TypeOK'
  <2>1. TT
    BY <1>5, ThreadMoves DEF Create, ThreadStates, InAccept
  <2> QED
    <3>1. CASE /\ mServer # NoServer
               /\ mServer' = [mServer EXCEPT !.jni = t]
               /\ UNCHANGED mServerConn
      BY <1>5, <2>1, <3>1 DEF Create, NoServer
    <3>2. ASSUME NEW s \in Servers, mServer' = [obj |-> s, jni |-> t],
                 mServerConn' = [mServerConn EXCEPT ![s] = [i \in Slots |-> None]]
          PROVE  TypeOK'
      BY <1>5, <2>1, <3>2 DEF Create
    <3>3. CASE UNCHANGED <<mServer, mServerConn>>
      BY <1>5, <2>1, <3>3 DEF Create
    <3> QED
      BY <1>5, <3>1, <3>2, <3>3 DEF Create, RegisterServer
<1>6. ASSUME NEW t \in Threads, Loop(t) PROVE TypeOK'
  <2>1. TT
    BY <1>6, ThreadMoves DEF Loop, ThreadStates, InAccept
  <2> QED
    BY <1>6, <2>1 DEF Loop
<1>7. ASSUME NEW t \in Threads, Block(t) PROVE TypeOK'
  <2>1. TT
    BY <1>7, ThreadMoves DEF Block, ThreadStates, InAccept
  <2> QED
    BY <1>7, <2>1 DEF Block
<1>8. ASSUME NEW t \in Threads, CloseThread(t) PROVE TypeOK'
  <2>1. TT
    BY <1>8, ThreadMoves DEF CloseThread, ThreadStates, InAccept
  <2> QED
    <3>1. CASE t \in mServerSocket /\ mServer.jni = t
      <4>1. /\ closing' = [of |-> t, srv |-> mServer.obj, at |-> "notify"]
            /\ UNCHANGED mServerSocket
        BY <1>8, <3>1 DEF CloseThread, CloseSocket
      <4> QED
        BY <1>8, <2>1, <3>1, <4>1 DEF CloseThread
    <3>2. CASE ~(t \in mServerSocket /\ mServer.jni = t)
      <4>1. /\ UNCHANGED closing
            /\ mServerSocket' \subseteq mServerSocket
        BY <1>8, <3>2 DEF CloseThread, CloseSocket
      <4> QED
        BY <1>8, <2>1, <3>2, <4>1 DEF CloseThread
    <3> QED
      BY <3>1, <3>2
<1>9. ASSUME NEW t \in Threads, Check(t) PROVE TypeOK'
  <2>1. TT
    BY <1>9, ThreadMoves DEF Check, ThreadStates, InAccept
  <2> QED
    BY <1>9, <2>1 DEF Check
<1>10. ASSUME NEW t \in Threads, Accept(t) PROVE TypeOK'
  <2>1. CASE mServer.jni = t /\ mServer.obj # None
    <3> DEFINE r == [at |-> "allocate", srv |-> mServer.obj, conn |-> None]
    <3>1. r \in ThreadType /\ ThreadHolds(r)
      BY <2>1 DEF ThreadType, ThreadHolds, ThreadStates, InAccept
    <3>2. thread' = [thread EXCEPT ![t] = r]
      BY <1>10, <2>1 DEF Accept
    <3> HIDE DEF r
    <3>3. TT
      BY <3>1, <3>2, ThreadStep
    <3> QED
      BY <1>10, <3>3 DEF Accept
  <2>2. CASE mServer.jni # t
    <3> DEFINE r == [at |-> "close", srv |-> None, conn |-> None]
    <3>1. r \in ThreadType /\ ThreadHolds(r)
      BY DEF ThreadType, ThreadHolds, ThreadStates, InAccept
    <3>2. thread' = [thread EXCEPT ![t] = r]
      BY <1>10, <2>2 DEF Accept
    <3> HIDE DEF r
    <3>3. TT
      BY <3>1, <3>2, ThreadStep
    <3> QED
      BY <1>10, <3>3 DEF Accept
  <2> QED
    BY <2>1, <2>2
<1>11. ASSUME NEW t \in Threads, Allocate(t) PROVE TypeOK'
  <2> DEFINE s == thread[t].srv
  <2>0. s \in Servers /\ thread[t].at = "allocate"
    BY <1>11 DEF Allocate, ThreadHolds, ThreadType, InAccept
  <2>1. ASSUME NEW c \in Conns, NEW i \in Slots,
               mServerConn' = [mServerConn EXCEPT ![s][i] = c],
               mNfaConnHandle' = [mNfaConnHandle EXCEPT ![c] = None],
               thread' = [thread EXCEPT ![t] = [at |-> "block", srv |-> s, conn |-> c]]
        PROVE  TypeOK'
    <3> DEFINE r == [at |-> "block", srv |-> s, conn |-> c]
    <3>1. r \in ThreadType /\ ThreadHolds(r)
      BY <2>0 DEF ThreadType, ThreadHolds, ThreadStates, InAccept
    <3>2. thread' = [thread EXCEPT ![t] = r]
      BY <2>1
    <3> HIDE DEF r
    <3>3. TT
      BY <3>1, <3>2, ThreadStep
    <3> QED
      BY <1>11, <2>0, <2>1, <3>3 DEF Allocate
  <2>2. ASSUME thread' = [thread EXCEPT ![t] = [at |-> "close", srv |-> None, conn |-> None]],
               UNCHANGED <<mServerConn, mNfaConnHandle>>
        PROVE  TypeOK'
    <3> DEFINE r == [at |-> "close", srv |-> None, conn |-> None]
    <3>1. r \in ThreadType /\ ThreadHolds(r)
      BY DEF ThreadType, ThreadHolds, ThreadStates, InAccept
    <3>2. thread' = [thread EXCEPT ![t] = r]
      BY <2>2
    <3> HIDE DEF r
    <3>3. TT
      BY <3>1, <3>2, ThreadStep
    <3> QED
      BY <1>11, <2>2, <3>3 DEF Allocate
  <2> QED
    BY <1>11, <2>1, <2>2 DEF Allocate
<1>12. ASSUME NEW t \in Threads, Woken(t) PROVE TypeOK'
  <2>1. CASE mNfaConnHandle[thread[t].conn] # None
    <3>1. TT
      BY <1>12, <2>1, ThreadMoves DEF Woken, ThreadStates, InAccept
    <3> QED
      BY <1>12, <2>1, <3>1 DEF Woken
  <2>2. CASE mNfaConnHandle[thread[t].conn] = None
    <3> DEFINE r == [at |-> "close", srv |-> None, conn |-> None]
    <3>1. r \in ThreadType /\ ThreadHolds(r)
      BY <2>2 DEF ThreadType, ThreadHolds, ThreadStates, InAccept
    <3>2. thread' = [thread EXCEPT ![t] = r]
      BY <1>12, <2>2 DEF Woken
    <3> HIDE DEF r
    <3>3. TT
      BY <3>1, <3>2, ThreadStep
    <3> QED
      BY <1>12, <2>2, <3>3 DEF Woken, RemoveSlot
  <2> QED
    BY <2>1, <2>2
<1>13. ASSUME NEW t \in Threads, Answer(t) PROVE TypeOK'
  <2>0. thread[t].conn \in Conns
    BY <1>13 DEF Answer, ThreadHolds, ThreadType, InAccept
  <2> DEFINE c == thread[t].conn
  <2>1. CASE LinkIs(mNfaConnHandle[c], {"asked"})
    <3> DEFINE r == [at |-> "loop", srv |-> None, conn |-> None]
    <3>1. r \in ThreadType /\ ThreadHolds(r)
      BY <2>1 DEF ThreadType, ThreadHolds, ThreadStates, InAccept
    <3>2. thread' = [thread EXCEPT ![t] = r]
      BY <1>13, <2>1 DEF Answer
    <3> HIDE DEF r
    <3>3. TT
      BY <3>1, <3>2, ThreadStep
    <3> QED
      BY <1>13, <2>0, <2>1, <3>3 DEF Answer, LinkIs, UserStates, CloserStates
  <2>2. CASE ~LinkIs(mNfaConnHandle[c], {"asked"})
    <3> DEFINE r == [at |-> "close", srv |-> None, conn |-> None]
    <3>1. r \in ThreadType /\ ThreadHolds(r)
      BY <2>2 DEF ThreadType, ThreadHolds, ThreadStates, InAccept
    <3>2. thread' = [thread EXCEPT ![t] = r]
      BY <1>13, <2>2 DEF Answer
    <3> HIDE DEF r
    <3>3. TT
      BY <3>1, <3>2, ThreadStep
    <3> QED
      BY <1>13, <2>2, <3>3 DEF Answer
  <2> QED
    BY <2>1, <2>2
<1> QED
  BY <1>1, <1>2, <1>3, <1>4, <1>5, <1>6, <1>7, <1>8, <1>9, <1>10, <1>11, <1>12, <1>13 DEF ServerThread

(* The steps of the threads that use a connection keep the types *)
LEMMA SocketTypeOK ==
    ASSUME TypeOK,
           \E c \in Conns : \/ ClientConnect(c) \/ UseSocket(c) \/ CloseConn(c)
                           \/ RegClientEvt(c) \/ RefusedEvt(c)
                           \/ \E h \in Handles : ConnectedEvt(c, h)
    PROVE  TypeOK'
<1> USE DEF TypeOK, UserStates, CloserStates, Connecting, serverVars, stackVars
<1>1. ASSUME NEW c \in Conns, CreateClient(c) PROVE TypeOK'
  BY <1>1 DEF CreateClient
<1>2. ASSUME NEW c \in Conns, Connect(c) PROVE TypeOK'
  BY <1>2 DEF Connect, DropClient
<1>3. ASSUME NEW c \in Conns, Connected(c) PROVE TypeOK'
  BY <1>3 DEF Connected, DropClient
<1>4. ASSUME NEW c \in Conns, RegClientEvt(c) PROVE TypeOK'
  BY <1>4 DEF RegClientEvt, DropClient
<1>5. ASSUME NEW c \in Conns, RefusedEvt(c) PROVE TypeOK'
  BY <1>5 DEF RefusedEvt
<1>6. ASSUME NEW c \in Conns, Receive(c) PROVE TypeOK'
  BY <1>6 DEF Receive, userFrame
<1>7. ASSUME NEW c \in Conns, ReceiveWait(c) PROVE TypeOK'
  BY <1>7 DEF ReceiveWait, userFrame
<1>8. ASSUME NEW c \in Conns, Send(c) PROVE TypeOK'
  BY <1>8 DEF Send, userFrame
<1>9. ASSUME NEW c \in Conns, Quit(c) PROVE TypeOK'
  BY <1>9 DEF Quit, userFrame
<1>10. ASSUME NEW c \in Conns, CloseBegin(c) PROVE TypeOK'
  BY <1>10 DEF CloseBegin, closerFrame
<1>11. ASSUME NEW c \in Conns, CloseCong(c) PROVE TypeOK'
  BY <1>11 DEF CloseCong, NotifyCong, closerFrame
<1>12. ASSUME NEW c \in Conns, CloseRead(c) PROVE TypeOK'
  BY <1>12 DEF CloseRead, NotifyRead, closerFrame
<1>13. ASSUME NEW c \in Conns, CloseDisc(c) PROVE TypeOK'
  BY <1>13 DEF CloseDisc, LinkIs, closerFrame
<1>14. ASSUME NEW c \in Conns, CloseRemove(c) PROVE TypeOK'
  BY <1>14 DEF CloseRemove, RemoveSlot
<1>15. ASSUME NEW c \in Conns, NEW h \in Handles, ConnectedEvt(c, h) PROVE TypeOK'
  BY <1>15 DEF ConnectedEvt
<1> QED
  BY <1>1, <1>2, <1>3, <1>4, <1>5, <1>6, <1>7, <1>8, <1>9, <1>10, <1>11, <1>12, <1>13, <1>14, <1>15 DEF ClientConnect, UseSocket, CloseConn

(* The steps of the NFC task keep the types *)
LEMMA StackTypeOK ==
    ASSUME TypeOK,
           \/ Callback
           \/ \E h \in Handles : \/ LoseLink(h) \/ DataArrives(h) \/ CongestionChanges(h)
                               \/ PeerConnects(h)
    PROVE  TypeOK'
<1> USE DEF TypeOK, Events, Found, Idle, serverVars, stackVars, tableFrame, cbFrame,
           CallbackType, CallbackHolds
<1>1. ASSUME NEW h \in Handles, LoseLink(h) PROVE TypeOK'
  BY <1>1 DEF LoseLink
<1>2. ASSUME NEW h \in Handles, DataArrives(h) PROVE TypeOK'
  BY <1>2 DEF DataArrives
<1>3. ASSUME NEW h \in Handles, CongestionChanges(h) PROVE TypeOK'
  <2>1. ASSUME NEW e \in {"congested", "uncongested"}, cb' = [Idle EXCEPT !.ev = e, !.h = h]
        PROVE  cb' \in CallbackType /\ CallbackHolds(cb')
    BY <2>1
  <2> QED
    BY <1>3, <2>1 DEF CongestionChanges
<1>4. ASSUME NEW h \in Handles, PeerConnects(h) PROVE TypeOK'
  BY <1>4 DEF PeerConnects
<1>5. CASE DataEvt
  BY <1>5 DEF DataEvt, NotifyRead, FindConnection, UserStates
<1>6. CASE CongestEvt
  BY <1>6 DEF CongestEvt, NotifyCong, FindConnection, UserStates
<1>7. CASE DiscFind
  <2>1. CASE cb' = Idle
    BY <1>7, <2>1 DEF DiscFind
  <2>2. ASSUME NEW c \in Conns, cb' = [cb EXCEPT !.ev = "discMark", !.conn = c]
        PROVE  TypeOK'
    <3>1. cb' \in CallbackType /\ CallbackHolds(cb')
      BY <1>7, <2>2 DEF DiscFind
    <3> QED
      BY <1>7, <3>1 DEF DiscFind
  <2> QED
    BY <1>7, <2>1, <2>2 DEF DiscFind, FindConnection
<1>8. CASE DiscMark
  BY <1>8 DEF DiscMark, CloserStates
<1>9. CASE DiscCong
  BY <1>9 DEF DiscCong, NotifyCong, UserStates
<1>10. CASE DiscRead
  BY <1>10 DEF DiscRead, NotifyRead, UserStates
<1>11. CASE ConnReqFind
  <2>1. CASE cb' = Idle
    BY <1>11, <2>1 DEF ConnReqFind
  <2>2. ASSUME NEW c \in Conns, cb' = [cb EXCEPT !.ev = "requestGive", !.conn = c]
        PROVE  TypeOK'
    <3>1. cb' \in CallbackType /\ CallbackHolds(cb')
      BY <1>11, <2>2 DEF ConnReqFind
    <3> QED
      BY <1>11, <3>1 DEF ConnReqFind
  <2>3. ASSUME NEW i \in Slots, FirstWaiting(cb.srv, i), cb.ev = "requestFind"
        PROVE  mServerConn[cb.srv][i] \in Conns
    BY <2>3 DEF FirstWaiting, Waiting, Slots
  <2> QED
    BY <1>11, <2>1, <2>2, <2>3 DEF ConnReqFind
<1>12. CASE ConnReqGive
  <2>1. /\ thread' \in [Threads -> ThreadType]
        /\ \A t \in Threads : ThreadHolds(thread'[t])
    BY <1>12, NotifyAcceptTypeOK DEF ConnReqGive
  <2> QED
    BY <1>12, <2>1 DEF ConnReqGive
<1> QED
  BY <1>1, <1>2, <1>3, <1>4, <1>5, <1>6, <1>7, <1>8, <1>9, <1>10, <1>11, <1>12 DEF Callback

LEMMA NextTypeOK == TypeOK /\ [Next]_vars => TypeOK'
<1> SUFFICES ASSUME TypeOK, [Next]_vars PROVE TypeOK'
  OBVIOUS
<1>1. CASE UNCHANGED vars
  BY <1>1 DEF vars, serverVars, stackVars, TypeOK
<1>2. CASE Next
  BY <1>2, ServerTypeOK, SocketTypeOK, StackTypeOK DEF Next
<1> QED
  BY <1>1, <1>2

(* Every variable keeps its type, and a thread in accept or a callback that
   found a connection has it at hand, for any number of connections,
   handles, servers and threads. *)
THEOREM TypeCorrect == Spec => []TypeOK
<1> QED
  BY InitTypeOK, NextTypeOK, PTL DEF Spec

-----------------------------------------------------------------------------
(* Handles and wake-ups *)

LEMMA InitCore == Init => Core
BY DEF Init, Core, HandleOfOneConn, NoStaleHandle, DisconnectWakes, SendWakes,
       CallbackShape, ConnectingNotClosed, Connecting, Idle, InTable, InServer, NoServer

(* Steps that leave handles and callback alone, put no connection into the
   tables and take no link down *)
LEMMA QuietStep ==
    ASSUME TypeOK, Core,
           UNCHANGED <<mNfaConnHandle, congested, cb>>,
           link' \in [Handles -> {"free", "asked", "open"}],
           \A h \in Handles : /\ link[h] = "free" <=> link'[h] = "free"
                              /\ link[h] = "open" => link'[h] = "open",
           discAsked \subseteq discAsked',
           \A c \in Conns : InTable(c)' => InTable(c),
           \A c \in Conns : closer'[c] = "discWait" =>
               \/ closer[c] = "discWait"
               \/ /\ LinkIs(mNfaConnHandle[c], {"asked", "open"})
                  /\ mNfaConnHandle[c] \in discAsked',
           \A c \in Conns : user'[c] = "sendWait" =>
               \/ user[c] = "sendWait"
               \/ /\ LinkIs(mNfaConnHandle[c], {"open"})
                  /\ mNfaConnHandle[c] \in congested,
           ConnectingNotClosed'
    PROVE  Core'
<1>1. \A c \in Conns :
         /\ LinkIs(mNfaConnHandle[c], {"asked", "open"}) =>
               LinkIs(mNfaConnHandle[c], {"asked", "open"})'
         /\ LinkIs(mNfaConnHandle[c], {"open"}) => LinkIs(mNfaConnHandle[c], {"open"})'
  BY DEF LinkIs, TypeOK
<1>2. HandleOfOneConn'
  BY DEF Core, HandleOfOneConn
<1>3. NoStaleHandle'
  BY <1>1 DEF Core, NoStaleHandle, DiscComing
<1>4. DisconnectWakes'
  BY <1>1 DEF Core, DisconnectWakes, DiscComing
<1>5. SendWakes'
  BY <1>1 DEF Core, SendWakes, DiscComing
<1>6. CallbackShape'
  BY DEF Core, CallbackShape, TypeOK, CallbackType, CallbackHolds
<1> QED
  BY <1>2, <1>3, <1>4, <1>5, <1>6 DEF Core

(* A new block goes into the tables, without a handle *)
LEMMA NewConnStep ==
    ASSUME TypeOK, Core, NEW c0 \in Conns, Unused(c0),
           mNfaConnHandle' = [mNfaConnHandle EXCEPT ![c0] = None],
           UNCHANGED <<link, discAsked, congested, cb, closer>>,
           \A c \in Conns : InTable(c)' => InTable(c) \/ c = c0,
           \A c \in Conns : user'[c] = "sendWait" => user[c] = "sendWait",
           ConnectingNotClosed'
    PROVE  Core'
<1> USE DEF TypeOK
<1>1. user[c0] = "done" /\ closer[c0] = "closed" /\ cb.conn # c0
  BY DEF Unused
<1>2. \A c \in Conns : c # c0 =>
         /\ LinkIs(mNfaConnHandle[c], {"asked", "open"}) =>
               LinkIs(mNfaConnHandle[c], {"asked", "open"})'
         /\ LinkIs(mNfaConnHandle[c], {"open"}) => LinkIs(mNfaConnHandle[c], {"open"})'
  BY DEF LinkIs
<1>3. HandleOfOneConn'
  BY DEF Core, HandleOfOneConn
<1>4. NoStaleHandle'
  BY <1>2 DEF Core, NoStaleHandle, DiscComing
<1>5. DisconnectWakes'
  BY <1>1, <1>2 DEF Core, DisconnectWakes, DiscComing
<1>6. \A c \in Conns : user'[c] = "sendWait" => c # c0
  BY <1>1
<1>7. SendWakes'
  BY <1>2, <1>6 DEF Core, SendWakes, DiscComing
<1>8. CallbackShape'
  BY <1>1 DEF Core, CallbackShape, CallbackType, CallbackHolds, Found, Events
<1> QED
  BY <1>3, <1>4, <1>5, <1>7, <1>8 DEF Core

(* The steps of the Java server thread and of its socket *)
LEMMA ServerCore ==
    ASSUME TypeOK, Core,
           \/ DeregisterNotify \/ DeregisterRemove
           \/ \E t \in Threads : Start(t) \/ Stop(t) \/ ServerThread(t)
    PROVE  Core'
<1> USE DEF stackVars
<1> DEFINE Rest == UNCHANGED <<mNfaConnHandle, user, closer, link, congested, discAsked, cb>>
<1>1. ASSUME Rest, \A c \in Conns : InTable(c)' => InTable(c) PROVE Core'
  <2>1. ConnectingNotClosed'
    BY <1>1 DEF Core, ConnectingNotClosed
  <2> QED
    BY <1>1, <2>1, QuietStep DEF TypeOK
<1>2. ASSUME Rest, UNCHANGED <<mServer, mServerConn, mClients>> PROVE Core'
  BY <1>1, <1>2 DEF InTable, InServer
<1>3. CASE DeregisterNotify
  BY <1>2, <1>3 DEF DeregisterNotify
<1>4. CASE DeregisterRemove
  <2>1. \A c \in Conns : InTable(c)' => InTable(c)
    BY <1>4 DEF DeregisterRemove, InTable, InServer, NoServer
  <2> QED
    BY <1>1, <1>4, <2>1 DEF DeregisterRemove
<1>5. ASSUME NEW t \in Threads, Start(t) PROVE Core'
  BY <1>2, <1>5 DEF Start
<1>6. ASSUME NEW t \in Threads, Stop(t) PROVE Core'
  BY <1>2, <1>6 DEF Stop
<1>7. ASSUME NEW t \in Threads, Loop(t) PROVE Core'
  BY <1>2, <1>7 DEF Loop
<1>8. ASSUME NEW t \in Threads, Accept(t) PROVE Core'
  BY <1>2, <1>8 DEF Accept
<1>9. ASSUME NEW t \in Threads, Block(t) PROVE Core'
  BY <1>2, <1>9 DEF Block
<1>10. ASSUME NEW t \in Threads, CloseThread(t) PROVE Core'
  BY <1>2, <1>10 DEF CloseThread
<1>11. ASSUME NEW t \in Threads, Check(t) PROVE Core'
  BY <1>2, <1>11 DEF Check
<1>12. ASSUME NEW t \in Threads, Create(t) PROVE Core'
  <2>1. CASE UNCHANGED <<mServer, mServerConn>>
    BY <1>2, <1>12, <2>1 DEF Create
  <2>2. CASE mServer' = [mServer EXCEPT !.jni = t] /\ UNCHANGED mServerConn
    <3>1. mServer'.obj = mServer.obj
      BY <2>2 DEF TypeOK
    <3> QED
      BY <1>1, <1>12, <2>2, <3>1 DEF Create, InTable, InServer
  <2>3. ASSUME NEW s \in Servers, mServer' = [obj |-> s, jni |-> t],
               mServerConn' = [mServerConn EXCEPT ![s] = [i \in Slots |-> None]]
        PROVE  Core'
    <3>1. \A c \in Conns : ~InServer(c)'
      BY <2>3 DEF InServer, TypeOK
    <3> QED
      BY <1>1, <1>12, <3>1 DEF Create, InTable
  <2> QED
    BY <1>12, <2>1, <2>2, <2>3 DEF Create, RegisterServer
<1>13. ASSUME NEW t \in Threads, Woken(t) PROVE Core'
  <2>1. CASE UNCHANGED mServerConn
    BY <1>2, <1>13, <2>1 DEF Woken
  <2>2. CASE RemoveSlot(thread[t].srv, thread[t].conn)
    <3>1. \A c \in Conns : InServer(c)' => InServer(c)
      BY <1>13, <2>2 DEF Woken, InServer, RemoveSlot, TypeOK
    <3> QED
      BY <1>1, <1>13, <3>1 DEF Woken, InTable
  <2> QED
    BY <1>13, <2>1, <2>2 DEF Woken
<1>14. ASSUME NEW t \in Threads, Allocate(t) PROVE Core'
  <2>1. CASE UNCHANGED <<mServerConn, mNfaConnHandle>>
    BY <1>2, <1>14, <2>1 DEF Allocate
  <2>2. ASSUME NEW c0 \in Conns, NEW i \in Slots, Unused(c0),
               mServerConn' = [mServerConn EXCEPT ![thread[t].srv][i] = c0],
               mNfaConnHandle' = [mNfaConnHandle EXCEPT ![c0] = None]
        PROVE  Core'
    <3>1. \A c \in Conns : InTable(c)' => InTable(c) \/ c = c0
      BY <1>14, <2>2 DEF Allocate, InTable, InServer, TypeOK
    <3>2. ConnectingNotClosed'
      BY <1>14 DEF Allocate, Core, ConnectingNotClosed
    <3> QED
      BY <1>14, <2>2, <3>1, <3>2, NewConnStep DEF Allocate
  <2> QED
    BY <1>14, <2>1, <2>2 DEF Allocate
<1>15. ASSUME NEW t \in Threads, Answer(t) PROVE Core'
  <2> DEFINE c0 == thread[t].conn
  <2>1. CASE UNCHANGED <<link, user, closer>>
    BY <1>2, <1>15, <2>1 DEF Answer
  <2>2. CASE /\ LinkIs(mNfaConnHandle[c0], {"asked"})
             /\ link' = [link EXCEPT ![mNfaConnHandle[c0]] = "open"]
             /\ user' = [user EXCEPT ![c0] = "idle"]
             /\ closer' = [closer EXCEPT ![c0] = "none"]
    <3>1. c0 \in Conns
      BY <1>15 DEF Answer, TypeOK, ThreadType, ThreadHolds, InAccept
    <3>2. ConnectingNotClosed'
      BY <2>2, <3>1 DEF Core, ConnectingNotClosed, Connecting, TypeOK
    <3>3. \A h \in Handles : /\ link[h] = "free" <=> link'[h] = "free"
                             /\ link[h] = "open" => link'[h] = "open"
      BY <2>2 DEF TypeOK, LinkIs
    <3>4. link' \in [Handles -> {"free", "asked", "open"}]
      BY <2>2 DEF TypeOK
    <3>5. \A c \in Conns : InTable(c)' => InTable(c)
      BY <1>15 DEF Answer, InTable, InServer
    <3>6. \A c \in Conns : /\ closer'[c] = "discWait" => closer[c] = "discWait"
                           /\ user'[c] = "sendWait" => user[c] = "sendWait"
      BY <2>2 DEF TypeOK
    <3> QED
      BY <1>15, <3>2, <3>3, <3>4, <3>5, <3>6, QuietStep DEF Answer
  <2> QED
    BY <1>15, <2>1, <2>2 DEF Answer
<1> QED
  BY <1>3, <1>4, <1>5, <1>6, <1>7, <1>8, <1>9, <1>10, <1>11, <1>12, <1>13, <1>14, <1>15 DEF ServerThread

(* The steps of the threads that use a connection *)
LEMMA SocketCore ==
    ASSUME TypeOK, Core,
           \E c \in Conns : \/ ClientConnect(c) \/ UseSocket(c) \/ CloseConn(c)
                           \/ RegClientEvt(c) \/ RefusedEvt(c)
                           \/ \E h \in Handles : ConnectedEvt(c, h)
    PROVE  Core'
<1> USE DEF serverVars, stackVars
<1> DEFINE Same == UNCHANGED <<mNfaConnHandle, link, congested, cb>>
           Tables == \A c \in Conns : InTable(c)' => InTable(c)
(* Steps of one thread that puts nobody to sleep *)
<1>1. ASSUME NEW c \in Conns, Same, UNCHANGED <<closer, discAsked>>, Tables,
             NEW w \in UserStates, user' = [user EXCEPT ![c] = w],
             w = "sendWait" => LinkIs(mNfaConnHandle[c], {"open"})
                               /\ mNfaConnHandle[c] \in congested,
             w \in Connecting => user[c] \in Connecting
      PROVE  Core'
  <2>1. ConnectingNotClosed'
    BY <1>1 DEF Core, ConnectingNotClosed, TypeOK
  <2>2. \A d \in Conns : user'[d] = "sendWait" =>
           \/ user[d] = "sendWait"
           \/ /\ LinkIs(mNfaConnHandle[d], {"open"})
              /\ mNfaConnHandle[d] \in congested
    BY <1>1 DEF TypeOK
  <2>3. /\ link' \in [Handles -> {"free", "asked", "open"}]
        /\ \A h \in Handles : /\ link[h] = "free" <=> link'[h] = "free"
                              /\ link[h] = "open" => link'[h] = "open"
    BY <1>1 DEF TypeOK
  <2>4. \A d \in Conns : closer'[d] = "discWait" => closer[d] = "discWait"
    BY <1>1
  <2>5. UNCHANGED <<mNfaConnHandle, congested, cb>> /\ discAsked \subseteq discAsked'
    BY <1>1
  <2> QED
    BY <1>1, <2>1, <2>2, <2>3, <2>4, <2>5, QuietStep
<1>2. ASSUME UNCHANGED <<mServer, mServerConn, mClients>> PROVE Tables
  BY <1>2 DEF InTable, InServer
<1>3. ASSUME NEW c \in Conns, UNCHANGED <<mServer, mServerConn>>, mClients' = mClients \ {c}
      PROVE  Tables
  BY <1>3 DEF InTable, InServer
<1>4. ASSUME NEW c \in Conns, CreateClient(c) PROVE Core'
  <2>1. \A d \in Conns : InTable(d)' => InTable(d) \/ d = c
    BY <1>4 DEF CreateClient, InTable, InServer
  <2>2. ConnectingNotClosed'
    BY <1>4 DEF CreateClient, Core, ConnectingNotClosed, Unused, TypeOK
  <2>3. \A d \in Conns : user'[d] = "sendWait" => user[d] = "sendWait"
    BY <1>4 DEF CreateClient, TypeOK
  <2> QED
    BY <1>4, <2>1, <2>2, <2>3, NewConnStep DEF CreateClient
<1>5. ASSUME NEW c \in Conns, Connect(c) \/ RegClientEvt(c) PROVE Core'
  <2>1. CASE mClients' = mClients
    BY <1>1, <1>2, <1>5, <2>1 DEF Connect, RegClientEvt, UserStates, Connecting, DropClient
  <2>2. CASE DropClient(c)
    BY <1>1, <1>3, <1>5, <2>2 DEF Connect, RegClientEvt, UserStates, Connecting, DropClient
  <2> QED
    BY <1>5, <2>1, <2>2 DEF Connect, RegClientEvt
<1>6. ASSUME NEW c \in Conns, RefusedEvt(c) PROVE Core'
  BY <1>1, <1>2, <1>6 DEF RefusedEvt, UserStates, Connecting
<1>7. ASSUME NEW c \in Conns, Connected(c) PROVE Core'
  <2>1. CASE DropClient(c) /\ UNCHANGED closer
    BY <1>1, <1>3, <1>7, <2>1 DEF Connected, UserStates, Connecting, DropClient
  <2>2. CASE /\ user' = [user EXCEPT ![c] = "idle"]
             /\ closer' = [closer EXCEPT ![c] = "none"]
             /\ UNCHANGED mClients
    <3>1. ConnectingNotClosed'
      BY <2>2 DEF Core, ConnectingNotClosed, Connecting, TypeOK
    <3>2. Tables
      BY <1>2, <1>7, <2>2 DEF Connected
    <3>3. \A d \in Conns : /\ user'[d] = "sendWait" => user[d] = "sendWait"
                           /\ closer'[d] = "discWait" => closer[d] = "discWait"
      BY <2>2 DEF TypeOK
    <3>4. /\ link' \in [Handles -> {"free", "asked", "open"}]
          /\ \A h \in Handles : /\ link[h] = "free" <=> link'[h] = "free"
                                /\ link[h] = "open" => link'[h] = "open"
      BY <1>7 DEF Connected, TypeOK
    <3> QED
      BY <1>7, <3>1, <3>2, <3>3, <3>4, QuietStep DEF Connected
  <2> QED
    BY <1>7, <2>1, <2>2 DEF Connected
<1>8. ASSUME NEW c \in Conns, Receive(c) PROVE Core'
  <2>1. PICK w \in {"done", "idle", "readGap"} : user' = [user EXCEPT ![c] = w]
    BY <1>8 DEF Receive
  <2> QED
    BY <1>1, <1>2, <1>8, <2>1 DEF Receive, userFrame, UserStates, Connecting
<1>9. ASSUME NEW c \in Conns, ReceiveWait(c) PROVE Core'
  BY <1>1, <1>2, <1>9 DEF ReceiveWait, userFrame, UserStates, Connecting
<1>10. ASSUME NEW c \in Conns, Quit(c) PROVE Core'
  BY <1>1, <1>2, <1>10 DEF Quit, userFrame, UserStates, Connecting
<1>11. ASSUME NEW c \in Conns, Send(c) PROVE Core'
  <2>1. PICK w \in {"done", "idle", "sendWait"} :
           /\ user' = [user EXCEPT ![c] = w]
           /\ w = "sendWait" => LinkIs(mNfaConnHandle[c], {"open"})
                                /\ mNfaConnHandle[c] \in congested
    BY <1>11 DEF Send
  <2> QED
    BY <1>1, <1>2, <1>11, <2>1 DEF Send, userFrame, UserStates, Connecting
(* Steps of disconnectConnOriented *)
<1>12. ASSUME NEW c \in Conns, closer[c] # "closed", Same, discAsked \subseteq discAsked',
              Tables,
              NEW w \in CloserStates, closer' = [closer EXCEPT ![c] = w],
              w = "discWait" => LinkIs(mNfaConnHandle[c], {"asked", "open"})
                                /\ mNfaConnHandle[c] \in discAsked',
              user' \in {user, [user EXCEPT ![c] = "sendWoken"], [user EXCEPT ![c] = "readWoken"]}
       PROVE  Core'
  <2>1. ConnectingNotClosed'
    BY <1>12 DEF Core, ConnectingNotClosed, Connecting, TypeOK
  <2>2. \A d \in Conns : /\ user'[d] = "sendWait" => user[d] = "sendWait"
                         /\ closer'[d] = "discWait" =>
                              \/ closer[d] = "discWait"
                              \/ /\ LinkIs(mNfaConnHandle[d], {"asked", "open"})
                                 /\ mNfaConnHandle[d] \in discAsked'
    BY <1>12 DEF TypeOK
  <2>3. /\ link' \in [Handles -> {"free", "asked", "open"}]
        /\ \A h \in Handles : /\ link[h] = "free" <=> link'[h] = "free"
                              /\ link[h] = "open" => link'[h] = "open"
    BY <1>12 DEF TypeOK
  <2>4. UNCHANGED <<mNfaConnHandle, congested, cb>>
    BY <1>12
  <2> QED
    BY <1>12, <2>1, <2>2, <2>3, <2>4, QuietStep
<1>13. ASSUME NEW c \in Conns, CloseBegin(c) PROVE Core'
  <2>1. PICK w \in {"cong", "closed"} : closer' = [closer EXCEPT ![c] = w]
    BY <1>13 DEF CloseBegin
  <2> QED
    BY <1>2, <1>12, <1>13, <2>1 DEF CloseBegin, closerFrame, CloserStates
<1>14. ASSUME NEW c \in Conns, CloseCong(c) PROVE Core'
  BY <1>2, <1>12, <1>14 DEF CloseCong, NotifyCong, closerFrame, CloserStates
<1>15. ASSUME NEW c \in Conns, CloseRead(c) PROVE Core'
  BY <1>2, <1>12, <1>15 DEF CloseRead, NotifyRead, closerFrame, CloserStates
<1>16. ASSUME NEW c \in Conns, CloseDisc(c) PROVE Core'
  <2>1. PICK w \in {"remove", "discWait"} :
           /\ closer' = [closer EXCEPT ![c] = w]
           /\ w = "discWait" => LinkIs(mNfaConnHandle[c], {"asked", "open"})
                                /\ mNfaConnHandle[c] \in discAsked'
           /\ discAsked \subseteq discAsked'
    BY <1>16 DEF CloseDisc
  <2> QED
    BY <1>2, <1>12, <1>16, <2>1 DEF CloseDisc, closerFrame, CloserStates
<1>17. ASSUME NEW c \in Conns, CloseRemove(c) PROVE Core'
  <2>1. Tables
    <3>1. CASE mClients' = mClients \ {c} /\ UNCHANGED mServerConn
      BY <1>3, <1>17, <3>1 DEF CloseRemove
    <3>2. CASE mServer.obj # None /\ RemoveSlot(mServer.obj, c) /\ UNCHANGED mClients
      <4>1. \A d \in Conns : InServer(d)' => InServer(d)
        BY <1>17, <3>2 DEF CloseRemove, InServer, RemoveSlot, TypeOK
      <4> QED
        BY <3>2, <4>1 DEF InTable
    <3>3. CASE UNCHANGED <<mClients, mServerConn>>
      BY <1>2, <1>17, <3>3 DEF CloseRemove
    <3> QED
      BY <1>17, <3>1, <3>2, <3>3 DEF CloseRemove
  <2> QED
    BY <1>12, <1>17, <2>1 DEF CloseRemove, CloserStates
<1>18. ASSUME NEW c \in Conns, NEW h \in Handles, ConnectedEvt(c, h) PROVE Core'
  <2> USE DEF TypeOK
  <2>1. /\ cb = Idle /\ cb' = cb /\ user[c] = "connWait" /\ link[h] = "free"
        /\ link' = [link EXCEPT ![h] = "open"]
        /\ mNfaConnHandle' = [mNfaConnHandle EXCEPT ![c] = h]
        /\ user' = [user EXCEPT ![c] = "connWoken"]
        /\ UNCHANGED <<mServer, mServerConn, mClients, closer, congested, discAsked>>
    BY <1>18 DEF ConnectedEvt
  <2>2. /\ closer[c] = "closed" /\ h # None
        /\ \A d \in Conns : InTable(d) => mNfaConnHandle[d] # h
    BY <2>1 DEF Core, ConnectingNotClosed, Connecting, NoStaleHandle, LinkIs, DiscComing, Idle
  <2>3. \A d \in Conns : InTable(d)' <=> InTable(d)
    BY <2>1 DEF InTable, InServer
  <2>4. \A S : \A d \in Conns : d # c /\ mNfaConnHandle[d] # h =>
           (LinkIs(mNfaConnHandle[d], S)' <=> LinkIs(mNfaConnHandle[d], S))
    BY <2>1 DEF LinkIs
  <2>5. HandleOfOneConn'
    BY <2>1, <2>2, <2>3 DEF Core, HandleOfOneConn
  <2>6. NoStaleHandle'
    <3>1. LinkIs(mNfaConnHandle[c], {"asked", "open"})'
      BY <2>1, <2>2 DEF LinkIs
    <3>2. ASSUME NEW d \in Conns, d # c, InTable(d), mNfaConnHandle[d] # None
          PROVE  LinkIs(mNfaConnHandle[d], {"asked", "open"})'
      BY <2>1, <2>2, <2>4, <3>2 DEF Core, NoStaleHandle, DiscComing, Idle
    <3> QED
      BY <2>1, <2>3, <3>1, <3>2 DEF NoStaleHandle
  <2>7. DisconnectWakes'
    <3>1. ASSUME NEW d \in Conns, d # c, InTable(d), closer[d] = "discWait"
          PROVE  LinkIs(mNfaConnHandle[d], {"asked", "open"})' /\ mNfaConnHandle[d] \in discAsked
      BY <2>1, <2>2, <2>4, <3>1 DEF Core, DisconnectWakes, DiscComing, Idle
    <3> QED
      BY <2>1, <2>2, <2>3, <3>1 DEF DisconnectWakes
  <2>8. SendWakes'
    <3>1. ASSUME NEW d \in Conns, d # c, InTable(d), user[d] = "sendWait"
          PROVE  LinkIs(mNfaConnHandle[d], {"open"})' /\ mNfaConnHandle[d] \in congested
      BY <2>1, <2>2, <2>4, <3>1 DEF Core, SendWakes, DiscComing, Idle
    <3> QED
      BY <2>1, <2>2, <2>3, <3>1 DEF SendWakes
  <2>9. CallbackShape'
    BY <2>1 DEF CallbackShape, Idle
  <2>10. ConnectingNotClosed'
    BY <2>1, <2>2 DEF Core, ConnectingNotClosed, Connecting
  <2> QED
    BY <2>5, <2>6, <2>7, <2>8, <2>9, <2>10 DEF Core
<1> QED
  BY <1>4, <1>5, <1>6, <1>7, <1>8, <1>9, <1>10, <1>11, <1>13, <1>14, <1>15, <1>16, <1>17, <1>18
     DEF ClientConnect, UseSocket, CloseConn

(* What changes in the stack: a new callback begins *)
LEMMA LinkCore ==
    ASSUME TypeOK, Core, NEW h \in Handles,
           LoseLink(h) \/ DataArrives(h) \/ CongestionChanges(h) \/ PeerConnects(h)
    PROVE  Core'
<1> USE DEF TypeOK, Idle
<1>1. /\ cb = Idle /\ cb'.conn = None /\ cb'.h = h /\ h # None
      /\ UNCHANGED <<mServer, mServerConn, mClients, mNfaConnHandle, user, closer>>
  BY DEF LoseLink, DataArrives, CongestionChanges, PeerConnects, tableFrame, serverVars
<1>2. \A c \in Conns : InTable(c)' <=> InTable(c)
  BY <1>1 DEF InTable, InServer
<1>3. \A S : \A c \in Conns : mNfaConnHandle[c] # h =>
         (LinkIs(mNfaConnHandle[c], S)' <=> LinkIs(mNfaConnHandle[c], S))
  BY <1>1 DEF LinkIs, LoseLink, DataArrives, CongestionChanges, PeerConnects
(* Before the step nothing is under way, so the invariants speak of links *)
<1>4. /\ \A c \in Conns : InTable(c) /\ mNfaConnHandle[c] # None =>
            LinkIs(mNfaConnHandle[c], {"asked", "open"})
      /\ \A c \in Conns : closer[c] = "discWait" /\ InTable(c) =>
            LinkIs(mNfaConnHandle[c], {"asked", "open"}) /\ mNfaConnHandle[c] \in discAsked
      /\ \A c \in Conns : user[c] = "sendWait" /\ InTable(c) =>
            LinkIs(mNfaConnHandle[c], {"open"}) /\ mNfaConnHandle[c] \in congested
  BY <1>1 DEF Core, NoStaleHandle, DisconnectWakes, SendWakes, DiscComing
<1>5. HandleOfOneConn' /\ ConnectingNotClosed'
  BY <1>1, <1>2 DEF Core, HandleOfOneConn, ConnectingNotClosed
<1>6. CASE LoseLink(h)
  <2>1. /\ link' = [link EXCEPT ![h] = "free"] /\ cb'.ev = "discFind"
        /\ congested' = congested \ {h} /\ discAsked' = discAsked \ {h}
    BY <1>6 DEF LoseLink
  <2>2. NoStaleHandle'
    BY <1>1, <1>2, <1>3, <1>4, <2>1 DEF NoStaleHandle, DiscComing
  <2>3. DisconnectWakes'
    BY <1>1, <1>2, <1>3, <1>4, <2>1 DEF DisconnectWakes, DiscComing
  <2>4. SendWakes'
    BY <1>1, <1>2, <1>3, <1>4, <2>1 DEF SendWakes, DiscComing
  <2>5. CallbackShape'
    BY <1>1, <2>1 DEF CallbackShape
  <2> QED
    BY <1>5, <2>2, <2>3, <2>4, <2>5 DEF Core
<1>7. CASE DataArrives(h)
  <2>1. UNCHANGED <<link, congested, discAsked>> /\ cb'.ev = "data"
    BY <1>7 DEF DataArrives
  <2>2. \A S : \A c \in Conns : LinkIs(mNfaConnHandle[c], S)' <=> LinkIs(mNfaConnHandle[c], S)
    BY <1>1, <2>1 DEF LinkIs
  <2> QED
    BY <1>1, <1>2, <1>4, <1>5, <2>1, <2>2
       DEF Core, NoStaleHandle, DisconnectWakes, SendWakes, CallbackShape
<1>8. CASE CongestionChanges(h)
  <2>1. /\ UNCHANGED <<link, discAsked>> /\ link[h] = "open"
        /\ \/ congested \subseteq congested' /\ cb'.ev = "congested"
           \/ congested' = congested \ {h} /\ cb'.ev = "uncongested"
    BY <1>8 DEF CongestionChanges
  <2>2. \A S : \A c \in Conns : LinkIs(mNfaConnHandle[c], S)' <=> LinkIs(mNfaConnHandle[c], S)
    BY <1>1, <2>1 DEF LinkIs
  <2>3. NoStaleHandle' /\ DisconnectWakes'
    BY <1>1, <1>2, <1>4, <2>1, <2>2 DEF NoStaleHandle, DisconnectWakes
  <2>4. SendWakes'
    BY <1>1, <1>2, <1>4, <2>1, <2>2 DEF SendWakes
  <2>5. CallbackShape'
    BY <1>1, <2>1 DEF CallbackShape
  <2> QED
    BY <1>5, <2>3, <2>4, <2>5 DEF Core
<1>9. CASE PeerConnects(h)
  <2>1. /\ link[h] = "free" /\ link' = [link EXCEPT ![h] = "asked"]
        /\ UNCHANGED <<congested, discAsked>> /\ cb'.ev = "requestFind"
    BY <1>9 DEF PeerConnects
  <2>2. \A c \in Conns : InTable(c) => mNfaConnHandle[c] # h
    BY <1>1, <1>4, <2>1 DEF LinkIs
  <2>3. NoStaleHandle' /\ DisconnectWakes' /\ SendWakes'
    BY <1>1, <1>2, <1>3, <1>4, <2>1, <2>2 DEF NoStaleHandle, DisconnectWakes, SendWakes
  <2>4. CallbackShape'
    BY <1>1, <1>2, <2>1, <2>2 DEF CallbackShape
  <2> QED
    BY <1>5, <2>3, <2>4 DEF Core
<1> QED
  BY <1>6, <1>7, <1>8, <1>9

(* The callbacks of the NFC task *)
LEMMA CallbackCore ==
    ASSUME TypeOK, Core, Callback
    PROVE  Core'
<1> USE DEF TypeOK, Idle, CallbackType, CallbackHolds, Found
<1>1. UNCHANGED <<mServer, mServerConn, mClients, link, congested, discAsked>>
  BY DEF Callback, DataEvt, CongestEvt, DiscFind, DiscMark, DiscCong, DiscRead, ConnReqFind,
         ConnReqGive, cbFrame, tableFrame, serverVars, stackVars
<1>2. \A c \in Conns : InTable(c)' <=> InTable(c)
  BY <1>1 DEF InTable, InServer
<1>3. \A S : \A c \in Conns : mNfaConnHandle'[c] = mNfaConnHandle[c] =>
         (LinkIs(mNfaConnHandle[c], S)' <=> LinkIs(mNfaConnHandle[c], S))
  BY <1>1 DEF LinkIs
(* A callback that takes no connection down, and keeps the handles *)
<1>4. ASSUME UNCHANGED <<mNfaConnHandle, closer>>,
             cb.ev \notin {"discFind", "discMark"}, cb'.ev \notin {"discFind", "discMark"},
             \A c \in Conns : user'[c] = "sendWait" =>
                user[c] = "sendWait" /\ ~(DiscComing(c, {"discCong"}) /\ InTable(c))
                /\ ~(cb.ev = "uncongested" /\ cb.h = mNfaConnHandle[c] /\ InTable(c)),
             \A c \in Conns : user'[c] \in Connecting => user[c] \in Connecting,
             CallbackShape'
      PROVE  Core'
  <2>1. HandleOfOneConn' /\ ConnectingNotClosed'
    BY <1>2, <1>4 DEF Core, HandleOfOneConn, ConnectingNotClosed
  <2>2. NoStaleHandle'
    BY <1>2, <1>3, <1>4 DEF Core, NoStaleHandle, DiscComing
  <2>3. DisconnectWakes'
    BY <1>1, <1>2, <1>3, <1>4 DEF Core, DisconnectWakes, DiscComing
  <2>4. SendWakes'
    BY <1>1, <1>2, <1>3, <1>4 DEF Core, SendWakes, DiscComing
  <2> QED
    BY <1>4, <2>1, <2>2, <2>3, <2>4 DEF Core
<1>5. CASE DataEvt
  <2>1. /\ \A c \in Conns : user'[c] = "sendWait" => user[c] = "sendWait"
        /\ \A c \in Conns : user'[c] \in Connecting => user[c] \in Connecting
    BY <1>5 DEF DataEvt, NotifyRead, Connecting, FindConnection
  <2>2. CallbackShape'
    BY <1>5 DEF DataEvt, CallbackShape
  <2> QED
    BY <1>4, <1>5, <2>1, <2>2 DEF DataEvt, DiscComing, cbFrame, tableFrame
<1>6. CASE CongestEvt
  <2>1. /\ \A c \in Conns : user'[c] = "sendWait" => user[c] = "sendWait"
        /\ \A c \in Conns : user'[c] \in Connecting => user[c] \in Connecting
    BY <1>6 DEF CongestEvt, NotifyCong, Connecting, FindConnection
  <2>2. ASSUME NEW c \in Conns, user'[c] = "sendWait", InTable(c),
               cb.ev = "uncongested", cb.h = mNfaConnHandle[c]
        PROVE  FALSE
    <3>1. c \in FindConnection(cb.h)
      BY <2>2 DEF FindConnection
    <3>2. PICK d \in FindConnection(cb.h) : NotifyCong(d)
      BY <1>6, <2>2, <3>1 DEF CongestEvt
    <3>3. d = c
      BY <2>2, <3>2 DEF FindConnection, Core, HandleOfOneConn
    <3> QED
      BY <2>2, <3>2, <3>3 DEF NotifyCong
  <2>3. CallbackShape'
    BY <1>6 DEF CongestEvt, CallbackShape
  <2> QED
    BY <1>4, <1>6, <2>1, <2>2, <2>3 DEF CongestEvt, DiscComing, cbFrame, tableFrame
<1>7. CASE DiscCong
  <2>1. /\ \A c \in Conns : user'[c] = "sendWait" => user[c] = "sendWait" /\ c # cb.conn
        /\ \A c \in Conns : user'[c] \in Connecting => user[c] \in Connecting
    BY <1>7 DEF DiscCong, NotifyCong, Connecting
  <2>2. cb'.ev = "discRead" /\ CallbackShape'
    BY <1>7 DEF DiscCong, CallbackShape
  <2> QED
    BY <1>4, <1>7, <2>1, <2>2 DEF DiscCong, DiscComing, cbFrame, tableFrame
<1>8. CASE DiscRead
  <2>1. /\ \A c \in Conns : user'[c] = "sendWait" => user[c] = "sendWait"
        /\ \A c \in Conns : user'[c] \in Connecting => user[c] \in Connecting
    BY <1>8 DEF DiscRead, NotifyRead, Connecting
  <2>2. CallbackShape'
    BY <1>8 DEF DiscRead, CallbackShape
  <2> QED
    BY <1>4, <1>8, <2>1, <2>2 DEF DiscRead, DiscComing, cbFrame, tableFrame
<1>9. CASE ConnReqFind
  <2>1. CASE cb' = Idle
    BY <1>4, <1>9, <2>1 DEF ConnReqFind, DiscComing, CallbackShape, cbFrame, tableFrame
  <2>2. ASSUME NEW i \in Slots, FirstWaiting(cb.srv, i),
               cb' = [cb EXCEPT !.ev = "requestGive", !.conn = mServerConn[cb.srv][i]]
        PROVE  Core'
    <3>1. cb'.ev = "requestGive" /\ cb'.h = cb.h /\ mNfaConnHandle[cb'.conn] = None
      BY <2>2 DEF FirstWaiting, Waiting
    <3>2. mNfaConnHandle' = mNfaConnHandle
      BY <1>9 DEF ConnReqFind
    <3>3. CallbackShape'
      BY <1>1, <1>2, <1>9, <3>1, <3>2 DEF ConnReqFind, Core, CallbackShape
    <3> QED
      BY <1>4, <1>9, <3>1, <3>3 DEF ConnReqFind, DiscComing, cbFrame, tableFrame
  <2> QED
    BY <1>9, <2>1, <2>2 DEF ConnReqFind
<1>10. CASE DiscFind
  <2>1. cb.ev = "discFind" /\ UNCHANGED <<mNfaConnHandle, user, closer>>
    BY <1>10 DEF DiscFind, cbFrame, tableFrame
  <2>2. HandleOfOneConn' /\ ConnectingNotClosed'
    BY <1>2, <2>1 DEF Core, HandleOfOneConn, ConnectingNotClosed
  <2>3. ASSUME NEW c \in Conns, InTable(c), DiscComing(c, {"discMark", "discCong"})
        PROVE  DiscComing(c, {"discMark"})'
    <3>1. c \in FindConnection(cb.h)
      BY <2>1, <2>3 DEF DiscComing, FindConnection
    <3>2. PICK d \in FindConnection(cb.h) : cb' = [cb EXCEPT !.ev = "discMark", !.conn = d]
      BY <1>10, <3>1 DEF DiscFind
    <3>3. d = c
      BY <2>1, <3>1, <3>2 DEF FindConnection, Core, HandleOfOneConn
    <3> QED
      BY <3>2, <3>3 DEF DiscComing
  <2>4. NoStaleHandle' /\ DisconnectWakes'
    BY <1>1, <1>2, <1>3, <2>1, <2>3 DEF Core, NoStaleHandle, DisconnectWakes, DiscComing
  <2>5. SendWakes'
    BY <1>1, <1>2, <1>3, <2>1, <2>3 DEF Core, SendWakes, DiscComing
  <2>6. CallbackShape'
    <3>1. CASE cb' = Idle
      BY <3>1 DEF CallbackShape
    <3>2. ASSUME NEW d \in FindConnection(cb.h),
                 cb' = [cb EXCEPT !.ev = "discMark", !.conn = d]
          PROVE  CallbackShape'
      <4>1. cb'.ev = "discMark" /\ cb'.h = cb.h /\ cb'.conn = d /\ cb.h # None
        BY <2>1, <3>2
      <4>2. \A c \in Conns : InTable(c) /\ mNfaConnHandle[c] = cb.h => c = d
        BY <3>2, <4>1 DEF FindConnection, Core, HandleOfOneConn
      <4> QED
        BY <1>2, <2>1, <3>2, <4>1, <4>2 DEF CallbackShape, FindConnection
    <3> QED
      BY <1>10, <3>1, <3>2 DEF DiscFind
  <2> QED
    BY <2>2, <2>4, <2>5, <2>6 DEF Core
<1>11. CASE DiscMark
  <2> DEFINE c == cb.conn
  <2>1. /\ cb.ev = "discMark" /\ c \in Conns /\ cb'.ev = "discCong" /\ cb'.conn = c
        /\ mNfaConnHandle' = [mNfaConnHandle EXCEPT ![c] = None]
        /\ closer' = IF closer[c] = "discWait" THEN [closer EXCEPT ![c] = "remove"] ELSE closer
        /\ user' = user
    BY <1>11 DEF DiscMark
  <2>2. \A d \in Conns : ~DiscComing(d, {"discMark"}) <=> d # c
    BY <2>1 DEF DiscComing
  <2>3. HandleOfOneConn'
    BY <1>2, <2>1 DEF Core, HandleOfOneConn
  <2>4. NoStaleHandle'
    BY <1>2, <1>3, <2>1, <2>2 DEF Core, NoStaleHandle
  <2>5. DisconnectWakes'
    BY <1>1, <1>2, <1>3, <2>1, <2>2 DEF Core, DisconnectWakes
  <2>6. SendWakes'
    <3>1. DiscComing(c, {"discMark", "discCong"})'
      BY <2>1 DEF DiscComing
    <3>2. \A d \in Conns : d # c => ~DiscComing(d, {"discMark", "discCong"})
      BY <2>1 DEF DiscComing
    <3> QED
      BY <1>1, <1>2, <1>3, <2>1, <3>1, <3>2 DEF Core, SendWakes
  <2>7. CallbackShape'
    BY <2>1 DEF CallbackShape
  <2>8. ConnectingNotClosed'
    BY <2>1 DEF Core, ConnectingNotClosed
  <2> QED
    BY <2>3, <2>4, <2>5, <2>6, <2>7, <2>8 DEF Core
<1>12. CASE ConnReqGive
  <2>0. PICK c \in Conns : c = cb.conn
    BY <1>12 DEF ConnReqGive
  <2>1. /\ cb.ev = "requestGive" /\ c = cb.conn /\ cb' = Idle /\ cb.h \in Handles
        /\ mNfaConnHandle' = [mNfaConnHandle EXCEPT ![c] = cb.h]
        /\ UNCHANGED <<user, closer>>
    BY <1>12, <2>0 DEF ConnReqGive
  <2>2. /\ link[cb.h] # "free" /\ mNfaConnHandle[c] = None
        /\ \A d \in Conns : InTable(d) => mNfaConnHandle[d] # cb.h
    BY <2>1 DEF Core, CallbackShape
  <2>3. \A d \in Conns : ~DiscComing(d, {"discMark", "discCong"}) /\ ~DiscComing(d, {"discMark"})
    BY <2>1 DEF DiscComing
  <2>4. HandleOfOneConn' /\ ConnectingNotClosed'
    BY <1>2, <2>1, <2>2 DEF Core, HandleOfOneConn, ConnectingNotClosed
  <2>5. LinkIs(mNfaConnHandle[c], {"asked", "open"})'
    BY <1>1, <2>1, <2>2 DEF LinkIs
  <2>6. NoStaleHandle'
    BY <1>2, <1>3, <2>1, <2>3, <2>5 DEF Core, NoStaleHandle
  <2>7. DisconnectWakes' /\ SendWakes'
    <3>1. ~(InTable(c) /\ (closer[c] = "discWait" \/ user[c] = "sendWait"))
      BY <2>1, <2>2, <2>3 DEF Core, DisconnectWakes, SendWakes, LinkIs
    <3> QED
      BY <1>1, <1>2, <1>3, <2>1, <2>3, <3>1 DEF Core, DisconnectWakes, SendWakes
  <2>8. CallbackShape'
    BY <2>1 DEF CallbackShape
  <2> QED
    BY <2>4, <2>6, <2>7, <2>8 DEF Core
<1> QED
  BY <1>5, <1>6, <1>7, <1>8, <1>9, <1>10, <1>11, <1>12 DEF Callback

LEMMA NextCore == TypeOK /\ Core /\ [Next]_vars => Core'
<1> SUFFICES ASSUME TypeOK, Core, [Next]_vars PROVE Core'
  OBVIOUS
<1>1. CASE UNCHANGED vars
  <2>1. UNCHANGED <<mServer, mServerConn, mClients, mNfaConnHandle, user, closer, link,
                    congested, discAsked, cb>>
    BY <1>1 DEF vars, serverVars, stackVars
  <2> QED
    BY <2>1 DEF Core, HandleOfOneConn, NoStaleHandle, DisconnectWakes, SendWakes, DiscComing,
                LinkIs, CallbackShape, ConnectingNotClosed, InTable, InServer
<1>2. CASE Next
  BY <1>2, ServerCore, SocketCore, LinkCore, CallbackCore DEF Next
<1> QED
  BY <1>1, <1>2

LEMMA CoreCorrect == Spec => []Core
<1> QED
  BY InitCore, NextCore, TypeCorrect, PTL DEF Spec

(* The handle of a data link belongs to at most one connection the callbacks
   can find, and that connection never outlives its link by more than the
   disconnect callback under way: for any number of connections, links,
   servers and threads, a handle the stack uses again cannot reach the
   connection of the link before. *)
THEOREM HandlesCorrect == Spec => []HandlesSound
<1>1. Core => HandlesSound
  BY DEF Core, HandlesSound
<1> QED
  BY <1>1, CoreCorrect, PTL

(* Nobody sleeps in disconnectConnOriented, or in send on a connection the
   callbacks can find, on an event that is not coming. *)
THEOREM WaitersCorrect == Spec => []WaitersWoken
<1>1. Core => WaitersWoken
  BY DEF Core, WaitersWoken
<1> QED
  BY <1>1, CoreCorrect, PTL

-----------------------------------------------------------------------------
(* The owner of the registered server *)

(* A thread that holds a server socket is between createLlcpServerSocket and
   the end of its finally block *)
SocketHeld == \A t \in mServerSocket : thread[t].at \notin {"ended", "create", "check"}

OwnerInv ==
    /\ SocketHeld
    /\ mServer # NoServer => mServer.jni \in mServerSocket

LEMMA InitOwnerInv == Init => OwnerInv
BY DEF Init, OwnerInv, SocketHeld

(* Threads that only move on inside the loop keep the server and its owner *)
LEMMA MoveOwnerInv ==
    ASSUME OwnerInv, UNCHANGED <<mServer, mServerSocket>>,
           \A t \in mServerSocket :
              thread'[t].at = thread[t].at \/ thread'[t].at \notin {"ended", "create", "check"}
    PROVE  OwnerInv'
BY DEF OwnerInv, SocketHeld

LEMMA NextOwnerInv == TypeOK /\ OwnerInv /\ [Next]_vars => OwnerInv'
<1> SUFFICES ASSUME TypeOK, OwnerInv, [Next]_vars PROVE OwnerInv'
  OBVIOUS
<1> USE DEF ThreadType, serverVars, stackVars
<1>1. ASSUME UNCHANGED <<mServer, mServerSocket, thread>> PROVE OwnerInv'
  BY <1>1, MoveOwnerInv
<1>2. ASSUME NEW s, NotifyAccept(s), UNCHANGED <<mServer, mServerSocket>> PROVE OwnerInv'
  <2>1. \A t \in Threads : thread'[t].at = thread[t].at \/ thread'[t].at = "woken"
    BY <1>2 DEF NotifyAccept, Accepting, TypeOK
  <2>2. mServerSocket \subseteq Threads
    BY DEF TypeOK
  <2>3. QED
    BY <1>2, <2>1, <2>2, MoveOwnerInv
<1>3. CASE UNCHANGED vars
  BY <1>1, <1>3 DEF vars
<1>4. CASE Callback
  <2>1. CASE ConnReqGive
    BY <1>2, <2>1 DEF ConnReqGive
  <2>2. CASE ~ConnReqGive
    BY <1>1, <1>4, <2>2 DEF Callback, DataEvt, CongestEvt, DiscFind, DiscMark, DiscCong,
                            DiscRead, ConnReqFind, cbFrame, tableFrame
  <2> QED
    BY <2>1, <2>2
<1>5. ASSUME NEW h \in Handles,
             LoseLink(h) \/ DataArrives(h) \/ CongestionChanges(h) \/ PeerConnects(h)
      PROVE  OwnerInv'
  BY <1>1, <1>5 DEF LoseLink, DataArrives, CongestionChanges, PeerConnects, tableFrame
<1>6. ASSUME NEW c \in Conns,
             \/ ClientConnect(c) \/ UseSocket(c) \/ CloseConn(c)
             \/ RegClientEvt(c) \/ RefusedEvt(c) \/ \E h \in Handles : ConnectedEvt(c, h)
      PROVE  OwnerInv'
  BY <1>1, <1>6 DEF ClientConnect, CreateClient, Connect, Connected, UseSocket, Receive,
        ReceiveWait, Send, Quit, CloseConn, CloseBegin, CloseCong, CloseRead, CloseDisc,
        CloseRemove, RegClientEvt, RefusedEvt, ConnectedEvt, userFrame, closerFrame
<1>7. CASE DeregisterNotify
  BY <1>2, <1>7 DEF DeregisterNotify
<1>8. CASE DeregisterRemove
  BY <1>8 DEF DeregisterRemove, OwnerInv, SocketHeld, TypeOK
<1>9. ASSUME NEW t \in Threads, Start(t) PROVE OwnerInv'
  BY <1>9, MoveOwnerInv DEF Start, OwnerInv, SocketHeld, TypeOK
<1>10. ASSUME NEW t \in Threads, Stop(t) PROVE OwnerInv'
  BY <1>10 DEF Stop, CloseSocket, OwnerInv, SocketHeld
<1>11. ASSUME NEW t \in Threads, Create(t) PROVE OwnerInv'
  BY <1>11 DEF Create, RegisterServer, OwnerInv, SocketHeld, TypeOK
<1>12. ASSUME NEW t \in Threads,
              Loop(t) \/ Accept(t) \/ Allocate(t) \/ Block(t) \/ Woken(t) \/ Answer(t)
       PROVE  OwnerInv'
  <2> DEFINE Moves == /\ UNCHANGED <<mServer, mServerSocket>>
                      /\ \A u \in Threads : u # t => thread'[u] = thread[u]
                      /\ thread'[t].at \notin {"ended", "create", "check"}
  <2>1. CASE Loop(t) \/ Block(t)
    <3>1. Moves
      BY <2>1 DEF Loop, Block, TypeOK
    <3> QED
      BY <3>1, MoveOwnerInv DEF TypeOK
  <2>2. CASE Accept(t)
    <3>1. Moves
      BY <2>2 DEF Accept, TypeOK
    <3> QED
      BY <3>1, MoveOwnerInv DEF TypeOK
  <2>4. CASE Allocate(t)
    <3>1. UNCHANGED <<mServer, mServerSocket>>
      BY <2>4 DEF Allocate
    <3>2. CASE thread' = [thread EXCEPT ![t] = [at |-> "close", srv |-> None, conn |-> None]]
      <4>1. Moves
        BY <3>1, <3>2 DEF TypeOK
      <4> QED
        BY <4>1, MoveOwnerInv DEF TypeOK
    <3>3. ASSUME NEW c \in Conns,
                 thread' = [thread EXCEPT ![t] =
                               [at |-> "block", srv |-> thread[t].srv, conn |-> c]]
          PROVE  OwnerInv'
      <4>1. Moves
        BY <3>1, <3>3 DEF TypeOK
      <4> QED
        BY <4>1, MoveOwnerInv DEF TypeOK
    <3> QED
      BY <2>4, <3>2, <3>3 DEF Allocate
  <2>3. CASE Woken(t) \/ Answer(t)
    <3>1. Moves
      BY <2>3 DEF Woken, Answer, TypeOK
    <3> QED
      BY <3>1, MoveOwnerInv DEF TypeOK
  <2> QED
    BY <1>12, <2>1, <2>2, <2>3, <2>4
<1>13. ASSUME NEW t \in Threads, CloseThread(t) PROVE OwnerInv'
  BY <1>13 DEF CloseThread, CloseSocket, OwnerInv, SocketHeld, TypeOK
<1>14. ASSUME NEW t \in Threads, Check(t) PROVE OwnerInv'
  BY <1>14, MoveOwnerInv DEF Check, OwnerInv, SocketHeld, TypeOK
<1> QED
  BY <1>3, <1>4, <1>5, <1>6, <1>7, <1>8, <1>9, <1>10, <1>11, <1>12, <1>13, <1>14
     DEF Next, ServerThread

(* Whatever stop() and start() do while the threads are on their way, a
   server registered with the stack is the open socket of a ServerThread
   that still has to close it. *)
THEOREM RegistrationOwned == Spec => []RegisteredHasOwner
<1>1. TypeOK /\ OwnerInv => RegisteredHasOwner
  BY DEF OwnerInv, SocketHeld, RegisteredHasOwner
<1> QED
  BY <1>1, InitOwnerInv, NextOwnerInv, TypeCorrect, PTL DEF Spec

-----------------------------------------------------------------------------
(* The slots of the registered server *)

(* stop() is followed by start() only once the ServerThread has ended. *)
OneServerThread ==
    \A t, u \in Threads : thread[t].at = "ended" \/ thread[u].at = "ended" \/ t = u

(* The block is that of a thread in accept, or of a connection that has still *)
(* to be closed, or the server's thread is about to close them all.           *)
HasOwner(c) ==
    \/ \E t \in Threads : thread[t].conn = c
    \/ closer[c] # "closed"
    \/ thread[mServer.jni].at \in {"close", "closing"}

(* The points of accept where the thread has its block at hand. *)
WithBlock == {"block", "wait", "woken", "answer"}

SlotInv ==
    /\ \A c \in mClients : ~InServer(c)
    /\ \A t \in Threads : thread[t].at \notin WithBlock => thread[t].conn = None
    /\ \A c \in Conns : InServer(c) => HasOwner(c)

LEMMA InitSlotInv == Init => SlotInv
BY DEF Init, SlotInv, InServer, NoServer

(* The thread of the server is the one that is not at its end. *)
LEMMA ServerThreadOwns ==
    ASSUME TypeOK, OwnerInv, OneServerThread, NEW t \in Threads, thread[t].at # "ended",
           mServer # NoServer
    PROVE  mServer.jni = t
BY DEF TypeOK, OwnerInv, SocketHeld, OneServerThread

(* Steps that leave the slots, and neither close a connection nor give up an *)
(* accept.                                                                   *)
LEMMA QuietSlots ==
    ASSUME TypeOK, SlotInv, UNCHANGED <<mServer, mServerConn>>,
           \A c \in mClients' : c \in mClients \/ ~InServer(c),
           \A c \in Conns : InServer(c) /\ closer[c] # "closed" => closer'[c] # "closed",
           \A t \in Threads :
              /\ thread'[t].conn = thread[t].conn
              /\ thread'[t].at \notin WithBlock => thread[t].at \notin WithBlock
              /\ mServer # NoServer /\ t = mServer.jni /\ thread[t].at \in {"close", "closing"}
                   => thread'[t].at \in {"close", "closing"}
    PROVE  SlotInv'
<1>1. \A c : InServer(c)' <=> InServer(c)
  BY DEF InServer
<1>2. \A c \in Conns : InServer(c) => mServer # NoServer /\ mServer.jni \in Threads
  BY DEF InServer, NoServer, TypeOK
<1>3. ASSUME NEW c \in Conns, InServer(c) PROVE HasOwner(c)'
  <2>1. HasOwner(c)
    BY <1>3 DEF SlotInv
  <2>2. mServer' = mServer /\ mServer.jni \in Threads /\ mServer # NoServer
    BY <1>2, <1>3
  <2>3. QED
    BY <1>3, <2>1, <2>2 DEF HasOwner
<1>4. QED
  BY <1>1, <1>3 DEF SlotInv

(* A thread gives up its accept, and the server is closed next. *)
LEMMA GivesUpSlots ==
    ASSUME TypeOK, OwnerInv, OneServerThread, SlotInv, NEW t \in Threads,
           thread[t].at # "ended", UNCHANGED <<mServer, mClients>>,
           \A c \in Conns : InServer(c)' => InServer(c),
           thread' = [thread EXCEPT ![t] = [at |-> "close", srv |-> None, conn |-> None]]
    PROVE  SlotInv'
<1>1. mServer # NoServer => thread'[mServer.jni].at = "close"
  BY ServerThreadOwns DEF TypeOK
<1>2. \A c : InServer(c)' => mServer # NoServer
  BY DEF InServer, NoServer
<1>3. \A u \in Threads : thread'[u].at \notin WithBlock => thread'[u].conn = None
  BY DEF SlotInv, TypeOK
<1>4. ASSUME NEW c \in Conns, InServer(c)' PROVE HasOwner(c)'
  BY <1>1, <1>2, <1>4 DEF HasOwner
<1>5. mClients \subseteq Conns
  BY DEF TypeOK
<1>6. QED
  BY <1>3, <1>4, <1>5 DEF SlotInv

LEMMA ServerSlots ==
    ASSUME TypeOK, OwnerInv, OneServerThread, SlotInv,
           \/ DeregisterNotify \/ DeregisterRemove
           \/ \E t \in Threads : Start(t) \/ Stop(t) \/ ServerThread(t)
    PROVE  SlotInv'
<1> USE DEF ThreadType, stackVars
<1>1. CASE DeregisterNotify
  <2>1. \A t \in Threads : thread'[t].conn = thread[t].conn /\
            (thread'[t].at = thread[t].at \/ (thread[t].at = "wait" /\ thread'[t].at = "woken"))
    BY <1>1 DEF DeregisterNotify, NotifyAccept, Accepting, TypeOK
  <2>2. UNCHANGED <<mServer, mServerConn, mClients, closer>>
    BY <1>1 DEF DeregisterNotify
  <2>3. QED
    BY <2>1, <2>2, QuietSlots DEF WithBlock
<1>2. CASE DeregisterRemove
  <2>1. \A c : ~InServer(c)'
    BY <1>2 DEF DeregisterRemove, InServer, NoServer
  <2>2. \A t \in Threads : thread'[t].conn = thread[t].conn /\
            (thread'[t].at = thread[t].at \/ (thread[t].at = "closing" /\ thread'[t].at = "check"))
    BY <1>2 DEF DeregisterRemove, TypeOK
  <2>3. QED
    BY <2>1, <2>2 DEF SlotInv, WithBlock
<1>3. ASSUME NEW t \in Threads, Start(t) PROVE SlotInv'
  <2>1. /\ thread'[t].conn = thread[t].conn /\ thread[t].at = "ended"
        /\ \A u \in Threads \ {t} : thread'[u] = thread[u]
    BY <1>3 DEF Start, TypeOK
  <2>2. UNCHANGED <<mServer, mServerConn, mClients, closer>>
    BY <1>3 DEF Start
  <2>3. QED
    BY <2>1, <2>2, QuietSlots DEF WithBlock
<1>4. ASSUME NEW t \in Threads, Stop(t) PROVE SlotInv'
  BY <1>4, QuietSlots DEF Stop
<1>5. ASSUME NEW t \in Threads, Create(t) PROVE SlotInv'
  <2>0. mServer = NoServer
    <3>1. thread[t].at = "create"
      BY <1>5 DEF Create
    <3>2. QED
      BY <3>1, ServerThreadOwns DEF OwnerInv, SocketHeld
  <2>1. \A c \in Conns : ~InServer(c)'
    BY <1>5, <2>0 DEF Create, RegisterServer, InServer, NoServer, TypeOK
  <2>2. /\ thread'[t].conn = thread[t].conn /\ thread[t].at = "create"
        /\ \A u \in Threads \ {t} : thread'[u] = thread[u]
    BY <1>5 DEF Create, TypeOK
  <2>3. mClients' = mClients /\ mClients \subseteq Conns
    BY <1>5 DEF Create, TypeOK
  <2>4. QED
    BY <2>1, <2>2, <2>3 DEF SlotInv, WithBlock
<1>6. ASSUME NEW t \in Threads, Loop(t) \/ Check(t) \/ CloseThread(t) PROVE SlotInv'
  <2>1. /\ thread'[t].conn = thread[t].conn /\ thread[t].at \in {"loop", "check", "close"}
        /\ \A u \in Threads \ {t} : thread'[u] = thread[u]
    BY <1>6 DEF Loop, Check, CloseThread, TypeOK
  <2>2. UNCHANGED <<mServer, mServerConn, mClients, closer>>
    BY <1>6 DEF Loop, Check, CloseThread
  <2>3. mServer # NoServer /\ t = mServer.jni /\ thread[t].at = "close"
            => thread'[t].at = "closing"
    BY <1>6 DEF Loop, Check, CloseThread, OwnerInv, TypeOK
  <2>4. QED
    BY <2>1, <2>2, <2>3, QuietSlots DEF WithBlock
<1>7. ASSUME NEW t \in Threads, Accept(t) PROVE SlotInv'
  <2>1. thread[t].at = "accept" /\ UNCHANGED <<mServer, mServerConn, mClients, closer>>
    BY <1>7 DEF Accept
  <2>2. /\ thread'[t].conn = None /\ thread[t].conn = None
        /\ \A u \in Threads \ {t} : thread'[u] = thread[u]
    BY <1>7, <2>1 DEF Accept, TypeOK, SlotInv, WithBlock
  <2>3. QED
    BY <2>1, <2>2, QuietSlots DEF WithBlock
<1>8. ASSUME NEW t \in Threads, Allocate(t) PROVE SlotInv'
  <2> DEFINE s == thread[t].srv
  <2>0. thread[t].at = "allocate" /\ s \in Servers
    BY <1>8 DEF Allocate, TypeOK, ThreadHolds, InAccept
  <2>1. CASE /\ thread' = [thread EXCEPT ![t] = [at |-> "close", srv |-> None, conn |-> None]]
             /\ UNCHANGED mServerConn
    <3>1. \A c : InServer(c)' => InServer(c)
      BY <1>8, <2>1 DEF InServer, Allocate
    <3>2. QED
      BY <1>8, <2>0, <2>1, <3>1, GivesUpSlots DEF Allocate
  <2>2. ASSUME NEW c \in Conns, NEW i \in Slots, Unused(c), Free(s, i),
               mServerConn' = [mServerConn EXCEPT ![s][i] = c],
               thread' = [thread EXCEPT ![t] = [at |-> "block", srv |-> s, conn |-> c]]
        PROVE  SlotInv'
    <3>1. UNCHANGED <<mServer, mClients, closer>>
      BY <1>8 DEF Allocate
    <3>2. \A d : InServer(d)' => InServer(d) \/ d = c
      BY <2>0, <2>2, <3>1 DEF InServer, TypeOK
    <3>3. c \notin mClients
      BY <2>2 DEF Unused
    <3>4. /\ thread'[t] = [at |-> "block", srv |-> s, conn |-> c]
          /\ \A u \in Threads \ {t} : thread'[u] = thread[u]
      BY <2>2 DEF TypeOK
    <3>5. ASSUME NEW d \in Conns, InServer(d)' PROVE HasOwner(d)'
      <4>1. CASE d = c
        BY <3>4, <4>1 DEF HasOwner
      <4>2. CASE d # c
        <5>0. InServer(d) /\ HasOwner(d)
          BY <3>2, <3>5, <4>2 DEF SlotInv
        <5>1. mServer.jni \in Threads
          BY <5>0 DEF InServer, TypeOK
        <5>2. thread[t].conn # d
          BY <2>0 DEF SlotInv, WithBlock
        <5>3. QED
          BY <2>0, <3>1, <3>4, <5>0, <5>1, <5>2 DEF HasOwner
      <4>3. QED
        BY <4>1, <4>2
    <3>6. QED
      BY <3>1, <3>2, <3>3, <3>4, <3>5 DEF SlotInv, WithBlock
  <2>3. QED
    BY <1>8, <2>1, <2>2 DEF Allocate
<1>9. ASSUME NEW t \in Threads, Block(t) PROVE SlotInv'
  <2>1. /\ thread'[t].conn = thread[t].conn /\ thread[t].at = "block" /\ thread'[t].at = "wait"
        /\ \A u \in Threads \ {t} : thread'[u] = thread[u]
    BY <1>9 DEF Block, TypeOK
  <2>2. UNCHANGED <<mServer, mServerConn, mClients, closer>>
    BY <1>9 DEF Block
  <2>3. QED
    BY <2>1, <2>2, QuietSlots DEF WithBlock
<1>10. ASSUME NEW t \in Threads, Woken(t) PROVE SlotInv'
  <2>0. thread[t].at = "woken" /\ UNCHANGED <<mServer, mClients, closer>>
    BY <1>10 DEF Woken
  <2>1. CASE thread' = [thread EXCEPT ![t].at = "answer"] /\ UNCHANGED mServerConn
    <3>1. /\ thread'[t].conn = thread[t].conn /\ thread'[t].at = "answer"
          /\ \A u \in Threads \ {t} : thread'[u] = thread[u]
      BY <2>1 DEF TypeOK
    <3>2. QED
      BY <2>0, <2>1, <3>1, QuietSlots DEF WithBlock
  <2>2. CASE /\ RemoveSlot(thread[t].srv, thread[t].conn)
             /\ thread' = [thread EXCEPT ![t] = [at |-> "close", srv |-> None, conn |-> None]]
    <3>1. \A c \in Conns : InServer(c)' => InServer(c)
      BY <2>0, <2>2 DEF InServer, RemoveSlot, TypeOK
    <3>2. QED
      BY <2>0, <2>2, <3>1, GivesUpSlots
  <2>3. QED
    BY <1>10, <2>1, <2>2 DEF Woken
<1>11. ASSUME NEW t \in Threads, Answer(t) PROVE SlotInv'
  <2> DEFINE c == thread[t].conn
  <2>0. thread[t].at = "answer" /\ UNCHANGED <<mServer, mServerConn, mClients>> /\ c \in Conns
    BY <1>11 DEF Answer, TypeOK, ThreadHolds, InAccept
  <2>1. \A d : InServer(d)' <=> InServer(d)
    BY <2>0 DEF InServer
  <2>2. CASE /\ closer' = [closer EXCEPT ![c] = "none"]
             /\ thread' = [thread EXCEPT ![t] = [at |-> "loop", srv |-> None, conn |-> None]]
    <3>1. /\ thread'[t] = [at |-> "loop", srv |-> None, conn |-> None]
          /\ \A u \in Threads \ {t} : thread'[u] = thread[u]
      BY <2>2 DEF TypeOK
    <3>2. closer'[c] = "none" /\ \A d \in Conns : d # c => closer'[d] = closer[d]
      BY <2>0, <2>2 DEF TypeOK
    <3>3. ASSUME NEW d \in Conns, InServer(d) PROVE HasOwner(d)'
      <4>1. HasOwner(d) /\ mServer' = mServer /\ mServer # NoServer /\ mServer.jni \in Threads
        BY <2>0, <3>3 DEF SlotInv, InServer, NoServer, TypeOK
      <4>2. thread[mServer.jni].at \in {"close", "closing"} => mServer.jni # t
        BY <2>0
      <4>3. QED
        BY <3>1, <3>2, <4>1, <4>2 DEF HasOwner
    <3>4. QED
      BY <2>0, <2>1, <3>1, <3>3 DEF SlotInv
  <2>3. CASE thread' = [thread EXCEPT ![t] = [at |-> "close", srv |-> None, conn |-> None]]
    BY <2>0, <2>1, <2>3, GivesUpSlots
  <2>4. QED
    BY <1>11, <2>2, <2>3 DEF Answer
<1>12. QED
  BY <1>1, <1>2, <1>3, <1>4, <1>5, <1>6, <1>7, <1>8, <1>9, <1>10, <1>11 DEF ServerThread

LEMMA SocketSlots ==
    ASSUME TypeOK, SlotInv, NEW c \in Conns,
           \/ ClientConnect(c) \/ UseSocket(c) \/ CloseConn(c)
           \/ RegClientEvt(c) \/ RefusedEvt(c) \/ \E h \in Handles : ConnectedEvt(c, h)
    PROVE  SlotInv'
<1>1. CASE CloseRemove(c)
  <2>1. thread' = thread /\ mServer' = mServer /\ mClients' \subseteq mClients
    BY <1>1 DEF CloseRemove
  <2>2. \A d \in Conns : d # c => closer'[d] = closer[d]
    BY <1>1 DEF CloseRemove, TypeOK
  <2>3. \A d \in Conns : InServer(d)' => InServer(d) /\ d # c
    <3>1. CASE UNCHANGED mServerConn /\ (c \in mClients \/ mServer.obj = None)
      BY <2>1, <3>1 DEF SlotInv, InServer
    <3>2. CASE mServer.obj # None /\ RemoveSlot(mServer.obj, c)
      BY <2>1, <3>2 DEF RemoveSlot, InServer, TypeOK
    <3>3. QED
      BY <1>1, <3>1, <3>2 DEF CloseRemove
  <2>4. mClients \subseteq Conns
    BY DEF TypeOK
  <2>5. QED
    BY <2>1, <2>2, <2>3, <2>4 DEF SlotInv, HasOwner
<1>2. CASE CreateClient(c)
  <2>1. ~InServer(c)
    BY <1>2 DEF CreateClient, Unused, Alive, InServer, TypeOK
  <2>2. UNCHANGED <<mServer, mServerConn, thread, closer>> /\ mClients' = mClients \cup {c}
    BY <1>2 DEF CreateClient, serverVars
  <2>3. QED
    BY <2>1, <2>2, QuietSlots
<1>3. CASE \/ Connect(c) \/ Connected(c) \/ UseSocket(c) \/ RegClientEvt(c) \/ RefusedEvt(c)
           \/ \E h \in Handles : ConnectedEvt(c, h)
           \/ CloseBegin(c) \/ CloseCong(c) \/ CloseRead(c) \/ CloseDisc(c)
  <2>1. UNCHANGED <<mServer, mServerConn, thread>> /\ mClients' \subseteq mClients
    BY <1>3 DEF Connect, Connected, DropClient, UseSocket, Receive, ReceiveWait, Send, Quit,
       RegClientEvt, RefusedEvt, ConnectedEvt, CloseBegin, CloseCong, CloseRead, CloseDisc,
       userFrame, closerFrame, serverVars
  <2>2. \A d \in Conns : InServer(d) /\ closer[d] # "closed" => closer'[d] # "closed"
    BY <1>3 DEF Connect, Connected, UseSocket, Receive, ReceiveWait, Send, Quit,
       RegClientEvt, RefusedEvt, ConnectedEvt, CloseBegin, CloseCong, CloseRead, CloseDisc,
       userFrame, closerFrame, serverVars, InTable, TypeOK
  <2>3. QED
    BY <2>1, <2>2, QuietSlots
<1>4. QED
  BY <1>1, <1>2, <1>3 DEF ClientConnect, CloseConn

LEMMA StackSlots ==
    ASSUME TypeOK, SlotInv,
           \/ Callback
           \/ \E h \in Handles : \/ LoseLink(h) \/ DataArrives(h) \/ CongestionChanges(h)
                                 \/ PeerConnects(h)
    PROVE  SlotInv'
<1> USE DEF cbFrame, tableFrame, serverVars
<1>1. CASE ConnReqGive
  <2>1. \A t \in Threads : thread'[t].conn = thread[t].conn /\
            (thread'[t].at = thread[t].at \/ (thread[t].at = "wait" /\ thread'[t].at = "woken"))
    BY <1>1 DEF ConnReqGive, NotifyAccept, Accepting, TypeOK, ThreadType
  <2>2. UNCHANGED <<mServer, mServerConn, mClients, closer>>
    BY <1>1 DEF ConnReqGive
  <2>3. QED
    BY <2>1, <2>2, QuietSlots DEF WithBlock
<1>2. CASE DiscMark
  <2>1. UNCHANGED <<mServer, mServerConn, mClients, thread>>
    BY <1>2 DEF DiscMark
  <2>2. \A d \in Conns : closer[d] # "closed" => closer'[d] # "closed"
    BY <1>2 DEF DiscMark, TypeOK
  <2>3. QED
    BY <2>1, <2>2, QuietSlots
<1>3. CASE DataEvt \/ CongestEvt \/ DiscFind \/ DiscCong \/ DiscRead \/ ConnReqFind
  BY <1>3, QuietSlots DEF DataEvt, CongestEvt, DiscFind, DiscCong, DiscRead, ConnReqFind
<1>4. ASSUME NEW h \in Handles,
             LoseLink(h) \/ DataArrives(h) \/ CongestionChanges(h) \/ PeerConnects(h)
      PROVE  SlotInv'
  BY <1>4, QuietSlots DEF LoseLink, DataArrives, CongestionChanges, PeerConnects
<1>5. QED
  BY <1>1, <1>2, <1>3, <1>4 DEF Callback

(* As long as a ServerThread ends before the next begins, no slot of the     *)
(* registered server is lost: a thread in accept or a connection that will   *)
(* be closed has it, or the server is about to be closed.  (With two threads *)
(* the server of a failed accept can be taken over, leaked slot and all.)    *)
THEOREM SlotsCorrect == Spec /\ []OneServerThread => []SlotsOwned
<1>1. TypeOK /\ OwnerInv /\ OneServerThread /\ SlotInv /\ [Next]_vars => SlotInv'
  <2> SUFFICES ASSUME TypeOK, OwnerInv, OneServerThread, SlotInv, [Next]_vars PROVE SlotInv'
    OBVIOUS
  <2>1. CASE UNCHANGED vars
    BY <2>1, QuietSlots DEF vars, serverVars
  <2>2. QED
    BY <2>1, ServerSlots, SocketSlots, StackSlots DEF Next
<1>2. SlotInv => SlotsOwned
  BY DEF SlotInv, SlotsOwned, HasOwner
<1>3. QED
  BY <1>1, <1>2, InitSlotInv, TypeCorrect, InitOwnerInv, NextOwnerInv, PTL DEF Spec
=============================================================================
