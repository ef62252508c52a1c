------------------------------ MODULE PeerToPeer ------------------------------
(***************************************************************************)
(* The peer-to-peer layer under the Java sockets: nci/jni/PeerToPeer.cpp,  *)
(* with the Java threads that call it (SnepServer's ServerThread and       *)
(* ConnectionThread, SnepClient's users) and the callbacks of the vendor's *)
(* NFC task, which answer it.                                              *)
(*                                                                         *)
(* Every connection is an NfaConn block, known to Java by a JNI handle and *)
(* to the stack by mNfaConnHandle.  A native call that must wait sleeps on *)
(* a SyncEvent (a mutex and a condition variable) and a callback wakes it: *)
(* a notification that finds nobody asleep is lost.  A guarded "call the   *)
(* stack, then wait" is one step, because the callback needs the guard to  *)
(* notify; a call that looks first and takes the guard later is two.       *)
(* Spurious wake-ups of pthread_cond_wait are left out.                    *)
(*                                                                         *)
(* JNI handles are numbers that are never reused (getNewJniHandle); here a *)
(* block is its own JNI handle, and a block nobody refers to any more is   *)
(* taken again.  One service name is modelled, so mServers has one entry.  *)
(***************************************************************************)
EXTENDS Integers, FiniteSets

CONSTANTS
    Conns,          \* NfaConn blocks
    Handles,        \* tNFA_HANDLEs of data links
    Servers,        \* P2pServer objects
    Threads,        \* ServerThreads of the service
    NumSlots,       \* MAX_NFA_CONNS_PER_SERVER, 5 in the code
    MaxClients,     \* sMax, 10 in the code
    None            \* NFA_HANDLE_INVALID, NULL

ASSUME PeerToPeerAssumption ==
    /\ NumSlots \in Nat \ {0}
    /\ MaxClients \in Nat
    /\ None \notin Conns \cup Handles \cup Servers \cup Threads

VARIABLES
    mServer,        \* the entry of mServers: its object and its JNI handle
    mServerConn,    \* the connection slots of each P2pServer object
    mClients,       \* the NfaConn blocks of the clients in mClients
    mNfaConnHandle, \* the stack's handle of each block
    user,           \* where the thread that uses a socket stands
    closer,         \* where the thread that closes a socket stands
    thread,         \* where a ServerThread stands, its server and its block
    mServerThread,  \* the ServerThread that runs, None once stopped
    mServerSocket,  \* the ServerThreads that hold a server socket
    closing,        \* the server socket being closed under SnepServer's lock
    link,           \* the stack: what each data link handle stands for
    data,           \* the stack: links with unread data
    congested,      \* the stack: links that take no more data
    discAsked,      \* the stack: links NFA_P2pDisconnect was called for
    cb              \* the callback the NFC task is in

serverVars == <<mServer, mServerConn, thread, mServerThread, mServerSocket, closing>>
stackVars == <<link, data, congested, discAsked>>
vars == <<serverVars, mClients, mNfaConnHandle, user, closer, stackVars, cb>>

-----------------------------------------------------------------------------
(* States of the threads and of the stack *)

Slots == 1..NumSlots

NoServer == [obj |-> None, jni |-> None]

UserStates ==
    {"done",                        \* no thread uses the socket
     "regWait",                     \* createClient, asleep
     "registered",                  \* createClient returned
     "connWait", "connWoken",       \* createDataLinkConn, asleep, woken
     "idle",                        \* holds a connected socket, in Java code
     "readGap",                     \* receive, found no data, not asleep yet
     "readWait", "readWoken",       \* receive, asleep, woken
     "sendWait", "sendWoken"}       \* send, asleep, woken

Connecting == {"regWait", "registered", "connWait", "connWoken"}

(* Stages of disconnectConnOriented *)
CloserStates == {"none", "cong", "read", "disc", "discWait", "remove", "closed"}

(* Stages of ServerThread.run and, inside it, of P2pServer::accept *)
ThreadStates ==
    {"ended", "create", "loop", "accept", "allocate", "block", "wait", "woken",
     "answer", "close", "closing", "check"}

InAccept == {"allocate", "block", "wait", "woken", "answer"}

Idle == [ev |-> "none", h |-> None, srv |-> None, conn |-> None]

(* A callback, named by its event and its stage *)
Events == {"none", "data", "congested", "uncongested", "discFind", "discMark",
           "discCong", "discRead", "requestFind", "requestGive"}
Found == {"discMark", "discCong", "discRead", "requestGive"}

(***************************************************************************)
(* findConnection searches the clients and the slots of the registered     *)
(* servers; a server that left mServers takes its connections with it.     *)
(***************************************************************************)
InServer(c) == /\ mServer.obj # None
               /\ \E i \in Slots : mServerConn[mServer.obj][i] = c

InTable(c) == c \in mClients \/ InServer(c)

(* Mutant: the servers' connections are not searched *)
FindClientOnly(h) == {c \in mClients : mNfaConnHandle[c] = h}

FindConnection(h) == {c \in Conns : InTable(c) /\ mNfaConnHandle[c] = h}

(* The stack's view of a handle a block holds *)
LinkIs(h, states) == h # None /\ link[h] \in states

(* findServerConnection(NFA_HANDLE_INVALID): the first slot whose block has
   no handle *)
Waiting(s, i) == /\ mServerConn[s][i] # None
                 /\ mNfaConnHandle[mServerConn[s][i]] = None

FirstWaiting(s, i) == Waiting(s, i) /\ \A j \in Slots : j < i => ~Waiting(s, j)

(* A P2pServer somebody holds a reference to *)
Alive(s) == \/ mServer.obj = s \/ closing.srv = s \/ cb.srv = s
            \/ \E t \in Threads : thread[t].srv = s

(* A block nobody refers to: neither a table nor a thread nor a callback *)
Unused(c) == /\ user[c] = "done" /\ closer[c] = "closed"
             /\ c \notin mClients
             /\ cb.conn # c
             /\ \A t \in Threads : thread[t].conn # c
             /\ \A s \in Servers : Alive(s) => \A i \in Slots : mServerConn[s][i] # c

(* notifyOne on mCongEvent and on mReadEvent *)
NotifyCong(c) ==
    user' = IF user[c] = "sendWait" THEN [user EXCEPT ![c] = "sendWoken"] ELSE user
NotifyRead(c) ==
    user' = IF user[c] = "readWait" THEN [user EXCEPT ![c] = "readWoken"] ELSE user

(* notifyOne on mConnRequestEvent of server s *)
Accepting(s) == {t \in Threads : thread[t].at = "wait" /\ thread[t].srv = s}
NotifyAccept(s) ==
    \/ Accepting(s) = {} /\ UNCHANGED thread
    \/ \E t \in Accepting(s) : thread' = [thread EXCEPT ![t].at = "woken"]

(* A DISC callback holds mDisconnectMutex while it notifies *)
DisconnectMutexFree == cb.ev \notin {"discCong", "discRead"}

Init ==
    /\ mServer = NoServer
    /\ mServerConn = [s \in Servers |-> [i \in Slots |-> None]]
    /\ mClients = {}
    /\ mNfaConnHandle = [c \in Conns |-> None]
    /\ user = [c \in Conns |-> "done"]
    /\ closer = [c \in Conns |-> "closed"]
    /\ thread = [t \in Threads |-> [at |-> "ended", srv |-> None, conn |-> None]]
    /\ mServerThread = None
    /\ mServerSocket = {}
    /\ closing = [of |-> None, srv |-> None, at |-> "none"]
    /\ link = [h \in Handles |-> "free"]
    /\ data = {} /\ congested = {} /\ discAsked = {}
    /\ cb = Idle

-----------------------------------------------------------------------------
(* The Java server thread and the server socket.  SnepServer's lock is held
   while a server socket is created or closed. *)

JavaLockFree == closing.at = "none"

(* SnepServer.start: the thread begins by reading mThreadRunning *)
Start(t) ==
    /\ JavaLockFree /\ mServerThread = None /\ thread[t].at = "ended"
    /\ mServerThread' = t
    /\ thread' = [thread EXCEPT ![t].at = "check"]
    /\ UNCHANGED <<mServer, mServerConn, mServerSocket, closing, mClients,
                   mNfaConnHandle, user, closer, stackVars, cb>>

(* LlcpServerSocket.close of thread t's socket, up to the search of its
   server in deregisterServer: an unknown server ends the call *)
CloseSocket(t) ==
    IF mServer.jni = t
    THEN /\ closing' = [of |-> t, srv |-> mServer.obj, at |-> "notify"]
         /\ UNCHANGED mServerSocket
    ELSE mServerSocket' = mServerSocket \ {t} /\ UNCHANGED closing

(* SnepServer.stop and ServerThread.shutdown *)
Stop(t) ==
    /\ JavaLockFree /\ mServerThread = t
    /\ mServerThread' = None
    /\ IF t \in mServerSocket THEN CloseSocket(t) ELSE UNCHANGED <<closing, mServerSocket>>
    /\ UNCHANGED <<mServer, mServerConn, thread, mClients, mNfaConnHandle,
                   user, closer, stackVars, cb>>

(***************************************************************************)
(* registerServer: a service name that is already registered only changes  *)
(* its JNI handle; otherwise a new P2pServer is registered with the stack, *)
(* which may refuse it.                                                    *)
(***************************************************************************)
RegisterServer(t) ==
    \/ /\ mServer # NoServer
       /\ mServer' = [mServer EXCEPT !.jni = t]
       /\ UNCHANGED mServerConn
    \/ /\ mServer = NoServer
       /\ \E s \in Servers :
             /\ ~Alive(s)
             /\ mServer' = [obj |-> s, jni |-> t]
             /\ mServerConn' = [mServerConn EXCEPT ![s] = [i \in Slots |-> None]]

Create(t) ==
    /\ JavaLockFree /\ thread[t].at = "create"
    /\ \/ /\ RegisterServer(t)
          /\ mServerSocket' = mServerSocket \cup {t}
          /\ thread' = [thread EXCEPT ![t].at = "loop"]
       \/ /\ mServer = NoServer         \* LlcpException
          /\ thread' = [thread EXCEPT ![t].at = "close"]
          /\ UNCHANGED <<mServer, mServerConn, mServerSocket>>
    /\ UNCHANGED <<mServerThread, closing, mClients, mNfaConnHandle, user,
                   closer, stackVars, cb>>

(* The inner loop reads mThreadRunning under the lock *)
Loop(t) ==
    /\ JavaLockFree /\ thread[t].at = "loop"
    /\ thread' = [thread EXCEPT ![t].at = IF mServerThread = t THEN "accept" ELSE "close"]
    /\ UNCHANGED <<mServer, mServerConn, mServerThread, mServerSocket, closing,
                   mClients, mNfaConnHandle, user, closer, stackVars, cb>>

(* PeerToPeer::accept looks for the server of the socket *)
Accept(t) ==
    /\ thread[t].at = "accept"
    /\ thread' = [thread EXCEPT ![t] =
          IF mServer.jni = t THEN [at |-> "allocate", srv |-> mServer.obj, conn |-> None]
                             ELSE [at |-> "close", srv |-> None, conn |-> None]]
    /\ UNCHANGED <<mServer, mServerConn, mServerThread, mServerSocket, closing,
                   mClients, mNfaConnHandle, user, closer, stackVars, cb>>

(* allocateConnection: a new block in the first free slot *)
Free(s, i) == mServerConn[s][i] = None /\ \A j \in Slots : j < i => mServerConn[s][j] # None

Allocate(t) ==
    LET s == thread[t].srv IN
    /\ thread[t].at = "allocate"
    /\ \/ \E c \in Conns, i \in Slots :
             /\ Unused(c) /\ Free(s, i)
             /\ mServerConn' = [mServerConn EXCEPT ![s][i] = c]
             /\ mNfaConnHandle' = [mNfaConnHandle EXCEPT ![c] = None]
             /\ thread' = [thread EXCEPT ![t] = [at |-> "block", srv |-> s, conn |-> c]]
       \/ /\ \A i \in Slots : mServerConn[s][i] # None
          /\ thread' = [thread EXCEPT ![t] = [at |-> "close", srv |-> None, conn |-> None]]
          /\ UNCHANGED <<mServerConn, mNfaConnHandle>>
    /\ UNCHANGED <<mServer, mServerThread, mServerSocket, closing, mClients,
                   user, closer, stackVars, cb>>

(* mConnRequestEvent.wait() *)
Block(t) ==
    /\ thread[t].at = "block"
    /\ thread' = [thread EXCEPT ![t].at = "wait"]
    /\ UNCHANGED <<mServer, mServerConn, mServerThread, mServerSocket, closing,
                   mClients, mNfaConnHandle, user, closer, stackVars, cb>>

(* removeServerConnection *)
RemoveSlot(s, c) ==
    mServerConn' = [mServerConn EXCEPT ![s] =
        [i \in Slots |-> IF mServerConn[s][i] = c THEN None ELSE mServerConn[s][i]]]

(* Mutant: accept goes on after it gave its block back *)
WokenGoesOn(t) ==
    /\ thread[t].at = "woken"
    /\ \/ /\ mNfaConnHandle[thread[t].conn] # None
          /\ thread' = [thread EXCEPT ![t].at = "answer"]
          /\ UNCHANGED mServerConn
       \/ /\ mNfaConnHandle[thread[t].conn] = None
          /\ RemoveSlot(thread[t].srv, thread[t].conn)
          /\ thread' = [thread EXCEPT ![t] = [at |-> "answer", srv |-> None, conn |-> None]]
    /\ UNCHANGED <<mServer, mServerThread, mServerSocket, closing, mClients,
                   mNfaConnHandle, user, closer, stackVars, cb>>

(* accept was woken: without a handle it gives its block back *)
Woken(t) ==
    /\ thread[t].at = "woken"
    /\ \/ /\ mNfaConnHandle[thread[t].conn] # None
          /\ thread' = [thread EXCEPT ![t].at = "answer"]
          /\ UNCHANGED mServerConn
       \/ /\ mNfaConnHandle[thread[t].conn] = None
          /\ RemoveSlot(thread[t].srv, thread[t].conn)
          /\ thread' = [thread EXCEPT ![t] = [at |-> "close", srv |-> None, conn |-> None]]
    /\ UNCHANGED <<mServer, mServerThread, mServerSocket, closing, mClients,
                   mNfaConnHandle, user, closer, stackVars, cb>>

(* NFA_P2pAcceptConn, which fails once the link is gone; a ConnectionThread
   starts on the new socket *)
Answer(t) ==
    LET c == thread[t].conn
        h == mNfaConnHandle[c] IN
    /\ thread[t].at = "answer"
    /\ \/ /\ LinkIs(h, {"asked"})
          /\ link' = [link EXCEPT ![h] = "open"]
          /\ user' = [user EXCEPT ![c] = "idle"]
          /\ closer' = [closer EXCEPT ![c] = "none"]
          /\ thread' = [thread EXCEPT ![t] = [at |-> "loop", srv |-> None, conn |-> None]]
       \/ /\ ~LinkIs(h, {"asked"})
          /\ thread' = [thread EXCEPT ![t] = [at |-> "close", srv |-> None, conn |-> None]]
          /\ UNCHANGED <<link, user, closer>>
    /\ UNCHANGED <<mServer, mServerConn, mServerThread, mServerSocket, closing,
                   mClients, mNfaConnHandle, data, congested, discAsked, cb>>

(* Mutant: no finally block, a thread that gives up leaves its socket *)
CloseThreadForgets(t) ==
    /\ JavaLockFree /\ thread[t].at = "close"
    /\ thread' = [thread EXCEPT ![t].at = "check"]
    /\ UNCHANGED <<mServer, mServerConn, mServerThread, mServerSocket, closing,
                   mClients, mNfaConnHandle, user, closer, stackVars, cb>>

(* The finally block: a socket that shutdown has not closed is closed *)
CloseThread(t) ==
    /\ JavaLockFree /\ thread[t].at = "close"
    /\ IF t \in mServerSocket THEN CloseSocket(t) ELSE UNCHANGED <<closing, mServerSocket>>
    /\ thread' = [thread EXCEPT ![t].at =
                     IF t \in mServerSocket /\ mServer.jni = t THEN "closing" ELSE "check"]
    /\ UNCHANGED <<mServer, mServerConn, mServerThread, mClients, mNfaConnHandle,
                   user, closer, stackVars, cb>>

(* The outer loop reads mThreadRunning under the lock *)
Check(t) ==
    /\ JavaLockFree /\ thread[t].at = "check"
    /\ thread' = [thread EXCEPT ![t].at = IF mServerThread = t THEN "create" ELSE "ended"]
    /\ UNCHANGED <<mServer, mServerConn, mServerThread, mServerSocket, closing,
                   mClients, mNfaConnHandle, user, closer, stackVars, cb>>

(* deregisterServer: "unblock the accept()" *)
DeregisterNotify ==
    /\ closing.at = "notify"
    /\ NotifyAccept(closing.srv)
    /\ closing' = [closing EXCEPT !.at = "remove"]
    /\ UNCHANGED <<mServer, mServerConn, mServerThread, mServerSocket, mClients,
                   mNfaConnHandle, user, closer, stackVars, cb>>

(* deregisterServer: NFA_P2pDeregister and removeServer, and the end of the
   Java close *)
DeregisterRemove ==
    LET t == closing.of IN
    /\ closing.at = "remove"
    /\ mServer' = NoServer
    /\ mServerSocket' = mServerSocket \ {t}
    /\ thread' = IF thread[t].at = "closing" THEN [thread EXCEPT ![t].at = "check"] ELSE thread
    /\ closing' = [of |-> None, srv |-> None, at |-> "none"]
    /\ UNCHANGED <<mServerConn, mServerThread, mClients, mNfaConnHandle, user,
                   closer, stackVars, cb>>

-----------------------------------------------------------------------------
(* Client sockets.  One task creates and connects them, one at a time. *)

(* createClient, up to its wait for NFA_P2P_REG_CLIENT_EVT; with every slot
   taken it fails and changes nothing *)
CreateClient(c) ==
    /\ Unused(c)
    /\ \A d \in Conns : user[d] \notin Connecting
    /\ Cardinality(mClients) < MaxClients
    /\ mClients' = mClients \cup {c}
    /\ mNfaConnHandle' = [mNfaConnHandle EXCEPT ![c] = None]
    /\ user' = [user EXCEPT ![c] = "regWait"]
    /\ UNCHANGED <<serverVars, closer, stackVars, cb>>

(* The client is out of the table, its thread done with it *)
DropClient(c) ==
    /\ mClients' = mClients \ {c}
    /\ user' = [user EXCEPT ![c] = "done"]

(* NFA_P2P_REG_CLIENT_EVT wakes createClient, which removes a client that
   got no handle *)
RegClientEvt(c) ==
    /\ cb = Idle /\ user[c] = "regWait"
    /\ \/ user' = [user EXCEPT ![c] = "registered"] /\ UNCHANGED mClients
       \/ DropClient(c)
    /\ UNCHANGED <<serverVars, mNfaConnHandle, closer, stackVars, cb>>

(* createDataLinkConn: NFA_P2pConnectByName fails, or the thread waits *)
Connect(c) ==
    /\ user[c] = "registered"
    /\ \/ user' = [user EXCEPT ![c] = "connWait"] /\ UNCHANGED mClients
       \/ DropClient(c)
    /\ UNCHANGED <<serverVars, mNfaConnHandle, closer, stackVars, cb>>

(* NFA_P2P_CONNECTED_EVT *)
ConnectedEvt(c, h) ==
    /\ cb = Idle /\ user[c] = "connWait" /\ link[h] = "free"
    /\ link' = [link EXCEPT ![h] = "open"]
    /\ mNfaConnHandle' = [mNfaConnHandle EXCEPT ![c] = h]
    /\ user' = [user EXCEPT ![c] = "connWoken"]
    /\ UNCHANGED <<serverVars, mClients, closer, data, congested, discAsked, cb>>

(* NFA_P2P_DISC_EVT for a client that is still connecting *)
RefusedEvt(c) ==
    /\ cb = Idle /\ user[c] = "connWait"
    /\ user' = [user EXCEPT ![c] = "connWoken"]
    /\ UNCHANGED <<serverVars, mClients, mNfaConnHandle, closer, stackVars, cb>>

(* createDataLinkConn was woken: without a handle it removes the client *)
Connected(c) ==
    /\ user[c] = "connWoken"
    /\ \/ /\ mNfaConnHandle[c] # None
          /\ user' = [user EXCEPT ![c] = "idle"]
          /\ closer' = [closer EXCEPT ![c] = "none"]
          /\ UNCHANGED mClients
       \/ mNfaConnHandle[c] = None /\ DropClient(c) /\ UNCHANGED closer
    /\ UNCHANGED <<serverVars, mNfaConnHandle, stackVars, cb>>

-----------------------------------------------------------------------------
(* A thread that uses a connected socket: send and receive *)

userFrame == <<serverVars, mClients, mNfaConnHandle, closer, link, congested,
               discAsked, cb>>

(* A call looks its block up once, when it starts *)
Reached(c) == user[c] = "idle" => InTable(c)

(***************************************************************************)
(* receive: the loop tests the handle and reads what the stack holds.      *)
(* Only then, with nothing read, does it take the guard of mReadEvent.     *)
(***************************************************************************)
Receive(c) ==
    LET h == mNfaConnHandle[c] IN
    /\ user[c] \in {"idle", "readWoken"}
    /\ \/ /\ ~Reached(c) \/ h = None
          /\ user' = [user EXCEPT ![c] = "done"]
          /\ UNCHANGED data
       \/ /\ Reached(c) /\ h \in data
          /\ user' = [user EXCEPT ![c] = "idle"]
          /\ data' = data \ {h}
       \/ /\ Reached(c) /\ h # None /\ h \notin data
          /\ user' = [user EXCEPT ![c] = "readGap"]
          /\ UNCHANGED data
    /\ UNCHANGED userFrame

(* mReadEvent.wait() *)
ReceiveWait(c) ==
    /\ user[c] = "readGap"
    /\ user' = [user EXCEPT ![c] = "readWait"]
    /\ UNCHANGED <<userFrame, data>>

(* send: NFA_P2pSendData and the wait for NFA_P2P_CONGEST_EVT under one
   guard; a handle that was lost meanwhile ends the call *)
Send(c) ==
    LET h == mNfaConnHandle[c] IN
    /\ user[c] \in {"idle", "sendWoken"}
    /\ \/ /\ ~Reached(c) \/ ~LinkIs(h, {"open"})
          /\ user' = [user EXCEPT ![c] = "done"]
       \/ /\ Reached(c) /\ LinkIs(h, {"open"})
          /\ user' = [user EXCEPT ![c] = IF h \in congested THEN "sendWait" ELSE "idle"]
    /\ UNCHANGED <<userFrame, data>>

(* The thread has no more use for the socket *)
Quit(c) ==
    /\ user[c] = "idle"
    /\ user' = [user EXCEPT ![c] = "done"]
    /\ UNCHANGED <<userFrame, data>>

-----------------------------------------------------------------------------
(* disconnectConnOriented.  A ConnectionThread closes its own socket when it
   is done; a client may be closed by the UI thread at any time once it is
   connected. *)

closerFrame == <<serverVars, mNfaConnHandle, link, data, congested, cb>>

CloseBegin(c) ==
    /\ closer[c] = "none"
    /\ user[c] = "done" \/ c \in mClients
    /\ closer' = [closer EXCEPT ![c] = IF InTable(c) THEN "cong" ELSE "closed"]
    /\ UNCHANGED <<closerFrame, mClients, user, discAsked>>

(* "unblock send() if congested" *)
CloseCong(c) ==
    /\ closer[c] = "cong"
    /\ NotifyCong(c)
    /\ closer' = [closer EXCEPT ![c] = "read"]
    /\ UNCHANGED <<closerFrame, mClients, discAsked>>

(* "unblock receive()" *)
CloseRead(c) ==
    /\ closer[c] = "read"
    /\ NotifyRead(c)
    /\ closer' = [closer EXCEPT ![c] = "disc"]
    /\ UNCHANGED <<closerFrame, mClients, discAsked>>

(* Mutant: the thread waits although NFA_P2pDisconnect failed *)
CloseDiscAlwaysWaits(c) ==
    /\ closer[c] = "disc"
    /\ discAsked' = IF LinkIs(mNfaConnHandle[c], {"asked", "open"})
                    THEN discAsked \cup {mNfaConnHandle[c]} ELSE discAsked
    /\ closer' = [closer EXCEPT ![c] = "discWait"]
    /\ UNCHANGED <<closerFrame, mClients, user>>

(* NFA_P2pDisconnect, which fails once the link is gone, and the wait for
   NFA_P2P_DISC_EVT under one guard *)
CloseDisc(c) ==
    LET h == mNfaConnHandle[c] IN
    /\ closer[c] = "disc"
    /\ \/ /\ LinkIs(h, {"asked", "open"})
          /\ discAsked' = discAsked \cup {h}
          /\ closer' = [closer EXCEPT ![c] = "discWait"]
       \/ /\ ~LinkIs(h, {"asked", "open"})
          /\ closer' = [closer EXCEPT ![c] = "remove"]
          /\ UNCHANGED discAsked
    /\ UNCHANGED <<closerFrame, mClients, user>>

(* Mutant: only the clients' table is searched *)
CloseRemoveClientOnly(c) ==
    /\ closer[c] = "remove" /\ DisconnectMutexFree
    /\ closer' = [closer EXCEPT ![c] = "closed"]
    /\ mClients' = mClients \ {c}
    /\ UNCHANGED <<serverVars, mNfaConnHandle, user, stackVars, cb>>

(* removeConn under mDisconnectMutex: the client, or the slot of a server
   that is still registered *)
CloseRemove(c) ==
    /\ closer[c] = "remove" /\ DisconnectMutexFree
    /\ closer' = [closer EXCEPT ![c] = "closed"]
    /\ \/ /\ c \in mClients
          /\ mClients' = mClients \ {c}
          /\ UNCHANGED mServerConn
       \/ /\ c \notin mClients /\ mServer.obj # None
          /\ RemoveSlot(mServer.obj, c)
          /\ UNCHANGED mClients
       \/ /\ c \notin mClients /\ mServer.obj = None
          /\ UNCHANGED <<mClients, mServerConn>>
    /\ UNCHANGED <<mServer, thread, mServerThread, mServerSocket, closing,
                   mNfaConnHandle, user, stackVars, cb>>

-----------------------------------------------------------------------------
(* The NFC task: what happens in the stack, and the callback it then makes.
   It makes one callback at a time. *)

tableFrame == <<serverVars, mClients, closer>>

(* The link ends, because the peer left or because NFA_P2pDisconnect asked *)
LoseLink(h) ==
    /\ cb = Idle /\ link[h] # "free"
    /\ link' = [link EXCEPT ![h] = "free"]
    /\ data' = data \ {h}
    /\ congested' = congested \ {h}
    /\ discAsked' = discAsked \ {h}
    /\ cb' = [Idle EXCEPT !.ev = "discFind", !.h = h]
    /\ UNCHANGED <<tableFrame, mNfaConnHandle, user>>

DataArrives(h) ==
    /\ cb = Idle /\ link[h] = "open" /\ h \notin data
    /\ data' = data \cup {h}
    /\ cb' = [Idle EXCEPT !.ev = "data", !.h = h]
    /\ UNCHANGED <<tableFrame, mNfaConnHandle, user, link, congested, discAsked>>

CongestionChanges(h) ==
    /\ cb = Idle /\ link[h] = "open"
    /\ \/ /\ h \notin congested
          /\ congested' = congested \cup {h}
          /\ cb' = [Idle EXCEPT !.ev = "congested", !.h = h]
       \/ /\ h \in congested
          /\ congested' = congested \ {h}
          /\ cb' = [Idle EXCEPT !.ev = "uncongested", !.h = h]
    /\ UNCHANGED <<tableFrame, mNfaConnHandle, user, link, data, discAsked>>

(* The peer connects to the registered service *)
PeerConnects(h) ==
    /\ cb = Idle /\ link[h] = "free" /\ mServer.obj # None
    /\ link' = [link EXCEPT ![h] = "asked"]
    /\ cb' = [Idle EXCEPT !.ev = "requestFind", !.h = h, !.srv = mServer.obj]
    /\ UNCHANGED <<tableFrame, mNfaConnHandle, user, data, congested, discAsked>>

cbFrame == <<tableFrame, stackVars>>

(* NFA_P2P_DATA_EVT *)
DataEvt ==
    /\ cb.ev = "data"
    /\ \/ \E c \in FindConnection(cb.h) : NotifyRead(c)
       \/ FindConnection(cb.h) = {} /\ UNCHANGED user
    /\ cb' = Idle
    /\ UNCHANGED <<cbFrame, mNfaConnHandle>>

(* NFA_P2P_CONGEST_EVT: the server callback looks at is_congested, the
   client callback does not *)
CongestEvt ==
    /\ cb.ev \in {"congested", "uncongested"}
    /\ \/ \E c \in FindConnection(cb.h) :
             IF cb.ev = "uncongested" \/ c \in mClients THEN NotifyCong(c) ELSE UNCHANGED user
       \/ FindConnection(cb.h) = {} /\ UNCHANGED user
    /\ cb' = Idle
    /\ UNCHANGED <<cbFrame, mNfaConnHandle>>

(* NFA_P2P_DISC_EVT: the search *)
DiscFind ==
    /\ cb.ev = "discFind"
    /\ \/ \E c \in FindConnection(cb.h) :
             cb' = [cb EXCEPT !.ev = "discMark", !.conn = c]
       \/ FindConnection(cb.h) = {} /\ cb' = Idle
    /\ UNCHANGED <<cbFrame, mNfaConnHandle, user>>

(* Mutants: the handle is kept; nobody waiting for the disconnect is told *)
DiscMarkKeepsHandle ==
    LET c == cb.conn IN
    /\ cb.ev = "discMark"
    /\ closer' = IF closer[c] = "discWait" THEN [closer EXCEPT ![c] = "remove"] ELSE closer
    /\ cb' = [cb EXCEPT !.ev = "discCong"]
    /\ UNCHANGED <<serverVars, mClients, mNfaConnHandle, stackVars, user>>

DiscMarkSilent ==
    /\ cb.ev = "discMark"
    /\ mNfaConnHandle' = [mNfaConnHandle EXCEPT ![cb.conn] = None]
    /\ cb' = [cb EXCEPT !.ev = "discCong"]
    /\ UNCHANGED <<cbFrame, user>>

(* It takes mDisconnectMutex, drops the handle and notifies
   mDisconnectingEvent *)
DiscMark ==
    LET c == cb.conn IN
    /\ cb.ev = "discMark"
    /\ mNfaConnHandle' = [mNfaConnHandle EXCEPT ![c] = None]
    /\ closer' = IF closer[c] = "discWait" THEN [closer EXCEPT ![c] = "remove"] ELSE closer
    /\ cb' = [cb EXCEPT !.ev = "discCong"]
    /\ UNCHANGED <<serverVars, mClients, stackVars, user>>

(* Mutant: a congested send is not told *)
DiscCongSilent ==
    /\ cb.ev = "discCong"
    /\ cb' = [cb EXCEPT !.ev = "discRead"]
    /\ UNCHANGED <<cbFrame, mNfaConnHandle, user>>

(* "unblock write (if congested)" *)
DiscCong ==
    /\ cb.ev = "discCong"
    /\ NotifyCong(cb.conn)
    /\ cb' = [cb EXCEPT !.ev = "discRead"]
    /\ UNCHANGED <<cbFrame, mNfaConnHandle>>

(* "unblock receive()", and the mutex is released *)
DiscRead ==
    /\ cb.ev = "discRead"
    /\ NotifyRead(cb.conn)
    /\ cb' = Idle
    /\ UNCHANGED <<cbFrame, mNfaConnHandle>>

(* NFA_P2P_CONN_REQ_EVT: the search for the server and for a block "that is
   waiting (handle invalid)" *)
ConnReqFind ==
    /\ cb.ev = "requestFind"
    /\ \/ /\ mServer.obj = cb.srv
          /\ \E i \in Slots :
                /\ FirstWaiting(cb.srv, i)
                /\ cb' = [cb EXCEPT !.ev = "requestGive", !.conn = mServerConn[cb.srv][i]]
       \/ /\ mServer.obj = cb.srv
          /\ \A i \in Slots : ~Waiting(cb.srv, i)
          /\ cb' = Idle
       \/ mServer.obj # cb.srv /\ cb' = Idle
    /\ UNCHANGED <<cbFrame, mNfaConnHandle, user>>

(* It gives the handle to the block it found: "unblock accept()" *)
ConnReqGive ==
    /\ cb.ev = "requestGive"
    /\ mNfaConnHandle' = [mNfaConnHandle EXCEPT ![cb.conn] = cb.h]
    /\ NotifyAccept(cb.srv)
    /\ cb' = Idle
    /\ UNCHANGED <<mServer, mServerConn, mServerThread, mServerSocket, closing,
                   mClients, closer, stackVars, user>>

-----------------------------------------------------------------------------
Callback == \/ DataEvt \/ CongestEvt \/ DiscFind \/ DiscMark \/ DiscCong
            \/ DiscRead \/ ConnReqFind \/ ConnReqGive

ServerThread(t) == \/ Create(t) \/ Loop(t) \/ Accept(t) \/ Allocate(t) \/ Block(t)
                   \/ Woken(t) \/ Answer(t) \/ CloseThread(t) \/ Check(t)

ClientConnect(c) == CreateClient(c) \/ Connect(c) \/ Connected(c)

UseSocket(c) == Receive(c) \/ ReceiveWait(c) \/ Send(c) \/ Quit(c)

CloseConn(c) == \/ CloseBegin(c) \/ CloseCong(c) \/ CloseRead(c)
                \/ CloseDisc(c) \/ CloseRemove(c)

Next ==
    \/ Callback \/ DeregisterNotify \/ DeregisterRemove
    \/ \E t \in Threads : Start(t) \/ Stop(t) \/ ServerThread(t)
    \/ \E c \in Conns : ClientConnect(c) \/ UseSocket(c) \/ CloseConn(c)
    \/ \E c \in Conns : RegClientEvt(c) \/ RefusedEvt(c)
    \/ \E c \in Conns, h \in Handles : ConnectedEvt(c, h)
    \/ \E h \in Handles : LoseLink(h) \/ DataArrives(h) \/ CongestionChanges(h)
                          \/ PeerConnects(h)


(***************************************************************************)
(* Fairness: the NFC task finishes its callback and gets to every          *)
(* disconnect it was asked for; a thread inside disconnectConnOriented     *)
(* runs on, and gets mDisconnectMutex although callbacks want it too.      *)
(***************************************************************************)
Fairness ==
    /\ WF_vars(Callback)
    /\ \A h \in Handles : SF_vars(LoseLink(h) /\ h \in discAsked)
    /\ \A c \in Conns : /\ WF_vars(CloseCong(c) \/ CloseRead(c) \/ CloseDisc(c))
                        /\ SF_vars(CloseRemove(c))

Spec == Init /\ [][Next]_vars
FairSpec == Spec /\ Fairness

-----------------------------------------------------------------------------
ThreadType == [at : ThreadStates, srv : Servers \cup {None}, conn : Conns \cup {None}]

(* Inside P2pServer::accept a thread has its server, and its block from
   allocateConnection on *)
ThreadHolds(r) ==
    /\ r.at \in InAccept => r.srv # None
    /\ r.at \in InAccept \ {"allocate"} => r.conn # None

CallbackType == [ev : Events, h : Handles \cup {None}, srv : Servers \cup {None},
                 conn : Conns \cup {None}]

(* A callback has its handle, and the connection it found *)
CallbackHolds(r) ==
    /\ r.ev # "none" => r.h # None
    /\ r.ev \in Found => r.conn # None
    /\ r.ev \in {"requestFind", "requestGive"} => r.srv # None

(* Every variable has its type, a ServerThread inside P2pServer::accept has
   its server and its block at hand, and so has a callback that found one. *)
TypeOK ==
    /\ mServer \in [obj : Servers \cup {None}, jni : Threads \cup {None}]
    /\ mServer.obj = None <=> mServer.jni = None
    /\ mServerConn \in [Servers -> [Slots -> Conns \cup {None}]]
    /\ mClients \subseteq Conns
    /\ mNfaConnHandle \in [Conns -> Handles \cup {None}]
    /\ user \in [Conns -> UserStates]
    /\ closer \in [Conns -> CloserStates]
    /\ thread \in [Threads -> ThreadType]
    /\ \A t \in Threads : ThreadHolds(thread[t])
    /\ mServerThread \in Threads \cup {None}
    /\ mServerSocket \subseteq Threads
    /\ closing \in [of : Threads \cup {None}, srv : Servers \cup {None},
                    at : {"none", "notify", "remove"}]
    /\ closing.at # "none" => closing.of # None /\ closing.srv # None
    /\ link \in [Handles -> {"free", "asked", "open"}]
    /\ data \subseteq Handles /\ congested \subseteq Handles /\ discAsked \subseteq Handles
    /\ cb \in CallbackType /\ CallbackHolds(cb)

(* The disconnect callback for handle h, or for the block c it found, is
   still to come: it has not reached the stages that follow "upTo" *)
DiscComing(c, upTo) ==
    \/ cb.ev = "discFind" /\ cb.h = mNfaConnHandle[c]
    \/ cb.ev \in upTo /\ cb.conn = c

(* No two connections findConnection can see hold the same handle, so an
   event of the stack reaches the connection it is about. *)
HandleOfOneConn ==
    \A c, d \in Conns :
        InTable(c) /\ InTable(d) /\ mNfaConnHandle[c] = mNfaConnHandle[d] =>
            c = d \/ mNfaConnHandle[c] = None

(* A connection in the tables never keeps the handle of a link that is gone
   unless the callback that takes the handle away is under way: the stack
   may give the same handle to the next link. *)
NoStaleHandle ==
    \A c \in Conns :
        InTable(c) /\ mNfaConnHandle[c] # None =>
            LinkIs(mNfaConnHandle[c], {"asked", "open"}) \/ DiscComing(c, {"discMark"})

(* Events find the connection they are about, and no other. *)
HandlesSound == HandleOfOneConn /\ NoStaleHandle

(* A thread asleep on mDisconnectingEvent (disconnectConnOriented) will be
   woken as long as its connection can be found: the stack has its request,
   or the callback is coming. *)
DisconnectWakes ==
    \A c \in Conns :
        closer[c] = "discWait" /\ InTable(c) =>
            \/ /\ LinkIs(mNfaConnHandle[c], {"asked", "open"})
               /\ mNfaConnHandle[c] \in discAsked
            \/ DiscComing(c, {"discMark"})

(* A thread asleep on mCongEvent (send) will be woken as long as its
   connection can be found: the link is up and congested, or the callback
   that ends the congestion or the link is coming. *)
SendWakes ==
    \A c \in Conns :
        user[c] = "sendWait" /\ InTable(c) =>
            \/ /\ LinkIs(mNfaConnHandle[c], {"open"})
               /\ mNfaConnHandle[c] \in congested
            \/ cb.ev = "uncongested" /\ cb.h = mNfaConnHandle[c]
            \/ DiscComing(c, {"discMark", "discCong"})

(* Nobody sleeps on a connection whose last event has gone by. *)
WaitersWoken == DisconnectWakes /\ SendWakes

(* A server registered with the stack belongs to an open Java socket of a
   ServerThread that has not ended, whatever stop() and start() did while
   the thread was on its way: nothing stays registered that no thread will
   close. *)
RegisteredHasOwner ==
    mServer # NoServer =>
        /\ mServer.jni \in mServerSocket
        /\ thread[mServer.jni].at # "ended"

(* Each of the MAX_NFA_CONNS_PER_SERVER slots of the registered server is
   held by a thread in accept or by a ConnectionThread that will close it;
   a slot a failed accept left behind goes with the server, which its
   thread is about to close.  This holds for one ServerThread at a time: one
   that start() put in place before the last one ended can take over the
   server of a failed accept, slot and all. *)
SlotsOwned ==
    \A c \in Conns :
        InServer(c) =>
            \/ \E t \in Threads : thread[t].conn = c
            \/ closer[c] # "closed"
            \/ thread[mServer.jni].at \in {"close", "closing"}
            \/ mServerThread # mServer.jni

(* A client's disconnectConnOriented returns: disconnecting never hangs on
   a link that breaks at the same moment, nor on mDisconnectMutex. *)
ClientCloseEnds ==
    \A c \in Conns : (closer[c] = "cong" /\ c \in mClients) ~> closer[c] = "closed"

(***************************************************************************)
(* What the comments of the code say and the code does not do.             *)
(***************************************************************************)

(* PeerToPeer.cpp:1264 "Look for a connection block that is waiting (handle
   invalid)": the handle of a link that asks to be accepted never goes to a
   block whose ConnectionThread still uses it. *)
RequestToWaiter ==
    \A c \in Conns :
        InTable(c) /\ LinkIs(mNfaConnHandle[c], {"asked"}) => closer[c] = "closed"

(* PeerToPeer.cpp:1311 and :1465 "unblock receive()": once the disconnect
   callback is over, no receive sleeps on the connection it took down. *)
ReceiveUnblocked ==
    \A c \in Conns :
        user[c] = "readWait" /\ InTable(c) /\ mNfaConnHandle[c] = None =>
            cb.ev \in {"discCong", "discRead"} /\ cb.conn = c

(* PeerToPeer.cpp:1276 "unblock accept()": no accept sleeps on a block that
   was given its connection. *)
AcceptUnblocked ==
    \A t \in Threads :
        thread[t].at = "wait" => mNfaConnHandle[thread[t].conn] = None
=============================================================================
