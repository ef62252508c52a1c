------------------------------- MODULE NxpLlcp -------------------------------
(***************************************************************************)
(* Peer to peer over libnfc: a peer found, the check and activation of its *)
(* LLCP link (NfcService.llcpActivated on the handler's thread), the       *)
(* sockets, and the callbacks of the link.  NxpAdapter extends this one.   *)
(***************************************************************************)
EXTENDS NxpCalls

\* libnfc with nothing initialised; link: "none", "checked", "activating",
\* "up", "lost" until its callback has run.
LibOff == [on |-> FALSE, cfg |-> FALSE, listener |-> "none", target |-> None,
           passive |-> FALSE, conn |-> FALSE, wired |-> FALSE, link |-> "none"]

\* A configuration of discovery releases the device and ends the link.
Freed(l) ==
    [l EXCEPT !.target = None, !.passive = FALSE, !.conn = FALSE,
              !.link = CASE @ \in {"up", "activating"} -> "lost"
                         [] @ = "checked" -> "none"
                         [] OTHER -> @]

Peers == roles \cap {"peer"}
Servers == roles \cap {"accept1", "accept2"}

-----------------------------------------------------------------------------
(* The peer *)

p2pConnect == Locked(<<"p2pConnect">>)
p2pDisconnect == Locked(<<"p2pDisconnect", "released">>)
p2pTransceive == Locked(<<"ask">>)
p2pReceive == Locked(<<"ask">>)
p2pSend == Locked(<<"ask">>)
doCheckLlcp == Locked(<<"check">>)
doActivateLlcp == <<"activate">>

\* A target is connected first, and disconnected when its link fails.
\* With an initiator the remote device leads, and ends the connection.
GivesUp(mode) == IF mode = "target" THEN p2pDisconnect ELSE <<"ignored">>
llcpActivated(mode) ==
    (IF mode = "target" THEN p2pConnect ELSE <<>>) \o doCheckLlcp \o doActivateLlcp

activate(t) ==
    /\ At(t, "activate")
    /\ \/ /\ lib.link = "checked"
          /\ lib' = [lib EXCEPT !.link = "activating"]
          /\ eps' = [eps EXCEPT ![t] = IF @ = "target" THEN "upTarget" ELSE "upInitiator"]
          /\ Advance(t)
       \/ Leave(t, GivesUp(eps[t])) /\ UNCHANGED <<lib, eps>>
    /\ Silent /\ UNCHANGED <<nat, svc, incoming, open, hist>>

\* What a peer's call has left when libnfc refuses or fails its request.
PeerFails(t, refused) ==
    LET l == thread[t].pc
        rest == thread[t].rest
    IN CASE l = "p2pConnect" -> <<"restart", "unlock", "ignored">>
         [] l = "p2pDisconnect" /\ refused /\ (lib.on => lib.conn) ->
              <<"restart">> \o rest
         [] l = "check" -> <<"unlock">> \o GivesUp(eps[t])
         [] OTHER -> rest

ignored(t) ==
    /\ At(t, "ignored") /\ eps' = [eps EXCEPT ![t] = "done"] /\ Advance(t)
    /\ Silent /\ UNCHANGED <<nat, lib, svc, incoming, open, hist>>

peerAnswered(m, good) ==
    /\ m.what \in {"p2pConnect", "p2pDisconnect", "check"}
    /\ lib' = CASE m.what = "p2pDisconnect" -> Freed(lib)
                [] m.what = "p2pConnect" /\ good /\ lib.target = m.to ->
                     [lib EXCEPT !.conn = TRUE]
                [] m.what = "check" /\ good /\ lib.target = m.to ->
                     [lib EXCEPT !.link = "checked"]
                [] OTHER -> lib
    /\ Post(m, good)
    /\ UNCHANGED <<nat, svc, eps, incoming, open, hist>>

PeerStarts ==
    \E t \in Peers :
        /\ \/ eps[t] \in {"target", "initiator"} /\ Begin(t, llcpActivated(eps[t]))
           \/ eps[t] = "lost" /\ Begin(t, p2pDisconnect)
           \/ /\ eps[t] \in {"upTarget", "upInitiator"}
              /\ \E plan \in {p2pSend, p2pReceive, p2pTransceive} : Begin(t, plan)
        /\ UNCHANGED adapter

-----------------------------------------------------------------------------
(* The callbacks of the link, and the remote device *)

\* Mutant: the data is freed whatever the status.
FreesAlways ==
    /\ nat.clients > 0
    /\ lib.link \in {"activating", "lost"}
    /\ lib' = [lib EXCEPT !.link = IF @ = "lost" THEN "none" ELSE "up"]
    /\ nat' = [nat EXCEPT !.flag = (lib.link = "activating"), !.data = "freed"]
    /\ incoming' = IF lib.link = "lost" THEN {} ELSE incoming
    /\ UNCHANGED <<thread, lock, msgs, svc, eps, open, hist, bounds>>

\* nfc_jni_llcp_linkStatus_callback: activated, which may fail to ask for the
\* remote parameters, or deactivated.
linkStatus ==
    /\ nat.clients > 0
    /\ \/ /\ lib.link = "activating"
          /\ lib' = [lib EXCEPT !.link = "up"]
          /\ nat' \in {nat, [nat EXCEPT !.flag = TRUE]}
          /\ UNCHANGED <<eps, incoming>>
       \/ /\ lib.link = "lost"
          /\ lib' = [lib EXCEPT !.link = "none"]
          /\ nat' = [nat EXCEPT !.flag = FALSE, !.data = "freed"]
          /\ eps' = [t \in DOMAIN eps |->
                       CASE eps[t] = "upTarget" -> "lost"
                         [] eps[t] = "upInitiator" -> "done"
                         [] OTHER -> eps[t]]
          /\ incoming' = {}
    /\ UNCHANGED <<thread, lock, msgs, svc, open, hist, bounds>>

RemoteLeaves ==
    /\ \/ lib.link \in {"activating", "up"}
       \/ lib.target # None /\ lib.passive
    /\ lib' = IF lib.passive THEN Freed(lib) ELSE [lib EXCEPT !.link = "lost"]
    /\ UNCHANGED <<thread, lock, msgs, nat, svc, eps, incoming, open, hist, bounds>>

-----------------------------------------------------------------------------
(* The sockets: no call of theirs takes the concurrency mutex *)

socketConnect == <<"llcp">>
socketConnectBy == <<"llcp">>
socketSend == <<"llcp">>
socketReceive == <<"llcp">>
sendTo == <<"llcp">>
receiveFrom == <<"llcp">>
doAccept == <<"accept", "accepting">>

Creates(s) ==
    /\ s \notin open /\ calls < MaxCalls[roles] /\ calls' = calls + 1
    /\ \/ open' = open \cup {s}
       \/ UNCHANGED open
    /\ UNCHANGED <<thread, lock, msgs, nat, lib, svc, eps, incoming, hist, roles, found>>

createServiceSocket == \E s \in Servers : Creates(s)
createLlcpSocket == "client" \in roles /\ Creates("client")
createConnectionlessSocket == "datagrams" \in roles /\ Creates("datagrams")

\* Mutant: one sleeper is signalled.
listenCallbackSignals(s) ==
    /\ s \in open /\ lib.link = "up" /\ nat.clients > 0
    /\ found < MaxFound[roles] /\ found' = found + 1
    /\ incoming' = incoming \cup {<<s, found>>}
    /\ \/ \E t \in Servers : thread[t].st = "cond" /\ thread' = [thread EXCEPT ![t].st = "runs"]
       \/ (\A t \in Servers : thread[t].st # "cond") /\ UNCHANGED thread
    /\ UNCHANGED <<lock, msgs, nat, lib, svc, eps, open, hist, roles, calls>>

Broadcast ==
    thread' = [t \in Threads |-> IF thread[t].st = "cond" THEN [thread[t] EXCEPT !.st = "runs"]
                                 ELSE thread[t]]

listenCallback(s) ==
    /\ s \in open /\ lib.link = "up" /\ nat.clients > 0
    /\ found < MaxFound[roles] /\ found' = found + 1
    /\ incoming' = incoming \cup {<<s, found>>}
    /\ Broadcast
    /\ UNCHANGED <<lock, msgs, nat, lib, svc, eps, open, hist, roles, calls>>

\* getIncomingSocket, or pthread_cond_wait under the same mutex.
accept(t) ==
    /\ At(t, "accept")
    /\ LET own == {e \in incoming : e[1] = t}
       IN IF own = {} THEN thread' = [thread EXCEPT ![t].st = "cond"] /\ UNCHANGED incoming
          ELSE /\ incoming' = incoming \ {CHOOSE e \in own : \A f \in own : f[2] <= e[2]}
               /\ Leave(t, <<"accepting">>)
    /\ Silent /\ UNCHANGED <<nat, lib, svc, eps, open, hist>>

\* doClose of a service socket wakes its accept, which looks again.
closeServiceSocket(t) ==
    /\ t \in open /\ open' = open \ {t} /\ Broadcast
    /\ UNCHANGED <<lock, msgs, nat, lib, svc, eps, incoming, hist, bounds>>
closeSocket ==
    /\ "client" \in open /\ open' = open \ {"client"}
    /\ UNCHANGED <<thread, lock, msgs, nat, lib, svc, eps, incoming, hist, bounds>>
closeConnectionless ==
    /\ "datagrams" \in open /\ open' = open \ {"datagrams"}
    /\ UNCHANGED <<thread, lock, msgs, nat, lib, svc, eps, incoming, hist, bounds>>

socketAnswered(m, good) ==
    /\ m.what \in {"llcp", "accepting"}
    /\ Post(m, good)
    /\ UNCHANGED <<nat, lib, svc, eps, incoming, open, hist>>

SocketCalls ==
    /\ \/ \E t \in Servers \cap open : Begin(t, doAccept)
       \/ \E t \in {"client"} \cap open, plan \in {socketConnect, socketConnectBy, socketSend, socketReceive} :
            Begin(t, plan)
       \/ \E t \in {"datagrams"} \cap open, plan \in {sendTo, receiveFrom} : Begin(t, plan)
    /\ UNCHANGED adapter

\* doAccept tries again with the next connection, whatever went wrong.
SocketFails(t) == IF thread[t].pc = "accepting" THEN doAccept ELSE thread[t].rest
=============================================================================
