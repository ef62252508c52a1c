----------------------------- MODULE NxpAdapter -----------------------------
(***************************************************************************)
(* The adapter for the PN544: NfcManager, NativeNfcTag and                 *)
(* NativeNfcSecureElement of nxp/jni, with the peers of NxpLlcp, called by *)
(* NfcService.  The calls of NfcService, which its monitor serialises, are *)
(* made by one thread; each tag, with its watchdog, is a thread.           *)
(*                                                                         *)
(* Assumed of libnfc: NFC_DISCOVERY_RESUME restores its last configuration *)
(* of discovery; an answered disconnect releases the target; the answer to *)
(* DeInitialize comes after all the others; the driver can be configured.  *)
(***************************************************************************)
EXTENDS NxpLlcp

CONSTANT Timeouts      \* the timeouts in ms that applications ask for

ASSUME TimeoutsAssumption == Timeouts \subseteq Nat

Tags == roles \cap {"tag1", "tag2"}

-----------------------------------------------------------------------------
(* Timeouts *)

\* phLibNfc's registers: zero turns the controller's own timeout off.
DefaultTimeouts == [raw |-> 9, iso |-> 14, felica |-> 255, hci |-> 6000]

\* Mutant: the logarithm is rounded down.
log2Floor(v) == CHOOSE n \in 0..20 : 2^n <= v /\ v < 2^(n + 1)
\* The least n with 2^n >= v.
log2(v) == CHOOSE n \in 0..20 : v <= 2^n /\ (n = 0 \/ 2^(n - 1) < v)

\* The controller waits 4096/13.56 us * 2^X: the least X that is enough.
calcTimeout(ms) == log2((ms * 13560 + 4095) \div 4096)
InMs(x) == (4096 * 2^x) \div 13560

setNfcATimeout(r, ms) ==
    IF ms <= 4900 THEN [r EXCEPT !.raw = calcTimeout(ms)]
    ELSE [r EXCEPT !.raw = 0, !.hci = ms]
setIsoDepTimeout(r, ms) ==
    IF ms <= 4900
    THEN [r EXCEPT !.iso = calcTimeout(ms), !.hci = InMs(calcTimeout(ms)) + 501]
    ELSE [r EXCEPT !.iso = 0, !.hci = ms]
setFelicaTimeout(r, ms) ==
    IF ms <= 255 THEN [r EXCEPT !.felica = ms] ELSE [r EXCEPT !.felica = 0, !.hci = ms]

doGetTimeout(r, tech) ==
    LET x == r[tech]
    IN IF x = 0 THEN r.hci ELSE IF tech = "felica" THEN x ELSE InMs(x)

\* Zero returns with the mutex held.
doSetTimeout(ms) == IF ms = 0 THEN <<"lock">> ELSE <<"lock", "setTimeout", "unlock">>
doResetTimeouts == Locked(<<"resetTimeouts">>)

\* asked: what the last application asked for, until a reset.
ResetTimeouts == [nat EXCEPT !.timeouts = DefaultTimeouts, !.asked = None]

timeoutStep(t) ==
    /\ \/ /\ At(t, "setTimeout")
          /\ \E ms \in Timeouts \ {0} :
               \/ nat' = [nat EXCEPT !.timeouts = setNfcATimeout(@, ms), !.asked = <<"raw", ms>>]
               \/ nat' = [nat EXCEPT !.timeouts = setIsoDepTimeout(@, ms), !.asked = <<"iso", ms>>]
               \/ nat' = [nat EXCEPT !.timeouts = setFelicaTimeout(@, ms), !.asked = <<"felica", ms>>]
       \/ At(t, "resetTimeouts") /\ nat' = ResetTimeouts
    /\ Advance(t) /\ Silent
    /\ UNCHANGED <<lib, svc, eps, incoming, open, hist>>

TimeoutCalls ==
    /\ \E ms \in Timeouts : Begin("binder", doSetTimeout(ms))
       \/ Begin("binder", doResetTimeouts)
    /\ UNCHANGED adapter

-----------------------------------------------------------------------------
(* Tags *)

\* doReconnect asks for the same handle again; the others keep the mutex
\* from the request to the answer.
doConnect == Locked(<<"connect", "connected">>)
doReconnect == Locked(<<"reconnect">>)
doHandleReconnect == Locked(<<"reconnect">>)
doRead == Locked(<<"ask">>)
doWrite == Locked(<<"ask">>)
doTransceive == Locked(<<"ask">>)
doCheckNdef == Locked(<<"ask">>)
doPresenceCheck == Locked(<<"ask">>)
doNdefFormat == Locked(<<"ask">>)
doMakeReadonly == Locked(<<"ask">>)

\* A tag that was never connected restarts the discovery.
doDisconnect(t) ==
    Locked(<<IF eps[t] = "connected" THEN "tagDisconnect" ELSE "restart", "released">>)

TagCalls ==
    /\ \E t \in Tags :
         \/ eps[t] = "found" /\ Begin(t, doConnect)
         \/ eps[t] \in {"found", "connected"} /\ Begin(t, doDisconnect(t))
         \/ /\ eps[t] = "connected"
            /\ \E plan \in {doReconnect, doHandleReconnect, doRead, doWrite, doTransceive, doCheckNdef,
                            doPresenceCheck, doNdefFormat, doMakeReadonly} : Begin(t, plan)
    /\ UNCHANGED adapter

connected(t) ==
    /\ At(t, "connected") /\ eps' = [eps EXCEPT ![t] = "connected"] /\ Advance(t)
    /\ Silent /\ UNCHANGED <<nat, lib, svc, incoming, open, hist>>

\* A disconnect, of a tag or a peer, ends with device_connected_flag at zero.
released(t) ==
    /\ At(t, "released")
    /\ nat' = [nat EXCEPT !.flag = FALSE]
    /\ eps' = [eps EXCEPT ![t] = "done"]
    /\ Advance(t) /\ Silent /\ UNCHANGED <<lib, svc, incoming, open, hist>>

\* Mutant: a disconnect that libnfc refuses is left at that.
TagFailsQuietly(t, refused) ==
    IF thread[t].pc = "connect" THEN Cleanup(t) ELSE thread[t].rest

\* Refused for no connection, there is nothing to undo; for another reason,
\* the discovery is restarted.
TagFails(t, refused) ==
    LET rest == thread[t].rest
    IN CASE thread[t].pc = "connect" -> Cleanup(t)
         [] thread[t].pc = "tagDisconnect" /\ refused /\ (lib.on => lib.conn) ->
              <<"restart">> \o rest
         [] OTHER -> rest

tagAnswered(m, good) ==
    /\ m.what \in {"connect", "reconnect", "tagDisconnect", "ask"}
    /\ lib' = CASE m.what = "connect" /\ good /\ lib.target = m.to -> [lib EXCEPT !.conn = TRUE]
                [] m.what = "tagDisconnect" -> Freed(lib)
                [] OTHER -> lib
    /\ Post(m, good)
    /\ UNCHANGED <<nat, svc, eps, incoming, open, hist>>

-----------------------------------------------------------------------------
(* The secure element *)

\* Mutant: the listener that was registered first is relied on.
StartOnly == Locked(<<"start">>)

start_discovery_locked == <<"start">>
stop_discovery_locked == <<"stop">>

enableDiscovery == Locked(<<"register">> \o start_discovery_locked)
disableDiscovery == Locked(stop_discovery_locked)
doEnableReaderMode == Locked(start_discovery_locked)
doDisableReaderMode == Locked(start_discovery_locked)
doSelectSecureElement == Locked(<<"register", "seMode">>)
doDeselectSecureElement == Locked(<<"register", "seMode">>)

\* applyRouting: it does nothing while the element is open.
applyRouting(polling) ==
    (IF polling THEN doSelectSecureElement ELSE doDeselectSecureElement)
      \o (IF polling THEN enableDiscovery ELSE disableDiscovery)

\* The mutex is given back and taken again between the three parts.
findElement == Locked(<<"seCheck", "seField", "seRegister", "seWired", "seNotified">>)
connectElement == Locked(<<"seConnect">>) \o Locked(<<"gpioGet", "gpioSet">>)
doOpenSecureElementConnection == findElement \o connectElement \o <<"seOpened">>

\* Mutant: the polling loop is left on.
OpenWhilePolling == doOpenSecureElementConnection

\* NfcService._open turns the polling loop off first.
Open == (IF svc.polling THEN disableDiscovery ELSE <<>>) \o doOpenSecureElementConnection

seDisconnect == Locked(<<"seDisconnect">>) \o Locked(<<"gpioBack", "gpioClear">>) \o <<"seClosed">>
seTransceive == Locked(<<"seAsk">>)

OpenAsks == {"seField", "seWired", "seNotified", "seConnect", "gpioGet", "gpioSet"}
CloseAsks == {"seDisconnect", "gpioBack", "gpioClear"}

\* Mutant: the notification is waited for when wired mode was refused.
NotifiedAnyway(t) ==
    CASE thread[t].pc = "seWired" -> thread[t].rest
      [] thread[t].pc \in OpenAsks -> <<"unlock", "seFailed">>
      [] thread[t].pc \in CloseAsks -> <<"unlock", "seClosed">>
      [] OTHER -> thread[t].rest

ElementFails(t) ==
    CASE thread[t].pc \in OpenAsks -> <<"unlock", "seFailed">>
      [] thread[t].pc \in CloseAsks -> <<"unlock", "seClosed">>
      [] OTHER -> thread[t].rest

seCheck(t) ==
    /\ At(t, "seCheck")
    /\ IF nat.flag THEN Leave(t, <<"unlock", "seFailed">>) ELSE Advance(t)
    /\ Silent /\ UNCHANGED adapter

\* The listener of remote devices becomes the element's, which posts to a
\* frame of this call.
seRegister(t) ==
    /\ At(t, "seRegister")
    /\ \/ lib.on /\ lib' = [lib EXCEPT !.listener = "se"] /\ Advance(t)
       \/ Leave(t, <<"unlock", "seFailed">>) /\ UNCHANGED lib
    /\ Silent /\ UNCHANGED <<nat, svc, eps, incoming, open, hist>>

awaitElement(t) ==
    /\ At(t, "seNotified") /\ thread' = [thread EXCEPT ![t].st = "waits"]
    /\ Silent /\ UNCHANGED adapter

\* A GPIO read that libnfc refused is waited for all the same.
gpioRefused(t) ==
    /\ At(t, "gpioGet")
    /\ thread' = [thread EXCEPT ![t].st = "waits"] /\ hist' = hist \cup {"gpioRefused"}
    /\ Silent /\ UNCHANGED <<nat, lib, svc, eps, incoming, open>>

\* _open restores the polling loop after a failure.
seFailed(t) ==
    /\ At(t, "seFailed")
    /\ svc' = [svc EXCEPT !.polling = @ \/ svc.restore, !.restore = FALSE]
    /\ Leave(t, IF svc.restore THEN enableDiscovery ELSE <<>>)
    /\ Silent /\ UNCHANGED <<nat, lib, eps, incoming, open, hist>>
seOpened(t) ==
    /\ At(t, "seOpened")
    /\ svc' = [svc EXCEPT !.ee = TRUE, !.restore = FALSE]
    /\ Advance(t) /\ Silent /\ UNCHANGED <<nat, lib, eps, incoming, open, hist>>

\* _nfcEeClose forgets the element whatever came of it, and sets the routes.
seClosed(t) ==
    /\ At(t, "seClosed")
    /\ \E polling \in BOOLEAN :
         /\ svc' = [svc EXCEPT !.ee = FALSE, !.polling = polling]
         /\ Then(t, applyRouting(polling))
    /\ Silent /\ UNCHANGED <<nat, lib, eps, incoming, open, hist>>

seAnswered(m, good) ==
    /\ m.what \in OpenAsks \cup CloseAsks \cup {"seAsk"}
    /\ lib' = CASE m.what = "seWired" /\ good -> [lib EXCEPT !.wired = TRUE]
                [] m.what = "seDisconnect" /\ good -> [lib EXCEPT !.wired = FALSE]
                [] OTHER -> lib
    /\ Post(m, good)
    /\ UNCHANGED <<nat, svc, eps, incoming, open, hist>>

-----------------------------------------------------------------------------
(* Initialisation, firmware, and the end *)

\* nfc_jni_initialize: the library, and then its settings.
initializeHead == <<"configure", "init">>
initializeTail == <<"eeprom", "seOff", "llcpConfig", "seListen", "unlock", "enabled">>
initialize == <<"lock">> \o initializeHead \o initializeTail
deinitialize == Locked(<<"deinit">>)

performDownload(load) == <<load>>

\* nfc_jni_download_locked; update closes a library that was initialised.
download_locked(update) ==
    (IF update THEN <<"fwDeinit">> ELSE <<>>) \o performDownload("fwLoad") \o <<"fwInit">>

\* At boot the download has a driver of its own.
doDownload == Locked(<<"configure">> \o performDownload("bootLoad") \o <<"unconfigure">>)

\* nfc_jni_configure_driver starts a client thread, once for each driver.
configure(t) ==
    /\ At(t, "configure") /\ ~nat.kill
    /\ nat' = IF nat.driver THEN [nat EXCEPT !.flag = FALSE]
              ELSE [nat EXCEPT !.flag = FALSE, !.driver = TRUE, !.clients = @ + 1]
    /\ Advance(t) /\ Silent /\ UNCHANGED <<lib, svc, eps, incoming, open, hist>>

\* nfc_jni_unconfigure_driver, which leaves that thread as it is.
unconfigure(t) ==
    /\ At(t, "unconfigure")
    /\ nat' = [nat EXCEPT !.driver = FALSE]
    /\ Advance(t) /\ Silent /\ UNCHANGED <<lib, svc, eps, incoming, open, hist>>

\* kill_client asks for the end of the client thread, which takes its turn.
Killed == [nat EXCEPT !.kill = TRUE]
clientStops ==
    /\ nat.kill /\ nat.clients > 0
    /\ nat' = [nat EXCEPT !.kill = FALSE, !.clients = @ - 1]
    /\ UNCHANGED <<thread, lock, msgs, lib, svc, eps, incoming, open, hist, bounds>>

\* Three tries, the firmware updated in the first at most.
ManagerFails(t, refused) ==
    LET l == thread[t].pc
    IN CASE l = "init" -> download_locked(FALSE) \o initializeTail
         [] l = "fwDeinit" -> thread[t].rest
         [] l \in {"fwLoad", "fwInit"} -> <<"fwFailed">>
         [] l = "eeprom" -> <<"initFails">>
         [] l \in {"seOff", "llcpConfig"} /\ refused -> <<"initFails">>
         [] OTHER -> thread[t].rest

fwFailed(t) ==
    LET c == thread[t]
    IN  /\ At(t, "fwFailed")
        /\ \/ /\ c.tries < 2
              /\ thread' = [thread EXCEPT ![t] =
                   Planned([c EXCEPT !.tries = c.tries + 1, !.frame["download"] = NewFrame],
                           download_locked(FALSE) \o initializeTail)]
           \/ c.tries >= 2 /\ Leave(t, <<"initFails">>)
        /\ Silent /\ UNCHANGED adapter

\* The client thread is killed, but the driver stays configured.
initFails(t) ==
    /\ At(t, "initFails")
    /\ nat' = Killed /\ hist' = hist \cup {"initFailed"}
    /\ Leave(t, <<"unlock">>)
    /\ Silent /\ UNCHANGED <<lib, svc, eps, incoming, open>>

\* phLibNfc_SE_NtfRegister, the last step.
seListen(t) ==
    /\ At(t, "seListen")
    /\ \/ lib.on /\ Advance(t)
       \/ Leave(t, <<"initFails">>)
    /\ Silent /\ UNCHANGED adapter

enabled(t) ==
    /\ At(t, "enabled")
    /\ \E polling \in BOOLEAN :
         /\ svc' = [svc EXCEPT !.on = TRUE, !.polling = polling]
         /\ Then(t, applyRouting(polling))
    /\ Silent /\ UNCHANGED <<nat, lib, eps, incoming, open, hist>>

\* The listener of discovery is registered again every time.
register(t) ==
    /\ At(t, "register")
    /\ \/ lib.on /\ lib' = [lib EXCEPT !.listener = "discovery"] /\ Advance(t) /\ UNCHANGED hist
       \/ /\ Leave(t, Cleanup(t)) /\ hist' = hist \cup {"registerRefused"}
          /\ UNCHANGED lib
    /\ Silent /\ UNCHANGED <<nat, svc, eps, incoming, open>>

ManagerAsks == {"start", "restart", "stop", "seMode", "init", "fwDeinit", "fwLoad", "fwInit",
                "bootLoad", "eeprom", "seOff", "llcpConfig", "deinit"}

managerAnswered(m, good) ==
    /\ m.what \in ManagerAsks
    /\ m.what \in {"deinit", "fwDeinit"} => msgs = {m}
    /\ lib' = CASE m.what \in {"init", "fwInit"} /\ good -> [LibOff EXCEPT !.on = TRUE]
                [] m.what \in {"deinit", "fwDeinit"} /\ good -> [Freed(LibOff) EXCEPT !.link = Freed(lib).link]
                [] m.what = "start" /\ good -> [Freed(lib) EXCEPT !.cfg = TRUE]
                [] m.what = "restart" /\ good -> Freed(lib)
                [] m.what = "stop" /\ good -> [Freed(lib) EXCEPT !.cfg = FALSE]
                [] OTHER -> lib
    /\ hist' = IF m.what \in {"start", "restart", "stop"} /\ ~good THEN hist \cup {"startFailed"}
               ELSE hist
    /\ Post(m, good)
    /\ UNCHANGED <<nat, svc, eps, incoming, open>>

ServiceCalls ==
    \/ /\ ~svc.on
       /\ \/ Begin("service", initialize)
          \/ ~nat.driver /\ Begin("service", doDownload)
       /\ UNCHANGED adapter
    \/ /\ svc.on /\ ~svc.ee
       /\ \/ Begin("service", deinitialize) /\ UNCHANGED svc
          \/ \E polling \in BOOLEAN :
               Begin("service", applyRouting(polling)) /\ svc' = [svc EXCEPT !.polling = polling]
          \/ /\ svc.polling /\ UNCHANGED svc
             /\ \E plan \in {doEnableReaderMode, doDisableReaderMode} : Begin("service", plan)
          \/ /\ \A t \in Peers : eps[t] \notin {"upTarget", "upInitiator"}
             /\ Begin("service", Open)
             /\ svc' = [svc EXCEPT !.polling = FALSE, !.restore = svc.polling]
       /\ UNCHANGED <<nat, lib, eps, incoming, open, hist>>
    \/ /\ svc.ee
       /\ \/ Begin("service", seDisconnect)
          \/ Begin("service", seTransceive)
       /\ UNCHANGED adapter

-----------------------------------------------------------------------------
(* libnfc *)

Requests == ManagerAsks \cup OpenAsks \cup CloseAsks \cup
            {"connect", "reconnect", "tagDisconnect", "ask", "p2pConnect", "p2pDisconnect",
             "check", "llcp", "accepting", "seAsk"}

\* What a call does before its request.
Prepared(l) ==
    CASE l \in {"start", "restart"} -> [ResetTimeouts EXCEPT !.flag = FALSE]
      [] l = "tagDisconnect" -> ResetTimeouts
      [] l = "check" -> [nat EXCEPT !.data = "alive"]
      [] OTHER -> nat

MayAccept(t, l) ==
    /\ \A m \in msgs : m.what # "deinit"
    /\ CASE l \in {"init", "fwInit"} -> ~lib.on /\ \A m \in msgs : m.what \notin {"init", "fwInit"}
         [] l \in {"fwLoad", "bootLoad"} -> nat.driver
         [] l \in {"connect", "p2pConnect", "check"} -> lib.on /\ lib.target = t
         [] l \in {"ask", "reconnect", "tagDisconnect", "p2pDisconnect"} ->
              lib.on /\ lib.target = t /\ lib.conn
         [] l \in {"llcp", "accepting"} -> lib.link = "up"
         [] l \in {"seConnect", "seAsk", "seDisconnect"} -> lib.on /\ lib.wired
         [] OTHER -> lib.on

accepts(t) ==
    /\ thread[t].pc \in Requests \ {"seNotified"} /\ At(t, thread[t].pc)
    /\ MayAccept(t, thread[t].pc)
    /\ Asks(t) /\ nat' = Prepared(thread[t].pc)
    /\ UNCHANGED <<lib, svc, eps, incoming, open, hist>>

\* What a call still does when its request was refused or has failed.
Failed(t, refused) ==
    LET l == thread[t].pc
    IN CASE l \in ManagerAsks -> ManagerFails(t, refused)
         [] l \in OpenAsks \cup CloseAsks \cup {"seAsk"} -> ElementFails(t)
         [] l \in {"connect", "reconnect", "tagDisconnect"} -> TagFails(t, refused)
         [] l \in {"llcp", "accepting"} -> SocketFails(t)
         [] OTHER -> PeerFails(t, refused)

\* A configuration or deinitialisation refused means emergency_recovery.
Fatal == {"start", "restart", "stop", "deinit"}

refuses(t) ==
    /\ thread[t].pc \in Requests \ (Fatal \cup {"seNotified", "gpioGet"}) /\ At(t, thread[t].pc)
    /\ Leave(t, Failed(t, TRUE))
    /\ nat' = IF thread[t].pc = "check" THEN [nat EXCEPT !.data = "freed"] ELSE Prepared(thread[t].pc)
    /\ Silent /\ UNCHANGED <<lib, svc, eps, incoming, open, hist>>

\* The element in wired mode is notified to the listener of the open.
ElementNotified(m, good) ==
    IF m.what = "seWired" /\ good THEN {[m EXCEPT !.what = "seNotified"]} ELSE {}

\* nfc_jni_client_thread runs a callback.
answers ==
    /\ nat.clients > 0
    /\ \E m \in msgs, good \in BOOLEAN :
         /\ \/ managerAnswered(m, good)
            \/ tagAnswered(m, good)
            \/ peerAnswered(m, good)
            \/ socketAnswered(m, good)
            \/ seAnswered(m, good)
         /\ msgs' = (msgs \ {m}) \cup ElementNotified(m, good)

\* A call whose request was answered goes on.
wakes(t) ==
    /\ Woken(t) /\ thread[t].pc # "deinit"
    /\ \/ Status(t) /\ Goes(t, thread[t].rest)
       \/ ~Status(t) /\ Goes(t, Failed(t, FALSE))
       \* the firmware is old, or there is an external field
       \/ Status(t) /\ thread[t].pc = "init" /\ Goes(t, download_locked(TRUE) \o initializeTail)
       \/ Status(t) /\ thread[t].pc = "seField" /\ Goes(t, Failed(t, FALSE))
    /\ UNCHANGED adapter

\* The timed wait of an update ends; its frame goes on.
fwDeinitTimesOut(t) ==
    /\ thread[t].pc = "fwDeinit" /\ thread[t].st = "waits" /\ ~Woken(t)
    /\ Advance(t) /\ Silent /\ UNCHANGED adapter

deinitialized(t) ==
    /\ Woken(t) /\ thread[t].pc = "deinit" /\ Status(t)
    /\ Goes(t, thread[t].rest)
    /\ nat' = [Killed EXCEPT !.driver = FALSE]
    /\ svc' = [svc EXCEPT !.on = FALSE]
    /\ UNCHANGED <<lib, eps, incoming, open, hist>>

\* nfc_jni_Discovery_notification_callback
Discovered ==
    /\ nat.clients > 0 /\ lib.on /\ lib.cfg /\ lib.listener = "discovery"
    /\ lib.target = None /\ lib.link = "none"
    /\ \A m \in msgs : m.what \notin Fatal
    /\ found < MaxFound[roles] /\ found' = found + 1
    /\ \E t \in Tags \cup Peers, how \in {"found", "target", "initiator"} :
         /\ eps[t] = "free" /\ (t \in Tags <=> how = "found")
         /\ eps' = [eps EXCEPT ![t] = how]
         /\ lib' = [lib EXCEPT !.target = t, !.passive = (how = "initiator")]
    /\ nat' = [nat EXCEPT !.flag = TRUE]
    /\ UNCHANGED <<thread, lock, msgs, svc, incoming, open, hist, roles, calls>>

-----------------------------------------------------------------------------
(* The process *)

NatOff == [driver |-> FALSE, clients |-> 0, kill |-> FALSE, flag |-> FALSE, data |-> "none",
           timeouts |-> DefaultTimeouts, asked |-> None]
SvcOff == [on |-> FALSE, polling |-> FALSE, ee |-> FALSE, restore |-> FALSE]

Init ==
    /\ roles \in RoleSets /\ calls = 0 /\ found = 0
    /\ thread = [t \in Threads |-> IdleThread] /\ lock = None /\ msgs = {}
    /\ eps = [t \in Threads |-> "free"] /\ incoming = {} /\ open = {} /\ hist = {}
    \* switched off, or on with the polling loop
    /\ \/ nat = NatOff /\ lib = LibOff /\ svc = SvcOff
       \/ /\ nat = [NatOff EXCEPT !.driver = TRUE, !.clients = 1]
          /\ lib = [LibOff EXCEPT !.on = TRUE, !.cfg = TRUE, !.listener = "discovery"]
          /\ svc = [SvcOff EXCEPT !.on = TRUE, !.polling = TRUE]

\* emergency_recovery and doAbort: the process starts again.
Aborts ==
    /\ \/ \E t \in roles :
            \/ thread[t].pc \in Fatal /\ At(t, thread[t].pc)
            \/ /\ thread[t].pc = "deinit" /\ thread[t].st = "waits"
               /\ Woken(t) => ~Status(t)
       \* the watchdog of a call of NfcService
       \/ "service" \in roles /\ Working("service")
    /\ thread' = [t \in Threads |-> IdleThread] /\ lock' = None /\ msgs' = {}
    /\ eps' = [t \in Threads |-> "free"] /\ incoming' = {} /\ open' = {} /\ hist' = {}
    /\ nat' = NatOff /\ lib' = LibOff /\ svc' = SvcOff
    /\ UNCHANGED bounds

Step(t) ==
    \/ takeLock(t) \/ giveLock(t) \/ accepts(t) \/ refuses(t) \/ wakes(t)
    \/ activate(t) \/ ignored(t) \/ accept(t)
    \/ timeoutStep(t) \/ connected(t) \/ released(t)
    \/ seCheck(t) \/ seRegister(t) \/ awaitElement(t) \/ gpioRefused(t)
    \/ seFailed(t) \/ seOpened(t) \/ seClosed(t)
    \/ configure(t) \/ unconfigure(t) \/ fwFailed(t) \/ initFails(t) \/ seListen(t)
    \/ enabled(t) \/ register(t) \/ fwDeinitTimesOut(t) \/ deinitialized(t)

Calls == ServiceCalls \/ TagCalls \/ PeerStarts \/ SocketCalls \/ TimeoutCalls
         \/ createServiceSocket \/ createLlcpSocket \/ createConnectionlessSocket
         \/ closeSocket \/ closeConnectionless \/ \E t \in Servers : closeServiceSocket(t)

Events == answers \/ clientStops \/ linkStatus \/ RemoteLeaves \/ Discovered \/ Aborts
          \/ \E t \in Servers : listenCallback(t)

Next == Calls \/ Events \/ \E t \in roles : Step(t)

Spec == Init /\ [][Next]_vars

-----------------------------------------------------------------------------
(* Properties *)

\* A call that sleeps on its semaphore without a limit of time is woken: its
\* answer is still to come, to the frame it sleeps on, and a client thread
\* is there to run the callback.  Excused are the two ways the code has of
\* sleeping for ever: after an initialisation that failed, and on a GPIO
\* read that libnfc refused.
AnswerComes ==
    hist \cap {"initFailed", "gpioRefused"} = {} =>
      \A t \in roles :
        thread[t].st = "waits" /\ ~Woken(t) /\ thread[t].pc \notin {"deinit", "fwDeinit"} =>
          /\ nat.clients > (IF nat.kill THEN 1 ELSE 0)
          /\ \E m \in msgs : /\ m.to = t /\ Alive(m)
                             /\ FrameOf(m.what) = FrameOf(thread[t].pc)

\* When no call is running and every device has been let go, the controller
\* polls if and only if NfcService thinks it does, and no device holds it:
\* each way of ending with a tag or a peer resumes the discovery, unless
\* libnfc refused or failed to register or start it.
PollingAsWanted ==
    /\ svc.on /\ hist = {} /\ lib.link = "none"
    /\ \A t \in roles : ~Working(t)
    /\ \A t \in Tags \cup Peers : eps[t] \in {"free", "done"}
    => /\ lib.cfg = svc.polling
       /\ lib.target = None \/ lib.passive

\* The controller polls only with the listener of discovery: that of the
\* secure element posts to a frame that is gone.  No status of a start or a
\* stop of the discovery is looked at, and reader mode starts it without a
\* registration: an earlier failure of libnfc in either is excused.
ListenerAlive == lib.cfg /\ hist \cap {"startFailed", "registerRefused"} = {} => lib.listener = "discovery"

\* While the secure element is open the controller does not poll, and no tag
\* or peer is connected, whatever the tags found before still do.
ElementAlone == svc.ee /\ "startFailed" \notin hist => ~lib.cfg /\ lib.target = None

\* No accept sleeps while a connection waits for its socket.
NoLostIncoming ==
    \A t \in Servers : thread[t].st = "cond" => \A e \in incoming : e[1] # t

\* As long as libnfc may call back about a link, the data it was given is
\* there: it is freed by the last callback and not before.
LinkDataAlive == lib.link # "none" => nat.data = "alive"

\* The timeout last asked for, of whatever technology, is the one read back,
\* rounded up by the controller.
TimeoutKept ==
    nat.asked # None => doGetTimeout(nat.timeouts, nat.asked[1]) >= nat.asked[2]
=============================================================================
