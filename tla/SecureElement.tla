---------------------------- MODULE SecureElement ----------------------------
(***************************************************************************)
(* The secure elements behind the controller: nci/jni/SecureElement.cpp    *)
(* with NativeSecureElement.cpp (wired mode for the service),              *)
(* DwpChannel.cpp (wired mode for the Java card downloader), the select    *)
(* and deselect calls of NativeNfcManager.cpp, and PowerSwitch.cpp.        *)
(* The build is the one of nci/jni/Android.mk for the PN547.               *)
(*                                                                         *)
(* The service makes its calls one at a time under its lock; a transceive  *)
(* of a client runs outside that lock.  A call is a walk over points, each *)
(* a request to the stack (SyncEvent).  handle None is one that matches no *)
(* element: getEseHandleFromGenericId maps the ids 1 and 2, and maps a     *)
(* real handle, or 0, to nothing.                                          *)
(***************************************************************************)
EXTENDS SyncEvent, Sequences, SequencesExt

CONSTANTS
    Elements,   \* the elements, in the order in which the stack lists them
    Override,   \* ACTIVE_SE of the .conf file: an element, or None for any
    Confs,      \* the .conf files: a static pipe or none, whether to reset the
                \* element with a command and to sleep when the screen is off;
                \* and the kind of pipe that the controller creates
    MaxCalls,   \* bound: how many JNI calls are made
    MaxLinks    \* bound: how often a reader activates the element

\* A pipe is "fixed" with the ids STATIC_PIPE_0x70 or 0x71, else "other".
Pipes == {None, "fixed", "other"}

ASSUME SecureElementAssumption ==
    /\ "eSE" \in ToSet(Elements) /\ None \notin ToSet(Elements)
    /\ Override \in ToSet(Elements) \cup {None}
    /\ Threads = {"service", "client"} /\ MaxCalls \in Nat /\ MaxLinks \in Nat
    /\ Confs \subseteq [pipe : {None, "fixed"}, created : Pipes,
                        warm : BOOLEAN, sleep : BOOLEAN]

Handles == ToSet(Elements)

VARIABLES
    conf,       \* the .conf file
    chip,       \* the controller: the mode of each element, its RF link
    se,         \* the fields of SecureElement
    timer,      \* mTransceiveTimer: armed, and its threads that have started
    power,      \* the fields of PowerSwitch
    manager,    \* sIsSecElemSelected, sRfEnabled
    opened,     \* the service holds an open connection (mOpenEe)
    calls       \* the calls so far

vars == <<thread, asked, conf, chip, se, timer, power, manager, opened, calls>>
fixed == <<conf, calls>>
notSe == <<chip, timer, power, manager, opened>>
notPower == <<chip, se, timer, manager, opened>>
state == <<chip, se, timer, power, manager, opened>>

\* told is a ghost: the element has answered since the transceive began.
NewElement == [mIsInit |-> FALSE, hci |-> FALSE, ee |-> [s \in Handles |-> None],
    active |-> None, piping |-> FALSE, pipe |-> None, gate |-> FALSE, ok |-> FALSE,
    waitOk |-> FALSE, told |-> FALSE, atrWait |-> FALSE, listen |-> FALSE]

\* h: the handle, ok: the result so far, rf: bRestartDiscovery, n: its number
NoCall == [op |-> None, h |-> None, ok |-> TRUE, rf |-> FALSE, n |-> 0]

Init ==
    /\ conf \in Confs
    /\ thread = [t \in Threads |-> Idle(NoCall)] /\ asked = {}
    /\ chip = [mode |-> [s \in Handles |-> "inactive"], activated |-> FALSE, links |-> 0]
    /\ se = NewElement /\ timer = [armed |-> FALSE, fires |-> FALSE]
    /\ power \in [level : {"full"}, dm : {"full"}, expected : {"full"},
                  modes : {{}, {"DISCOVERY"}}]
    /\ manager = [selected |-> 0, rf |-> FALSE]
    /\ opened = FALSE /\ calls = 0

Call(t) == thread[t].call
Op(t) == Call(t).op
With(t, l, ok) == GoWith(t, l, [Call(t) EXCEPT !.ok = ok])
Deactivate(t, h, ok) == GoWith(t, "deactivate", [Call(t) EXCEPT !.h = h, !.ok = ok])
End(t) == GoWith(t, "idle", NoCall)

Begin(t, op, h, l) ==
    /\ At(t, "idle") /\ calls < MaxCalls /\ calls' = calls + 1
    /\ GoWith(t, l, [op |-> op, h |-> h, ok |-> TRUE, rf |-> manager.rf, n |-> calls + 1])
    /\ UNCHANGED <<asked, conf>>

\* A point asks the stack and sleeps; if it refuses, the thread goes to next.
Request(t, l, e, what) == At(t, l) /\ Asks(t, e, what)
Refused(t, l, next) == At(t, l) /\ Go(t, next) /\ UNCHANGED asked
Fails(t, l, next) == At(t, l) /\ With(t, next, FALSE) /\ UNCHANGED asked

-----------------------------------------------------------------------------
(* initialize, finalize, activate, deactivate: the last two run only while  *)
(* mIsInit, for the service makes no other call then *)

\* The cached list is the one of the stack, or empty if it gives none.
initialize ==
    /\ ~se.mIsInit /\ At("service", "idle")
    /\ GoWith("service", "register", [NoCall EXCEPT !.op = "initialize"])
    /\ \E m \in {chip.mode, NewElement.ee} :
           se' = [NewElement EXCEPT !.ee = m, !.piping = se.piping, !.waitOk = se.waitOk,
                                    !.told = se.told, !.atrWait = se.atrWait]
    /\ UNCHANGED <<asked, fixed, notSe>>

register(t) ==
    /\ \/ se.ee # NewElement.ee /\ Request(t, "register", "register", <<>>)
       \/ Refused(t, "register", "end")
    /\ UNCHANGED <<fixed, state>>
registered(t) ==
    /\ Wakes(t, "register") /\ Go(t, "end") /\ se' = [se EXCEPT !.mIsInit = TRUE]
    /\ UNCHANGED <<asked, fixed, notSe>>

finalize ==
    /\ Begin("service", "finalize", None, "end") /\ se.mIsInit /\ ~opened
    /\ se' = [se EXCEPT !.hci = FALSE, !.mIsInit = FALSE, !.ee = NewElement.ee,
                        !.pipe = None, !.gate = FALSE, !.piping = FALSE]
    /\ UNCHANGED notSe

\* The first element that is allowed and not inactive, if any.
Usable(s) == (Override = None \/ s = Override) /\ se.ee[s] \notin {None, "inactive"}
getDefaultEeHandle ==
    LET usable == SelectSeq(Elements, Usable)
    IN  IF usable = <<>> THEN None ELSE Head(usable)

Target(t) == IF Override # None THEN Override ELSE Call(t).h

Activated(t) ==
    /\ se' = [se EXCEPT !.active = getDefaultEeHandle]
    /\ With(t, "activated", getDefaultEeHandle # None)
    /\ UNCHANGED <<asked, fixed, notSe>>
activate(t) ==
    \/ /\ Target(t) \in Handles /\ se.ee[Target(t)] = "inactive"
       /\ Request(t, "activate", "mode", <<Target(t), "active">>)
       /\ UNCHANGED <<fixed, state>>
    \/ At(t, "activate") /\ Activated(t)
activateDone(t) == Wakes(t, "activate") /\ Activated(t)

Deactivated(t, done) ==
    /\ With(t, "deactivated", IF Op(t) = "deselect" THEN done ELSE Call(t).ok)
    /\ UNCHANGED asked

deactivate(t) ==
    /\ At(t, "deactivate")
    /\ IF se.piping THEN Deactivated(t, FALSE) /\ UNCHANGED se
       ELSE /\ se' = [se EXCEPT !.active = None]
            /\ \/ /\ Call(t).h \in Handles /\ se.ee[Call(t).h] \notin {None, "inactive"}
                  /\ Asks(t, "mode", <<Call(t).h, "inactive">>)
               \/ Deactivated(t, FALSE)
    /\ UNCHANGED <<fixed, notSe>>
deactivateDone(t) ==
    /\ Wakes(t, "deactivate") /\ Deactivated(t, se.ee[Call(t).h] = "inactive")
    /\ UNCHANGED <<fixed, state>>

-----------------------------------------------------------------------------
(* connectEE: a static pipe, or a gate and a pipe that are found or made *)

\* mIsPiping = retVal; a failure goes on with disconnectEE
Connected(t, ok) ==
    /\ With(t, IF ok THEN "connected" ELSE "warm", ok)
    /\ se' = [se EXCEPT !.piping = ok] /\ UNCHANGED <<asked, fixed, notSe>>

connectEE(t) ==
    /\ At(t, "connect")
    /\ \/ /\ se.active = None \/ se.ee[se.active] = None
          /\ With(t, "connected", FALSE) /\ UNCHANGED se
       \/ /\ se.active # None /\ se.ee[se.active] # None
          /\ se' = [se EXCEPT !.gate = FALSE, !.pipe = conf.pipe]
          /\ Go(t, IF conf.pipe = None THEN "gates" ELSE "static")
    /\ UNCHANGED <<asked, fixed, notSe>>

addStaticPipe(t) == At(t, "static") /\ \E ok \in {se.hci, FALSE} : Connected(t, ok)

AfterList(s) == IF ~s.gate THEN "alloc" ELSE IF s.pipe = None THEN "create" ELSE "open"
getGateAndPipeList(t) ==
    /\ \/ se.hci /\ Request(t, "gates", "gates", <<>>)
       \/ Refused(t, "gates", AfterList(se))
    /\ UNCHANGED <<fixed, state>>
allocGate(t) ==
    /\ se.hci /\ Request(t, "alloc", "alloc", <<>>) /\ UNCHANGED <<fixed, state>>
createPipe(t) ==
    /\ se.hci /\ Request(t, "create", "create", <<>>) /\ UNCHANGED <<fixed, state>>
openPipe(t) ==
    /\ se.hci /\ Request(t, "open", "open", <<>>) /\ UNCHANGED <<fixed, state>>
connectRefused(t) ==
    \E l \in {"alloc", "create", "open"} : At(t, l) /\ Connected(t, FALSE)

gatesDone(t) ==
    /\ Wakes(t, "gates") /\ Go(t, AfterList(se)) /\ UNCHANGED <<asked, fixed, state>>
\* mCommandStatus of the answer decides.
connectStep(t) ==
    \E l \in {"alloc", "create", "open"} :
        /\ Wakes(t, l)
        /\ IF se.ok /\ l # "open"
           THEN /\ Go(t, IF l = "alloc" /\ se.pipe = None THEN "create" ELSE "open")
                /\ UNCHANGED <<asked, fixed, state>>
           ELSE Connected(t, se.ok)

-----------------------------------------------------------------------------
(* disconnectEE *)

warmReset(t) ==
    /\ \/ conf.warm /\ se.hci /\ Request(t, "warm", "registry", <<>>)
       \/ Refused(t, "warm", "dealloc")
    /\ UNCHANGED <<fixed, state>>
warmResetDone(t) ==
    Wakes(t, "warm") /\ Go(t, "dealloc") /\ UNCHANGED <<asked, fixed, state>>

Disconnected(t) ==
    /\ Go(t, "restart") /\ se' = [se EXCEPT !.piping = FALSE]
    /\ UNCHANGED <<asked, fixed, notSe>>
deallocGate(t) ==
    \/ /\ se.gate /\ se.hci /\ Request(t, "dealloc", "dealloc", <<>>)
       /\ UNCHANGED <<fixed, state>>
    \/ At(t, "dealloc") /\ Disconnected(t)
deallocDone(t) == Wakes(t, "dealloc") /\ Disconnected(t)

\* setUiccIdleTimeout(true), of which nothing is read, then startRfDiscovery(true)
RfPoint == [restart |-> [on |-> TRUE, next |-> "disconnected"],
            rfOff |-> [on |-> FALSE, next |-> "rfIsOff"],
            rfOn |-> [on |-> TRUE, next |-> "rfIsOn"]]
startRfDiscovery(t) ==
    /\ \E l \in DOMAIN RfPoint :
           Request(t, l, "rf", <<RfPoint[l].on>>) \/ Refused(t, l, RfPoint[l].next)
    /\ UNCHANGED <<fixed, state>>
rfDone(t) ==
    \E l \in DOMAIN RfPoint :
        /\ Wakes(t, l) /\ Go(t, RfPoint[l].next)
        /\ manager' = [manager EXCEPT !.rf = RfPoint[l].on]
        /\ UNCHANGED <<asked, fixed, chip, se, timer, power, opened>>

-----------------------------------------------------------------------------
(* PowerSwitch *)

\* setLevel first waits for the end of an RF activation.
Levels == [powerUp |-> "full", powerDown |-> "low"]
Switching == [powerUp |-> "switchUp", powerDown |-> "switchDown"]

setLevel(t) ==
    /\ \E l \in DOMAIN Levels :
        /\ At(t, l)
        /\ IF power.level = Levels[l]
           THEN Go(t, IF l = "powerUp" THEN "isUp" ELSE "end")
           ELSE IF chip.activated THEN Takes(t, "deactivated")
           ELSE Go(t, Switching[l])
    /\ UNCHANGED <<asked, fixed, state>>
linkIsDown(t) ==
    /\ \E l \in DOMAIN Levels : Wakes(t, l) /\ Go(t, Switching[l])
    /\ UNCHANGED <<asked, fixed, state>>

\* setPowerOffSleepState, or the .conf file wants full power with screen off
switchDown(t) ==
    /\ At(t, "switchDown")
    /\ \/ /\ conf.sleep /\ power.dm # "off"
          /\ power' = [power EXCEPT !.expected = "off"] /\ Asks(t, "power", <<>>)
       \/ /\ Go(t, "end") /\ UNCHANGED asked
          /\ power' = [power EXCEPT !.level = IF conf.sleep THEN @ ELSE "full",
                                    !.expected = IF conf.sleep /\ power.dm # "off"
                                                 THEN "off" ELSE @]
    /\ UNCHANGED <<fixed, notPower>>
switchUp(t) ==
    /\ At(t, "switchUp")
    /\ \/ power.dm # "off" /\ Go(t, "isUp") /\ UNCHANGED <<asked, power>>
       \/ /\ power.dm = "off"
          /\ power' = [power EXCEPT !.dm = "unknown", !.expected = "full"]
          /\ \/ Asks(t, "power", <<>>)
             \/ Go(t, "isUp") /\ UNCHANGED asked
    /\ UNCHANGED <<fixed, notPower>>
\* Down, the level is low whatever the stack has answered.
switched(t) ==
    /\ \/ /\ Wakes(t, "switchDown") /\ Go(t, "end")
          /\ power' = [power EXCEPT !.level = "low"]
       \/ /\ Wakes(t, "switchUp") /\ Go(t, "isUp")
          /\ power' = [power EXCEPT !.level = IF power.dm = "full" THEN "full" ELSE @]
    /\ UNCHANGED <<asked, fixed, notPower>>

setMode(t, l, modes, next) ==
    /\ At(t, l) /\ Go(t, next) /\ power' = [power EXCEPT !.modes = modes]
    /\ UNCHANGED <<asked, fixed, notPower>>
\* Mutant: every mode is cleared.
SetModeOffAll(t, l, m) == setMode(t, l, {}, "powerDown")

setModeOff(t, l, m) ==
    setMode(t, l, power.modes \ {m}, IF power.modes \subseteq {m} THEN "powerDown" ELSE "end")

-----------------------------------------------------------------------------
(* NativeSecureElement.cpp and DwpChannel.cpp: open and close *)

Jump(t, l, ok) == With(t, l, ok) /\ UNCHANGED <<asked, fixed, state>>

open ==
    /\ se.mIsInit /\ ~opened
    /\ Begin("service", "open", "eSE", IF se.listen THEN "end" ELSE "powerUp")
    /\ UNCHANGED state
openIsUp(t) ==
    /\ Op(t) = "open"
    /\ setMode(t, "isUp", power.modes \cup {"SE_CONNECTED"},
               IF se.piping THEN "connect" ELSE "activate")

\* IsWiredMode_Enable: the mode that the stack has now, not the cached one
loaderOpen ==
    /\ se.mIsInit /\ chip.mode["eSE"] \in {"active", "inactive"}
    /\ Begin("service", "loader", "eSE",
             IF chip.mode["eSE"] = "inactive" THEN "wire"
             ELSE IF se.piping THEN "connect" ELSE "activate")
    /\ UNCHANGED state

\* SecEle_Modeset, alone or twice in doeSE_Reset
ModesetPoint == [wire |-> [mode |-> "active", next |-> "wired"],
                 reset0 |-> [mode |-> "inactive", next |-> "reset1"],
                 reset1 |-> [mode |-> "active", next |-> "end"]]
SecEle_Modeset(t) ==
    /\ \E l \in DOMAIN ModesetPoint :
           \/ Request(t, l, "mode", <<"eSE", ModesetPoint[l].mode>>)
           \/ Refused(t, l, ModesetPoint[l].next)
    /\ UNCHANGED <<fixed, state>>
modesetDone(t) ==
    /\ \E l \in DOMAIN ModesetPoint : Wakes(t, l) /\ Go(t, ModesetPoint[l].next)
    /\ UNCHANGED <<asked, fixed, state>>
loaderWired(t) ==
    At(t, "wired") /\ Jump(t, IF se.piping THEN "connect" ELSE "activate", TRUE)
doeSE_Reset == se.mIsInit /\ Begin("service", "reset", "eSE", "reset0") /\ UNCHANGED state

\* After activate, and after connectEE
goOnActivated(t) ==
    /\ At(t, "activated") /\ Op(t) \in {"open", "loader"}
    /\ IF Call(t).ok THEN Jump(t, "connect", TRUE)
       ELSE Jump(t, IF Op(t) = "open" THEN "unmode" ELSE "end", FALSE)
goOnConnected(t) ==
    /\ At(t, "connected")
    /\ IF Call(t).ok THEN Go(t, "end") ELSE Deactivate(t, None, FALSE)
    /\ opened' = (opened \/ (Call(t).ok /\ Op(t) = "open"))
    /\ UNCHANGED <<asked, fixed, chip, se, timer, power, manager>>

\* The handle of the connection is not an id that maps to an element; the
\* downloader gives the id.  No event to the element, no disconnection.
close ==
    /\ opened /\ opened' = FALSE
    /\ Begin("service", "close", None, IF se.hci THEN "endApdu" ELSE "end")
    /\ UNCHANGED <<chip, se, timer, power, manager>>
loaderClose ==
    /\ se.mIsInit
    /\ Begin("service", "loaderClose", "eSE", IF se.hci THEN "endApdu" ELSE "end")
    /\ UNCHANGED state
endOfApduTransfer(t) ==
    At(t, "endApdu") /\ \E ok \in BOOLEAN : Jump(t, IF ok THEN "warm" ELSE "end", ok)

goOnDisconnected(t) ==
    /\ At(t, "disconnected")
    /\ IF Op(t) \in {"open", "loader"} THEN With(t, "connected", FALSE)
       ELSE IF se.piping THEN With(t, "deactivated", TRUE)
       ELSE Deactivate(t, Call(t).h, TRUE)
    /\ UNCHANGED <<asked, fixed, state>>
goOnDeactivated(t) ==
    /\ At(t, "deactivated") /\ Op(t) # "deselect"
    /\ Jump(t, IF Op(t) \in {"open", "close"} THEN "unmode" ELSE "end", Call(t).ok)
unmode(t) == setModeOff(t, "unmode", "SE_CONNECTED")

returns(t) ==
    /\ At(t, "end") /\ End(t) /\ UNCHANGED <<asked, fixed, state>>

-----------------------------------------------------------------------------
(* doSelectSecureElement and doDeselectSecureElement, with routing to the host *)

\* Mutant: the selected elements are not compared with those detected.
SelectAgain ==
    \E s \in Handles :
        se.mIsInit /\ Begin("service", "select", s, "powerUp") /\ UNCHANGED state

select ==
    \E s \in Handles :
        /\ se.mIsInit /\ manager.selected < Cardinality(Handles)
        /\ Begin("service", "select", s, "powerUp") /\ UNCHANGED state
selectIsUp(t) ==
    /\ Op(t) = "select" /\ At(t, "isUp")
    /\ Jump(t, IF manager.rf THEN "rfOff" ELSE "rfIsOff", TRUE)
selectRfIsOff(t) == At(t, "rfIsOff") /\ Op(t) = "select" /\ Jump(t, "activate", TRUE)
selectActivated(t) ==
    /\ At(t, "activated") /\ Op(t) = "select" /\ Go(t, "rfOn")
    /\ manager' = [manager EXCEPT !.selected = IF Call(t).ok THEN @ + 1 ELSE @]
    /\ UNCHANGED <<asked, fixed, chip, se, timer, power, opened>>
selectRfIsOn(t) ==
    /\ Op(t) = "select"
    /\ setMode(t, "rfIsOn", power.modes \cup {"SE_ROUTING"}, "end")

deselect ==
    \E s \in Handles :
        /\ se.mIsInit /\ manager.selected > 0
        /\ Begin("service", "deselect", s,
                 IF power.level = "low" THEN "unroute"
                 ELSE IF manager.rf THEN "rfOff" ELSE "rfIsOff")
        /\ manager' = [manager EXCEPT !.selected = IF power.level = "low" THEN @ - 1 ELSE @]
        /\ UNCHANGED <<chip, se, timer, power, opened>>
deselectRfIsOff(t) ==
    /\ At(t, "rfIsOff") /\ Op(t) = "deselect"
    /\ Jump(t, IF se.piping THEN "deactivated" ELSE "deactivate", FALSE)
deselectDeactivated(t) ==
    /\ At(t, "deactivated") /\ Op(t) = "deselect"
    /\ manager' = [manager EXCEPT !.selected = IF Call(t).ok THEN @ - 1 ELSE @]
    /\ Go(t, IF Call(t).rf THEN "rfOn" ELSE "unroute")
    /\ UNCHANGED <<asked, fixed, chip, se, timer, power, opened>>
deselectRfIsOn(t) ==
    At(t, "rfIsOn") /\ Op(t) = "deselect" /\ Jump(t, "unroute", TRUE)
unroute(t) == setModeOff(t, "unroute", "SE_ROUTING")

-----------------------------------------------------------------------------
(* getAtr and transceive *)

getAtr == opened /\ Begin("service", "getAtr", "eSE", "atr") /\ UNCHANGED state
getRegistry(t) ==
    /\ \/ se.hci /\ Request(t, "atr", "atr", <<>>)
       \/ Refused(t, "atr", "end")
    /\ UNCHANGED <<fixed, state>>
\* mGetAtrRspwait is set only after the request
atrSleeps(t) ==
    /\ thread[t].pc = "atr" /\ Sleeps(t) /\ se' = [se EXCEPT !.atrWait = TRUE]
    /\ UNCHANGED <<asked, fixed, notSe>>
atrDone(t) ==
    Wakes(t, "atr") /\ Go(t, "end") /\ UNCHANGED <<asked, fixed, state>>

transceive ==
    /\ opened /\ Begin("client", "transceive", "eSE", "send")
    /\ se' = [se EXCEPT !.waitOk = FALSE, !.told = FALSE]
    /\ UNCHANGED notSe
sendEvent(t) ==
    /\ \/ se.hci /\ Request(t, "send", "transceive", <<se.pipe, Call(t).n>>)
       \/ Fails(t, "send", "end")
    /\ UNCHANGED <<fixed, state>>
transceiveSleeps(t) ==
    /\ thread[t].pc = "send" /\ Sleeps(t)
    /\ timer' = [timer EXCEPT !.armed = TRUE]
    /\ UNCHANGED <<asked, fixed, chip, se, power, manager, opened>>
\* Mutant: whoever wakes the sleeper, the exchange counts as done.
TransceiveDoneUnchecked(t) ==
    Wakes(t, "send") /\ With(t, "end", TRUE) /\ UNCHANGED <<asked, fixed, state>>

transceiveDone(t) ==
    Wakes(t, "send") /\ With(t, "end", se.waitOk) /\ UNCHANGED <<asked, fixed, state>>

\* The other requests sleep with nothing more to do.
sleeps(t) ==
    /\ thread[t].pc \notin {"atr", "send"} /\ Sleeps(t)
    /\ UNCHANGED <<asked, fixed, state>>

\* The timer starts its thread, which kill() stops no more.
timerExpires ==
    /\ timer.armed /\ timer' = [armed |-> FALSE, fires |-> TRUE]
    /\ UNCHANGED <<thread, asked, fixed, chip, se, power, manager, opened>>
transceiveTimerProc ==
    /\ timer.fires /\ timer' = [timer EXCEPT !.fires = FALSE]
    /\ Notify("transceive") /\ se' = [se EXCEPT !.waitOk = FALSE]
    /\ UNCHANGED <<asked, fixed, chip, power, manager, opened>>

-----------------------------------------------------------------------------
(* The callbacks *)

\* Mutant: the cached status is toggled, as in the build without the PN547.
NotifyModeSetToggles ==
    \E r \in Requests("mode"), ok \in BOOLEAN :
        /\ Answers(r)
        /\ IF ~ok THEN UNCHANGED <<chip, se>>
           ELSE /\ chip' = [chip EXCEPT !.mode[r.what[1]] = r.what[2]]
                /\ se' = [se EXCEPT !.ee[r.what[1]] =
                              IF @ = None THEN @ ELSE IF @ = "active" THEN "inactive"
                              ELSE "active"]
        /\ UNCHANGED <<fixed, timer, power, manager, opened>>

\* notifyModeSet: the status that the stack reports, for any element
notifyModeSet ==
    \E r \in Requests("mode"), ok \in BOOLEAN :
        /\ Answers(r)
        /\ IF ~ok THEN UNCHANGED <<chip, se>>
           ELSE /\ chip' = [chip EXCEPT !.mode[r.what[1]] = r.what[2]]
                /\ se' = [se EXCEPT !.ee[r.what[1]] = IF @ = None THEN @ ELSE r.what[2]]
        /\ UNCHANGED <<fixed, timer, power, manager, opened>>

\* nfaHciCallback for the answers to connectEE and disconnectEE; a found gate
\* comes with its pipe; a created pipe counts only for gate 0xF0.
hciAnswer(r, ok) ==
    CASE r.ev = "register" -> [se EXCEPT !.hci = ok]
      [] r.ev = "gates" -> IF ok THEN [se EXCEPT !.gate = TRUE, !.pipe = conf.created] ELSE se
      [] r.ev = "alloc" -> [se EXCEPT !.ok = ok, !.gate = ok]
      [] r.ev = "create" -> [se EXCEPT !.ok = ok, !.pipe = IF conf.created = None THEN @
                                                          ELSE conf.created]
      [] r.ev = "open" -> [se EXCEPT !.ok = ok]
      [] OTHER -> se
hciEvents == {"register", "gates", "alloc", "create", "open", "registry", "dealloc"}
nfaHciCallback ==
    \E r \in asked, ok \in BOOLEAN :
        /\ r.ev \in hciEvents /\ Answers(r) /\ se' = hciAnswer(r, ok)
        /\ UNCHANGED <<fixed, notSe>>

\* The answer to getAtr; taken for version information if nobody waits yet.
getRegRsp ==
    \E r \in Requests("atr") :
        /\ IF se.atrWait THEN Answers(r)
           ELSE asked' = asked \ {r} /\ UNCHANGED thread
        /\ se' = [se EXCEPT !.atrWait = FALSE]
        /\ UNCHANGED <<fixed, notSe>>

\* Data on a static pipe; on any other (POST_DATA) only the event is signalled.
eventRcvd ==
    \E r \in Requests("transceive") :
        /\ Answers(r)
        /\ se' = [se EXCEPT !.told = TRUE, !.waitOk = @ \/ r.what[1] = "fixed"]
        /\ timer' = [timer EXCEPT !.armed = @ /\ r.what[1] # "fixed"]
        /\ UNCHANGED <<fixed, chip, power, manager, opened>>
\* NFA_HCI_EVT_WTX
waitingTimeExtension ==
    /\ Requests("transceive") # {} /\ timer' = [timer EXCEPT !.armed = TRUE]
    /\ UNCHANGED <<thread, asked, fixed, chip, se, power, manager, opened>>

rfEvent ==
    /\ \E r \in Requests("rf") : Answers(r)
    /\ UNCHANGED <<fixed, state>>
\* PowerSwitch::deviceManagementCallback
powerModeChange ==
    \E r \in Requests("power"), ok \in BOOLEAN :
        /\ Answers(r)
        /\ power' = IF ok THEN [power EXCEPT !.dm = power.expected] ELSE power
        /\ UNCHANGED <<fixed, notPower>>

\* NFA_ACTIVATED_EVT in listen mode, and NFA_DEACTIVATED_EVT
listenActivated ==
    /\ ~chip.activated /\ se.mIsInit /\ chip.links < MaxLinks
    /\ chip' = [chip EXCEPT !.activated = TRUE, !.links = @ + 1]
    /\ se' = [se EXCEPT !.listen = TRUE]
    /\ UNCHANGED <<thread, asked, fixed, timer, power, manager, opened>>
listenDeactivated ==
    /\ chip.activated /\ chip' = [chip EXCEPT !.activated = FALSE]
    /\ Notify("deactivated") /\ se' = [se EXCEPT !.listen = FALSE]
    /\ UNCHANGED <<asked, fixed, timer, power, manager, opened>>

-----------------------------------------------------------------------------

Calls == initialize \/ finalize \/ open \/ close \/ loaderOpen \/ loaderClose
         \/ doeSE_Reset \/ select \/ deselect \/ getAtr \/ transceive

Step(t) ==
    \/ register(t) \/ registered(t) \/ activate(t) \/ activateDone(t)
    \/ deactivate(t) \/ deactivateDone(t) \/ connectEE(t) \/ addStaticPipe(t)
    \/ getGateAndPipeList(t) \/ gatesDone(t) \/ allocGate(t) \/ createPipe(t)
    \/ openPipe(t) \/ connectRefused(t) \/ connectStep(t)
    \/ warmReset(t) \/ warmResetDone(t) \/ deallocGate(t) \/ deallocDone(t)
    \/ startRfDiscovery(t) \/ rfDone(t)
    \/ setLevel(t) \/ linkIsDown(t) \/ switchDown(t) \/ switchUp(t) \/ switched(t)
    \/ openIsUp(t) \/ SecEle_Modeset(t) \/ modesetDone(t) \/ loaderWired(t)
    \/ goOnActivated(t) \/ goOnConnected(t) \/ endOfApduTransfer(t)
    \/ goOnDisconnected(t) \/ goOnDeactivated(t) \/ unmode(t) \/ returns(t)
    \/ selectIsUp(t) \/ selectRfIsOff(t) \/ selectActivated(t) \/ selectRfIsOn(t)
    \/ deselectRfIsOff(t) \/ deselectDeactivated(t) \/ deselectRfIsOn(t) \/ unroute(t)
    \/ getRegistry(t) \/ atrSleeps(t) \/ atrDone(t)
    \/ sendEvent(t) \/ transceiveSleeps(t) \/ transceiveDone(t) \/ sleeps(t)

Callbacks == notifyModeSet \/ nfaHciCallback \/ getRegRsp \/ eventRcvd
    \/ waitingTimeExtension \/ rfEvent \/ powerModeChange
    \/ listenActivated \/ listenDeactivated
    \/ timerExpires \/ transceiveTimerProc

Next == Calls \/ (\E t \in Threads : Step(t)) \/ Callbacks

Spec == Init /\ [][Next]_vars

-----------------------------------------------------------------------------

Modes == {"active", "inactive"}

\* The state has the types of the fields; a thread that holds or waits for the
\* guard of an event is on one.
TypeOK ==
    /\ \A t \in Threads : thread[t].st \in States /\ Op(t) = None <=> thread[t].pc = "idle"
    /\ chip.mode \in [Handles -> Modes] /\ chip.activated \in BOOLEAN
    /\ se.ee \in [Handles -> Modes \cup {None}] /\ se.active \in Handles \cup {None}
    /\ se.pipe \in Pipes
    /\ power.level \in {"full", "low"} /\ power.dm \in {"full", "off", "unknown"}
    /\ manager.selected \in 0..Cardinality(Handles)

\* A call that sleeps until the stack answers is woken by that answer: there are
\* never more sleepers on an event than answers to come, or, for an exchange of
\* data, than the timer's expiry.  getAtr is left out: its answer is dropped if
\* it comes before mGetAtrRspwait is set.
NoLostWakeUp ==
    /\ Sleepers("transceive") # {} => timer.armed \/ timer.fires
    /\ Sleepers("deactivated") # {} => chip.activated
    /\ \A t \in Threads : LET e == thread[t].ev IN
           e \in hciEvents \cup {"mode", "rf", "power"} =>
               Cardinality(Sleepers(e)) <= Cardinality(Requests(e))

\* The cached status of an element (mEeInfo), by which activate and deactivate
\* decide, is the one of the controller.
CacheIsCurrent == \A s \in Handles : se.ee[s] \in {None, chip.mode[s]}

\* While the service holds a connection the controller may not go to sleep: the
\* mode SE_CONNECTED stays on through the selects, deselects and downloads.
ConnectionKeepsPower == opened => "SE_CONNECTED" \in power.modes

\* transceive reports success only if the element has answered since it began.
SuccessIsAnswered ==
    [][ \A t \in Threads : thread[t].pc = "send" /\ thread'[t].pc = "end" /\ Call(t)'.ok
        => se.told ]_vars

\* Closing the connection turns the element off ("if controller is not routing
\* AND there is no pipe connected, then turn off the sec elem").  It does not:
\* the handle that close passes on is taken for an id that maps to no element.
CloseTurnsOff ==
    At("service", "end") /\ Op("service") = "close" /\ Call("service").ok /\ ~se.piping
        => se.ee["eSE"] # "active"
=============================================================================
