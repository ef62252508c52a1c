---------------------------- MODULE NativeManager ----------------------------
(***************************************************************************)
(* The NCI manager (nci/jni/NativeNfcManager.cpp) with what it drives:     *)
(* discovery, routing (RoutingManager.cpp), the payments during which it   *)
(* puts off requests, the PN544 work-around (Pn544Interop.cpp), the reader *)
(* over SWP (SecureElement.cpp) and the vendor's commands                  *)
(* (NativeNxpFeature.cpp).                                                 *)
(*                                                                         *)
(* A call is a plan, the sequence of its steps still to do; most steps     *)
(* make one request and sleep until its answer.  Seven threads meet:       *)
(*   service    the calls of NfcService, one at a time                     *)
(*   routes     the calls of AidRoutingManager                             *)
(*   payment    enableThread, which does what a payment has put off        *)
(*   tag        pn544InteropStopPolling, by a tag that timed out           *)
(*   interop    its timer's thread, pn544InteropStartPolling               *)
(*   swp        the thread of one event of the reader over SWP, or of its  *)
(*              protection timer                                           *)
(*   factory    the self-tests                                            *)
(* The callbacks of the stack run on the NFA task, which one of them can   *)
(* block.  What the stack has been asked for last is in stack.             *)
(***************************************************************************)
EXTENDS SyncEvent, Sequences

CONSTANTS
    RoleSets,      \* the threads that exist, in each instance, and in each
    MaxCalls,      \* the calls of the service and of AidRoutingManager, and
    MaxEvents,     \* the activations and what else the other threads start on
    Refusing       \* the instances in which the stack refuses requests

ASSUME ThreadsAssumption ==
    /\ Threads = {"service", "routes", "payment", "tag", "interop", "swp", "factory"}
    /\ \A roles \in RoleSets : roles \subseteq Threads
ASSUME BoundsAssumption == {MaxCalls, MaxEvents} \subseteq [RoleSets -> Nat]

\* None is none of the calls, nor of the requests that a payment puts off.
ASSUME NoneAssumption ==
    None \notin {"initialize", "deinitialize", "enableDiscovery", "disableDiscovery",
                 "enableRouting", "disableRouting", "setDefaultRoute", "aid", "readerMode",
                 "payment", "interop", "swp", "prbsOn", "prbsOff", "enable", "disable"}

VARIABLES
    roles,         \* the threads of this instance
    nfc,           \* the flags of NativeNfcManager.cpp
    interop,       \* gMutex, gIsBusy, gAbortNow, gTimer of Pn544Interop.cpp
    payment,       \* transaction_data
    swp,           \* the protection timers of the reader over SWP
    test,          \* a self-test: wstatus, its timer, and the link's real state
    task,          \* what blocks the NFA task
    stack,         \* the stack and the controller
    calls, events, \* how many there were
    wanted         \* history: what the service asked for, and what excuses it

fixed == <<roles, calls, events>>
vars == <<thread, asked, roles, nfc, interop, payment, swp, test, task, stack,
          calls, events, wanted>>

NoPayment == [state |-> "default", progress |-> FALSE, last |-> None]
NoCall == [op |-> None, rest |-> <<>>]

\* What a process starts with.
NoFlags == [enabled |-> FALSE, disabling |-> FALSE, discovery |-> FALSE, rf |-> FALSE,
            hce |-> TRUE, force |-> FALSE, activated |-> FALSE, dirty |-> FALSE,
            reader |-> FALSE]
NoInterop == [mutex |-> None, busy |-> FALSE, abort |-> FALSE, armed |-> FALSE]
NoTimers == [start |-> FALSE, stop |-> FALSE]
NoTest == [status |-> FALSE, asked |-> FALSE, armed |-> FALSE, alive |-> FALSE,
           passed |-> FALSE, shared |-> FALSE]
StackOff == [on |-> FALSE, polling |-> FALSE, rf |-> FALSE, link |-> None,
             route |-> FALSE, reader |-> FALSE]
NothingWanted == [on |-> FALSE, dropped |-> FALSE, overlap |-> FALSE, refused |-> FALSE]

Init ==
    /\ thread = [t \in Threads |-> Idle(NoCall)] /\ asked = {}
    /\ roles \in RoleSets
    /\ nfc = NoFlags /\ interop = NoInterop /\ payment = NoPayment
    /\ swp = NoTimers /\ test = NoTest /\ task = None /\ stack = StackOff
    /\ calls = 0 /\ events = 0 /\ wanted = NothingWanted

-----------------------------------------------------------------------------
(* Plans *)

Working(t) == thread[t].call.op # None

\* The steps of plan, and then what the call has still to do.
Then(t, plan) ==
    LET all == plan \o thread[t].call.rest
    IN IF all = <<>> THEN thread' = [thread EXCEPT ![t] = Idle(NoCall)]
       ELSE GoWith(t, Head(all), [op |-> thread[t].call.op, rest |-> Tail(all)])
Advance(t) == Then(t, <<>>)

Begin(t, op, plan) ==
    /\ t \in roles /\ ~Working(t)
    /\ GoWith(t, Head(plan), [op |-> op, rest |-> Tail(plan)])

Calls(t, op, plan) ==
    /\ calls < MaxCalls[roles] /\ calls' = calls + 1
    /\ Begin(t, op, plan)
    /\ UNCHANGED <<asked, roles, events>>

\* The guard is held from a request to the sleep after it, and nothing of
\* this event happens in between: here they are one step.  A thread that the
\* answer to another has woken may ask for the same once more, which nth tells
\* from the first: each is answered.
SleepsOn(t, e) == thread' = [thread EXCEPT ![t].st = "sleeps", ![t].ev = e]
Request(t, e, what, n) == [ev |-> e, by |-> t, what |-> what, nth |-> n]
Waits(t, e, what) ==
    /\ SleepsOn(t, e)
    /\ LET n == CHOOSE i \in 0..Cardinality(asked) : Request(t, e, what, i) \notin asked
       IN asked' = asked \cup {Request(t, e, what, n)}

\* Once the stack is shut down it takes requests and answers none.
AsksStack(t, e, what) ==
    IF stack.on THEN Waits(t, e, what) ELSE SleepsOn(t, e) /\ UNCHANGED asked

\* A request that is refused costs the call its effect and nothing else.
Refused(t) ==
    /\ roles \in Refusing /\ Advance(t) /\ UNCHANGED <<asked, nfc, stack>>
    /\ wanted' = [wanted EXCEPT !.refused = TRUE]

features == <<interop, payment, swp, test, task>>

-----------------------------------------------------------------------------
(* startRfDiscovery, and the polling requests that share its event *)

Rf == [rfOn |-> TRUE, rfOff |-> FALSE]

InRf(t) == thread[t].pc \in DOMAIN Rf /\ thread[t].st # "runs"

startRfDiscovery(t) ==
    /\ \E l \in DOMAIN Rf : At(t, l) /\
        \/ Refused(t)
        \/ /\ AsksStack(t, "poll", <<l, stack.rf>>)
           /\ stack' = IF stack.on THEN [stack EXCEPT !.rf = Rf[l]] ELSE stack
           /\ wanted' = [wanted EXCEPT !.overlap = @ \/ \E u \in roles : InRf(u)]
           /\ UNCHANGED nfc
    /\ UNCHANGED <<fixed, features>>
\* Mutant: sRfEnabled is set by whoever switches the RF off only.
RfOffRemembered(t) ==
    /\ \E l \in DOMAIN Rf : Wakes(t, l) /\ nfc' = [nfc EXCEPT !.rf = @ /\ Rf[l]]
    /\ Advance(t)
    /\ UNCHANGED <<asked, fixed, features, stack, wanted>>

rfDone(t) ==
    /\ \E l \in DOMAIN Rf : Wakes(t, l) /\ nfc' = [nfc EXCEPT !.rf = Rf[l]]
    /\ Advance(t)
    /\ UNCHANGED <<asked, fixed, features, stack, wanted>>

\* "if (sRfEnabled) startRfDiscovery (false)"
rfOffIfOn(t) ==
    /\ At(t, "rfOffIfOn") /\ Then(t, IF nfc.rf THEN <<"rfOff">> ELSE <<>>)
    /\ UNCHANGED <<asked, fixed, nfc, features, stack, wanted>>

\* NFA_EnablePolling and NFA_DisablePolling.  Those of enableDiscovery and
\* disableDiscovery set sDiscoveryEnabled before the answer.
Polls == [pollOn |-> TRUE, pollOff |-> FALSE, startPolling |-> TRUE, stopPolling |-> FALSE,
          repoll |-> FALSE]

polling(t) ==
    /\ \E l \in DOMAIN Polls : At(t, l) /\
        \/ Refused(t)
        \/ /\ AsksStack(t, "poll", <<l>>)
           /\ stack' = IF stack.on THEN [stack EXCEPT !.polling = Polls[l]] ELSE stack
           /\ nfc' = IF l \in {"pollOn", "pollOff"}
                     THEN [nfc EXCEPT !.discovery = Polls[l]] ELSE nfc
           /\ UNCHANGED wanted
    /\ UNCHANGED <<fixed, features>>
pollingDone(t) ==
    /\ \E l \in DOMAIN Polls :
        Wakes(t, l) /\ Then(t, IF l = "repoll" THEN <<"startPolling">> ELSE <<>>)
    /\ UNCHANGED <<asked, fixed, nfc, features, stack, wanted>>

startStopPolling(start) ==
    <<"rfOff", IF start THEN "startPolling" ELSE "stopPolling", "rfOn">>
restartPollingWithTechMask == <<"rfOff", "repoll", "rfOn">>

-----------------------------------------------------------------------------
(* Steps that ask for one thing and wait *)

\* The event each answer comes on.
EventOf == [p2p |-> "p2p", uicc |-> "uicc", eeRegister |-> "ee", proto |-> "route",
            tech |-> "route", addAid |-> "aid", clearAid |-> "aid", getConfig |-> "getConfig",
            setConfig |-> "setConfig", discMap |-> "map", dhMap |-> "map"]

\* Mutant: a change of the secure elements does not mark the routes.
OnlyAidsNoted(l) == IF l = "addAid" THEN [nfc EXCEPT !.dirty = TRUE] ELSE nfc

\* What the call, and what the stack, remembers of the request.
Noted(l) ==
    CASE l \in {"eeRegister", "addAid"} -> [nfc EXCEPT !.dirty = TRUE]
      [] OTHER -> nfc
Stored(l) ==
    CASE l = "proto" -> [stack EXCEPT !.route = TRUE]
      [] l \in {"discMap", "dhMap"} -> [stack EXCEPT !.reader = l = "discMap"]
      [] OTHER -> stack

requests(t) ==
    /\ \E l \in DOMAIN EventOf : At(t, l) /\
        \/ /\ AsksStack(t, EventOf[l], <<l>>)
           /\ nfc' = Noted(l) /\ stack' = IF stack.on THEN Stored(l) ELSE stack
           /\ UNCHANGED wanted
        \/ l \notin {"discMap", "dhMap", "clearAid"} /\ Refused(t)
        \/ /\ l = "clearAid" /\ Advance(t) /\ nfc' = [nfc EXCEPT !.dirty = TRUE]
           /\ UNCHANGED <<asked, stack, wanted>>
    /\ UNCHANGED <<fixed, features>>
requestDone(t) ==
    /\ \E l \in DOMAIN EventOf :
        /\ Wakes(t, l) /\ nfc' = IF l = "clearAid" THEN [nfc EXCEPT !.dirty = TRUE] ELSE nfc
    /\ Advance(t)
    /\ UNCHANGED <<asked, fixed, features, stack, wanted>>

\* setLevel(LOW_POWER) with the screen-off power that the .conf leaves on
PowerLow(t) ==
    /\ At(t, "powerLow")
    /\ IF nfc.activated THEN SleepsOn(t, "deactivated") ELSE Advance(t)
    /\ UNCHANGED <<asked, fixed, nfc, features, stack, wanted>>
linkIsDown(t) ==
    /\ Wakes(t, "powerLow") /\ Advance(t)
    /\ UNCHANGED <<asked, fixed, nfc, features, stack, wanted>>

-----------------------------------------------------------------------------
(* Discovery *)

\* A payment puts the request off; enableThread takes it up.
PutOff(t, request) ==
    /\ payment.progress
    /\ payment' = [payment EXCEPT !.last = request] /\ Advance(t)

\* What the service wants, and whether enableThread may miss it.
Wants(t, on) ==
    wanted' = IF t = "payment" THEN [wanted EXCEPT !.dropped = @ \/ payment.progress]
              ELSE [wanted EXCEPT !.on = on, !.dropped = @ \/ Working("payment")]

enableDiscovery(t) ==
    /\ At(t, "enableDiscovery") /\ Wants(t, TRUE)
    /\ \/ PutOff(t, "enable")
       \/ /\ ~payment.progress /\ UNCHANGED payment
          /\ Then(t, IF nfc.discovery /\ ~nfc.force THEN <<>>
                     ELSE <<"rfOffIfOn", "vendor", "p2p", "pollOn", "listen", "rfOn",
                            "discovered">>)
    /\ UNCHANGED <<asked, fixed, nfc, interop, swp, test, task, stack>>
listen(t) ==
    /\ At(t, "listen") /\ Then(t, IF nfc.discovery THEN <<"p2p", "uicc", "uicc">> ELSE <<>>)
    /\ UNCHANGED <<asked, fixed, nfc, features, stack, wanted>>
discovered(t) ==
    /\ At(t, "discovered") /\ Advance(t) /\ nfc' = [nfc EXCEPT !.force = FALSE]
    /\ UNCHANGED <<asked, fixed, features, stack, wanted>>

disableDiscovery(t) ==
    /\ At(t, "disableDiscovery") /\ Wants(t, FALSE)
    /\ \/ PutOff(t, "disable")
       \/ /\ ~payment.progress /\ UNCHANGED payment
          /\ Then(t, <<"abortInterop", "stopDiscovery">>)
    /\ UNCHANGED <<asked, fixed, nfc, interop, swp, test, task, stack>>
stopDiscovery(t) ==
    /\ At(t, "stopDiscovery")
    /\ Then(t, IF ~nfc.discovery THEN <<>>
               ELSE <<"rfOff", "stillPolling", "p2p", "vendor", "listenOff", "rfOn",
                      "modeOff">>)
    /\ UNCHANGED <<asked, fixed, nfc, features, stack, wanted>>
\* sDiscoveryEnabled is read again after the RF is off.
stillPolling(t) ==
    /\ At(t, "stillPolling") /\ Then(t, IF nfc.discovery THEN <<"pollOff">> ELSE <<>>)
    /\ UNCHANGED <<asked, fixed, nfc, features, stack, wanted>>
\* Secure elements may be selected, and then listen with the screen off; they
\* also keep the controller from sleeping.
listenOff(t) ==
    /\ \/ At(t, "listenOff") /\ \/ Advance(t)
                                \/ ~nfc.hce /\ Then(t, <<"uicc", "uicc", "p2p">>)
       \/ At(t, "modeOff") /\ (Advance(t) \/ Then(t, <<"powerLow">>))
    /\ UNCHANGED <<asked, fixed, nfc, features, stack, wanted>>

-----------------------------------------------------------------------------
(* Routing *)

enableRoutingToHost ==
    /\ nfc.enabled /\ Calls("service", "enableRouting", <<"rfOffIfOn", "setRouting", "hceOn", "rfOn">>)
    /\ UNCHANGED <<nfc, features, stack, wanted>>
disableRoutingToHost ==
    /\ nfc.enabled
    /\ Calls("service", "disableRouting",
             (IF nfc.rf THEN <<"rfOff", "setRouting", "hceOff", "rfOn">>
              ELSE <<"setRouting", "hceOff">>) \o <<"modeOff">>)
    /\ UNCHANGED <<nfc, features, stack, wanted>>
routed(t) ==
    /\ \E on \in BOOLEAN :
        /\ At(t, IF on THEN "hceOn" ELSE "hceOff")
        /\ nfc' = [nfc EXCEPT !.hce = on, !.force = @ \/ nfc.hce # on]
    /\ Advance(t)
    /\ UNCHANGED <<asked, fixed, features, stack, wanted>>

\* RoutingManager::setRouting
setRouting(t) ==
    /\ At(t, "setRouting") /\ nfc' = [nfc EXCEPT !.dirty = FALSE]
    /\ Then(t, IF nfc.dirty THEN <<"proto", "tech", "uicc">> ELSE <<>>)
    /\ UNCHANGED <<asked, fixed, features, stack, wanted>>

routes ==
    /\ nfc.enabled
    /\ \/ \E l \in {"addAid", "clearAid"} : Calls("routes", "aid", <<l>>)
       \/ \E l \in {"tech", "proto"} : Calls("service", "setDefaultRoute", <<"rfOffIfOn", l, "rfOn">>)
    /\ UNCHANGED <<nfc, features, stack, wanted>>

-----------------------------------------------------------------------------
(* Switching NFC on and off *)

doInitialize ==
    /\ Calls("service", "initialize", <<IF nfc.enabled THEN "powerLow" ELSE "enable">>)
    /\ UNCHANGED <<nfc, features, stack, wanted>>
enable(t) ==
    /\ At(t, "enable") /\ stack' = [stack EXCEPT !.on = TRUE] /\ Waits(t, "enable", <<>>)
    /\ UNCHANGED <<fixed, nfc, features, wanted>>

\* setListenMode, then RoutingManager::initialize, HciRFParams::initialize and
\* checkforNfceeConfig.
SetListenMode == <<"rfOffIfOn", "rfOn">>
enabled(t) ==
    /\ Wakes(t, "enable")
    /\ IF nfc.enabled
       THEN /\ Then(t, SetListenMode \o <<"eeRegister", "nfcee", "venConfig", "powerLow">>)
            /\ UNCHANGED stack
       ELSE Then(t, <<>>) /\ stack' = [stack EXCEPT !.on = FALSE]
    /\ UNCHANGED <<asked, fixed, nfc, features, wanted>>
checkforNfceeConfig(t) ==
    /\ At(t, "nfcee") /\ (Advance(t) \/ Then(t, <<"getConfig", "nfcee">>))
    /\ UNCHANGED <<asked, fixed, nfc, features, stack, wanted>>

\* SetVenConfigValue, when the power is to go or has come
VenConfig(t) ==
    /\ At(t, "venConfig") /\ (Advance(t) \/ (nfc.enabled /\ Then(t, <<"vendor">>)))
    /\ UNCHANGED <<asked, fixed, nfc, features, stack, wanted>>

doDeinitialize ==
    /\ Calls("service", "deinitialize", <<"abortInterop", "rfOff", "venConfig", "disable", "unblock">>)
    /\ nfc' = [nfc EXCEPT !.disabling = TRUE]
    /\ UNCHANGED <<features, stack, wanted>>
disable(t) ==
    /\ At(t, "disable")
    /\ IF nfc.enabled THEN Waits(t, "disable", <<>>) \/ (Advance(t) /\ UNCHANGED asked)
       ELSE Advance(t) /\ UNCHANGED asked
    /\ UNCHANGED <<fixed, nfc, features, stack, wanted>>
disabled(t) ==
    /\ Wakes(t, "disable") /\ Advance(t)
    /\ UNCHANGED <<asked, fixed, nfc, features, stack, wanted>>
\* One sleeper on the polling event is woken, whoever it is.
unblock(t) ==
    /\ At(t, "unblock")
    /\ nfc' = [nfc EXCEPT !.enabled = FALSE, !.discovery = FALSE, !.disabling = FALSE,
                          !.activated = FALSE]
    /\ LET finalizes == [Idle(thread[t].call) EXCEPT !.pc = "finalize"]
       IN IF Sleepers("poll") = {} THEN thread' = [thread EXCEPT ![t] = finalizes]
          ELSE \E u \in Sleepers("poll") :
                  thread' = [thread EXCEPT ![u].st = "woken", ![t] = finalizes]
    /\ wanted' = [wanted EXCEPT !.on = FALSE, !.dropped = @ \/ payment.last # None]
    /\ UNCHANGED <<asked, fixed, features, stack>>
\* NfcAdaptation::Finalize ends the stack's tasks and what they had to answer.
finalize(t) ==
    /\ At(t, "finalize") /\ Advance(t) /\ asked' = {} /\ task' = None
    /\ stack' = StackOff
    /\ UNCHANGED <<fixed, nfc, interop, payment, swp, test, wanted>>

\* nfcManager_doEnableReaderMode and DisableReaderMode
ReaderMode(on) ==
    /\ nfc.discovery
    /\ Calls("service", "readerMode", <<"p2p", "lptd">> \o restartPollingWithTechMask)
    /\ nfc' = [nfc EXCEPT !.reader = on]
    /\ UNCHANGED <<features, stack, wanted>>
enableDisableLptd(t) ==
    /\ At(t, "lptd")
    /\ \E plan \in {<<>>, <<"getConfig">>, <<"setConfig">>, <<"getConfig", "setConfig">>} :
           Then(t, plan)
    /\ UNCHANGED <<asked, fixed, nfc, features, stack, wanted>>

serviceCalls ==
    /\ \E l \in {"enableDiscovery", "disableDiscovery"} : Calls("service", l, <<l>>)
    /\ nfc.enabled
    /\ UNCHANGED <<nfc, features, stack, wanted>>

-----------------------------------------------------------------------------
(* Pn544Interop.cpp: with gMutex, polling stops for a second *)

HasMutex(t) == interop.mutex = t

\* pn544InteropStopPolling, when NDEF detection on the tag times out
interopStop ==
    /\ nfc.activated /\ stack.link = "tag" /\ Begin("tag", "interop", <<"lockStop">>)
    /\ UNCHANGED <<asked, fixed, nfc, features, stack, wanted>>
interopLocked ==
    /\ At("tag", "lockStop") /\ HasMutex(None)
    /\ interop' = [interop EXCEPT !.mutex = "tag", !.armed = FALSE]
    /\ Then("tag", startStopPolling(FALSE) \o <<"setTimer">>)
    /\ UNCHANGED <<asked, fixed, nfc, payment, swp, test, task, stack, wanted>>
\* Mutant: the timer is set only for an idle tag.
InteropStoppedIdle ==
    /\ At("tag", "setTimer") /\ Advance("tag")
    /\ interop' = [mutex |-> None, busy |-> TRUE, abort |-> FALSE, armed |-> stack.link = None]
    /\ UNCHANGED <<asked, fixed, nfc, payment, swp, test, task, stack, wanted>>

interopStopped ==
    /\ At("tag", "setTimer") /\ Advance("tag")
    /\ interop' = [mutex |-> None, busy |-> TRUE, abort |-> FALSE, armed |-> TRUE]
    /\ UNCHANGED <<asked, fixed, nfc, payment, swp, test, task, stack, wanted>>

interopTimer ==
    /\ interop.armed /\ Begin("interop", "interop", <<"lockStart">>)
    /\ interop' = [interop EXCEPT !.armed = FALSE]
    /\ UNCHANGED <<asked, fixed, nfc, payment, swp, test, task, stack, wanted>>
pn544InteropStartPolling ==
    /\ At("interop", "lockStart") /\ HasMutex(None)
    /\ \/ /\ interop.abort /\ Advance("interop")
          /\ interop' = [interop EXCEPT !.busy = FALSE]
       \/ /\ ~interop.abort /\ stack.link = None
          /\ interop' = [interop EXCEPT !.mutex = "interop"]
          /\ Then("interop", startStopPolling(TRUE) \o <<"restored">>)
       \/ /\ ~interop.abort /\ stack.link # None /\ Advance("interop")
          /\ interop' = [interop EXCEPT !.armed = TRUE]
    /\ UNCHANGED <<asked, fixed, nfc, payment, swp, test, task, stack, wanted>>
interopStarted ==
    /\ At("interop", "restored") /\ Advance("interop")
    /\ interop' = [interop EXCEPT !.mutex = None, !.busy = FALSE]
    /\ UNCHANGED <<asked, fixed, nfc, payment, swp, test, task, stack, wanted>>

pn544InteropAbortNow(t) ==
    /\ At(t, "abortInterop") /\ HasMutex(None) /\ Advance(t)
    /\ interop' = [interop EXCEPT !.abort = TRUE]
    /\ UNCHANGED <<asked, fixed, nfc, payment, swp, test, task, stack, wanted>>

-----------------------------------------------------------------------------
(* The reader over SWP: handleEEReaderEvent *)

ReaderRequested == <<"rfOffIfOn", "discMap", "p2p", "uicc", "uicc", "p2p", "stopPolling",
                     "startPolling", "rfOn", "notifyRequested">>
ReaderStop == <<"rfOff", "dhMap", "uicc", "p2p", "stopPolling">>
              \o startStopPolling(TRUE) \o <<"notifyStop">>

\* The callback starts a thread for either event of the secure element.
eeReaderEvent ==
    /\ stack.on /\ task = None /\ events < MaxEvents[roles] /\ events' = events + 1
    /\ \E plan \in {ReaderRequested, ReaderStop} : Begin("swp", "swp", plan)
    /\ UNCHANGED <<asked, roles, calls, nfc, features, stack, wanted>>
\* Mutant: the protection timer stops the reader only while discovery is on.
ReaderProcWithDiscovery ==
    /\ \/ swp.start /\ swp' = [swp EXCEPT !.start = FALSE]
       \/ swp.stop /\ swp' = [swp EXCEPT !.stop = FALSE]
    /\ IF nfc.discovery THEN Begin("swp", "swp", ReaderStop) ELSE UNCHANGED thread
    /\ UNCHANGED <<asked, fixed, nfc, interop, payment, test, task, stack, wanted>>

\* The protection time is over.
startStopSwpReaderProc ==
    /\ \/ swp.start /\ swp' = [swp EXCEPT !.start = FALSE]
       \/ swp.stop /\ swp' = [swp EXCEPT !.stop = FALSE]
    /\ Begin("swp", "swp", ReaderStop)
    /\ UNCHANGED <<asked, fixed, nfc, interop, payment, test, task, stack, wanted>>
\* NFC_DiscoveryMap is refused: the thread gives up with the RF off.
mapRefused ==
    /\ (At("swp", "discMap") \/ At("swp", "dhMap"))
    /\ thread' = [thread EXCEPT !["swp"] = Idle(NoCall)]
    /\ wanted' = [wanted EXCEPT !.refused = TRUE]
    /\ UNCHANGED <<asked, fixed, nfc, features, stack>>
\* notifyEEReaderEvent sets and kills the timers.
notifyEEReaderEvent ==
    /\ \/ At("swp", "notifyRequested") /\ swp' = [swp EXCEPT !.start = TRUE]
       \/ At("swp", "notifyStop") /\ swp' = [swp EXCEPT !.stop = FALSE]
    /\ Advance("swp")
    /\ UNCHANGED <<asked, fixed, nfc, interop, payment, test, task, stack, wanted>>

-----------------------------------------------------------------------------
(* The vendor's commands, all of which share wstatus and one event, and the *)
(* self-tests, which are made of them                                       *)

\* SetCbStatus (NFA_STATUS_FAILED), before the guard
SetCbStatus(t) ==
    /\ At(t, "vendor") /\ Go(t, "send") /\ test' = [test EXCEPT !.status = FALSE]
    /\ UNCHANGED <<asked, fixed, nfc, interop, payment, swp, task, stack, wanted>>
\* A self-test goes no further than the first of its commands that fails.
Outcome(t) ==
    IF t = "factory" /\ ~test.status THEN thread' = [thread EXCEPT ![t] = Idle(NoCall)]
    ELSE Advance(t)
SendNxpNciCommand(t) ==
    /\ At(t, "send")
    /\ AsksStack(t, "vendor", <<>>) \/ (Outcome(t) /\ UNCHANGED asked)
    /\ UNCHANGED <<fixed, nfc, features, stack, wanted>>
vendorDone(t) ==
    /\ Wakes(t, "send") /\ Outcome(t)
    /\ UNCHANGED <<asked, fixed, nfc, features, stack, wanted>>

\* The answer, to whichever thread; test.shared notes one to another thread, or
\* that an earlier test has left one to come.
NxpResponse_Cb ==
    /\ task = None
    /\ \E r \in Requests("vendor"), ok \in BOOLEAN :
        /\ Answers(r)
        /\ test' = [test EXCEPT !.status = ok,
                               !.shared = @ \/ (r.by # "factory" /\ Working("factory"))]
    /\ UNCHANGED <<fixed, nfc, interop, payment, swp, task, stack, wanted>>

SelfTests ==
    [prbsOn |-> <<"vendor">>, prbsOff |-> <<"vendor", "vendor", "vendor">>,
     swp |-> <<"vendor", "vendor", "vendor", "registers", "vendor", "arm", "notification">>]

\* The power cycle that starts doPrbsOff changes nothing here.
Nxp_SelfTest ==
    /\ nfc.enabled /\ ~nfc.discovery /\ events < MaxEvents[roles] /\ events' = events + 1
    /\ \E op \in DOMAIN SelfTests : Begin("factory", op, SelfTests[op])
    /\ test' = [NoTest EXCEPT !.status = test.status,
                              !.shared = \E r \in Requests("vendor") : r.by = "factory"]
    /\ UNCHANGED <<asked, roles, calls, nfc, interop, payment, swp, task, stack, wanted>>
\* NFA_RegVSCback, and later nfaNxpSelfTestNtfTimer.set
prepares ==
    /\ \/ At("factory", "registers") /\ test' = [test EXCEPT !.asked = TRUE]
       \/ At("factory", "arm") /\ test' = [test EXCEPT !.armed = TRUE]
    /\ Advance("factory")
    /\ UNCHANGED <<asked, fixed, nfc, interop, payment, swp, task, stack, wanted>>
awaits ==
    /\ At("factory", "notification") /\ SleepsOn("factory", "ntf")
    /\ UNCHANGED <<asked, fixed, nfc, features, stack, wanted>>

nfaNxpSelfTestNtfCallback ==
    /\ task = None /\ test.asked /\ Notify("ntf")
    /\ \E ok \in BOOLEAN : test' = [test EXCEPT !.status = ok, !.alive = ok]
    /\ UNCHANGED <<asked, fixed, nfc, interop, payment, swp, task, stack, wanted>>
\* Mutant: the time-out only wakes the test.
TimerOnlyWakes ==
    /\ test.armed /\ Notify("ntf") /\ test' = [test EXCEPT !.armed = FALSE]
    /\ UNCHANGED <<asked, fixed, nfc, interop, payment, swp, task, stack, wanted>>

nfaNxpSelfTestNtfTimerCb ==
    /\ test.armed /\ Notify("ntf")
    /\ test' = [test EXCEPT !.armed = FALSE, !.status = FALSE]
    /\ UNCHANGED <<asked, fixed, nfc, interop, payment, swp, task, stack, wanted>>
SWPSelfTest ==
    /\ Wakes("factory", "notification") /\ Advance("factory")
    /\ test' = [test EXCEPT !.passed = test.status, !.asked = FALSE, !.armed = FALSE]
    /\ UNCHANGED <<asked, fixed, nfc, interop, payment, swp, task, stack, wanted>>

-----------------------------------------------------------------------------
(* Callbacks of the stack, on the NFA task *)

NfaTask == task = None /\ stack.on
Pending == {r.what : r \in asked}

\* The RF stops when there is no link, which the stack drops by itself.
nfaDone ==
    /\ NfaTask
    /\ \E r \in asked :
        /\ r.ev \notin {"vendor", "enable", "disable"} /\ Answers(r)
        /\ r.what \in {<<"rfOff", on>> : on \in BOOLEAN} => stack.link = None
    /\ UNCHANGED <<fixed, nfc, features, stack, wanted>>
NFA_DM_ENABLE_EVT ==
    /\ NfaTask /\ \E r \in Requests("enable") : Answers(r)
    /\ \E ok \in BOOLEAN : nfc' = [nfc EXCEPT !.enabled = ok, !.disabling = FALSE]
    /\ UNCHANGED <<fixed, features, stack, wanted>>
NFA_DM_DISABLE_EVT ==
    /\ NfaTask /\ \E r \in Requests("disable") : Answers(r)
    /\ nfc' = [nfc EXCEPT !.enabled = FALSE, !.disabling = FALSE]
    /\ UNCHANGED <<fixed, features, stack, wanted>>

\* Something is found until the RF has stopped, and once it has started.
Found ==
    IF stack.rf THEN <<"rfOn", FALSE>> \notin Pending ELSE <<"rfOff", TRUE>> \in Pending

\* A tag or a card emulated takes gMutex on the way; reader stands for what
\* the secure element reads, p2p for a peer.  payment.state is kept where the
\* RF field, which reads it, is.
NFA_ACTIVATED_EVT ==
    /\ NfaTask /\ stack.link = None /\ Found
    /\ \E kind \in {"tag", "p2p", "listen", "reader"} :
        /\ \/ kind = "reader" /\ stack.reader /\ UNCHANGED events
           \/ kind # "reader" /\ events < MaxEvents[roles] /\ events' = events + 1
        /\ kind \in {"tag", "p2p"} => stack.polling
        /\ stack' = [stack EXCEPT !.link = kind]
        /\ payment' = IF kind \in {"listen", "reader"} /\ "payment" \in roles
                      THEN [payment EXCEPT !.state = "activated"] ELSE payment
        /\ swp' = IF kind = "reader" THEN [start |-> FALSE, stop |-> TRUE] ELSE swp
        /\ LET known == kind # "reader" /\ nfc.enabled /\ ~nfc.disabling
           IN /\ nfc' = IF known THEN [nfc EXCEPT !.activated = TRUE] ELSE nfc
              /\ task' = IF known /\ kind # "p2p" /\ ~HasMutex(None) THEN "gMutex" ELSE None
    /\ UNCHANGED <<thread, asked, roles, calls, interop, test, wanted>>
pn544InteropIsBusy ==
    /\ task = "gMutex" /\ HasMutex(None) /\ task' = None
    /\ UNCHANGED <<thread, asked, fixed, nfc, interop, payment, swp, test, stack, wanted>>
NFA_DEACTIVATED_EVT ==
    /\ NfaTask /\ stack.link # None /\ Notify("deactivated")
    /\ stack' = [stack EXCEPT !.link = None] /\ nfc' = [nfc EXCEPT !.activated = FALSE]
    /\ UNCHANGED <<asked, fixed, features, wanted>>

\* The process aborts and is started again.
NFA_DM_NFCC_TRANSPORT_ERR_EVT ==
    /\ NfaTask
    /\ thread' = [t \in Threads |-> Idle(NoCall)] /\ asked' = {}
    /\ nfc' = NoFlags /\ interop' = NoInterop /\ payment' = NoPayment
    /\ swp' = NoTimers /\ test' = NoTest /\ task' = None /\ stack' = StackOff
    /\ wanted' = NothingWanted
    /\ UNCHANGED fixed

-----------------------------------------------------------------------------
(* checkforTranscation: a payment, seen from the RF field *)

\* What was put off is lost with the rest.
ResetPayment ==
    /\ payment' = NoPayment
    /\ wanted' = [wanted EXCEPT !.dropped = @ \/ payment.last # None]

NFA_EE_ACTION_EVT ==
    /\ NfaTask /\ "payment" \in roles /\ payment.state = "activated"
    /\ payment' = [payment EXCEPT !.state = "eeAction"]
    /\ UNCHANGED <<thread, asked, fixed, nfc, interop, swp, test, task, stack, wanted>>
NFA_DM_RF_FIELD_EVT ==
    /\ NfaTask /\ "payment" \in roles
    /\ \/ /\ payment.state = "eeAction" /\ UNCHANGED <<thread, wanted>>
          /\ payment' = [payment EXCEPT !.state = "fieldOff"]
       \/ /\ payment.state = "fieldOff" /\ UNCHANGED thread
          /\ \/ /\ payment' = [payment EXCEPT !.state = "start", !.progress = TRUE]
                /\ UNCHANGED wanted
             \/ ResetPayment
       \/ /\ payment.state = "start"
          /\ \/ /\ payment' = [payment EXCEPT !.state = "progress"]
                /\ Begin("payment", "payment", <<"lastRequest">>) /\ UNCHANGED wanted
             \/ ResetPayment /\ UNCHANGED thread
    /\ UNCHANGED <<asked, fixed, nfc, interop, swp, test, task, stack>>

\* enableThread reads last_request, only then lets requests through again,
\* and at its end forgets what is there by then.
\* Mutant: only a request to disable is taken up again.
OnlyDisableAgain == [enable |-> <<>>, disable |-> <<"disableDiscovery">>]

PutOffCall == [enable |-> <<"enableDiscovery">>, disable |-> <<"disableDiscovery">>]
enableThread ==
    /\ \/ /\ At("payment", "lastRequest") /\ UNCHANGED <<payment, wanted>>
          /\ Then("payment", <<"letThrough">>
                             \o (IF payment.last = None THEN <<>> ELSE PutOffCall[payment.last])
                             \o <<"forget">>)
       \/ /\ At("payment", "letThrough") /\ Advance("payment") /\ UNCHANGED wanted
          /\ payment' = [payment EXCEPT !.progress = FALSE]
       \/ /\ At("payment", "forget") /\ Advance("payment") /\ payment' = NoPayment
          /\ UNCHANGED wanted
    /\ UNCHANGED <<asked, fixed, nfc, interop, swp, test, task, stack>>

-----------------------------------------------------------------------------
calling(t) ==
    \/ startRfDiscovery(t) \/ rfDone(t) \/ rfOffIfOn(t) \/ polling(t) \/ pollingDone(t)
    \/ requests(t) \/ requestDone(t) \/ PowerLow(t) \/ linkIsDown(t)
    \/ enableDiscovery(t) \/ listen(t) \/ discovered(t)
    \/ disableDiscovery(t) \/ stopDiscovery(t) \/ stillPolling(t) \/ listenOff(t)
    \/ routed(t) \/ setRouting(t)
    \/ enable(t) \/ enabled(t) \/ checkforNfceeConfig(t)
    \/ VenConfig(t) \/ disable(t) \/ disabled(t) \/ unblock(t) \/ finalize(t)
    \/ enableDisableLptd(t) \/ pn544InteropAbortNow(t)
    \/ SetCbStatus(t) \/ SendNxpNciCommand(t) \/ vendorDone(t)
jniCalls ==
    \/ doInitialize \/ doDeinitialize \/ serviceCalls
    \/ enableRoutingToHost \/ disableRoutingToHost \/ routes
    \/ \E on \in BOOLEAN : ReaderMode(on)
extras ==
    \/ interopStop \/ interopLocked \/ interopStopped
    \/ interopTimer \/ pn544InteropStartPolling \/ interopStarted
    \/ eeReaderEvent \/ startStopSwpReaderProc \/ mapRefused \/ notifyEEReaderEvent
    \/ Nxp_SelfTest \/ prepares \/ awaits \/ nfaNxpSelfTestNtfTimerCb \/ SWPSelfTest
    \/ enableThread
callbacks ==
    \/ NxpResponse_Cb \/ nfaNxpSelfTestNtfCallback \/ nfaDone
    \/ NFA_DM_ENABLE_EVT \/ NFA_DM_DISABLE_EVT \/ NFA_DM_NFCC_TRANSPORT_ERR_EVT
    \/ NFA_ACTIVATED_EVT \/ pn544InteropIsBusy \/ NFA_DEACTIVATED_EVT
    \/ NFA_EE_ACTION_EVT \/ NFA_DM_RF_FIELD_EVT

Next == jniCalls \/ extras \/ callbacks \/ \E t \in roles : calling(t)

Spec == Init /\ [][Next]_vars

-----------------------------------------------------------------------------
(* Properties *)

Quiet == \A t \in Threads : ~Working(t)
Excused == wanted.refused \/ wanted.overlap

\* Between calls sRfEnabled is what the controller does, whichever threads
\* switched the RF off and on and whichever answers of the shared event they
\* woke on, unless two of them were inside startRfDiscovery at once.
RfFlagTrue == stack.on /\ Quiet /\ ~Excused => nfc.rf = stack.rf

\* What NfcService asked for last is what discovery is, also when a payment
\* put it off, unless it asked while enableThread was at work.
DiscoveryAsWanted ==
    nfc.enabled /\ Quiet /\ ~payment.progress /\ ~wanted.dropped /\ ~wanted.refused
        => nfc.discovery = wanted.on

\* gIsBusy, during which a tag is ignored, ends: the timer that ends it is
\* set, or somebody is about to set it or to end it.
BusyEnds == interop.busy => interop.armed \/ Working("interop") \/ Working("tag")

\* A controller that reads for the secure element has a protection timer
\* set, or a thread that sets one or ends it, whatever else discovery did.
ReaderModeEnds ==
    stack.reader /\ ~wanted.refused => swp.start \/ swp.stop \/ Working("swp")

\* Neither of the two states that shut the other users out stays for ever.
TemporaryStatesEnd == BusyEnds /\ ReaderModeEnds

\* When nothing is marked as changed, the controller has its routes.
RoutesSet ==
    nfc.enabled /\ Quiet /\ ~nfc.dirty /\ ~wanted.refused => stack.route

\* A self-test passes only if the controller said that the link is alive,
\* unless the command of another thread, or of an earlier test, may have been
\* answered during it.
SelfTestIsReal == test.passed => test.alive \/ test.shared

\* The event that startRfDiscovery waits for can come: its thread has not
\* locked out the task that brings it.
StackNotLockedOut ==
    task = "gMutex" => ~\E t \in Threads : HasMutex(t) /\ thread[t].st = "sleeps"
=============================================================================
