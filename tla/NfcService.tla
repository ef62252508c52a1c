------------------------------ MODULE NfcService ------------------------------
(***************************************************************************)
(* NfcService.java: the adapter is switched on and off, and the controller *)
(* is told what to poll for and what to route.  Actors:                    *)
(*   - one serial executor for all AsyncTasks: EnableDisableTask, which    *)
(*     changes mState step by step, and ApplyRoutingTask, one step,        *)
(*   - binder threads: the adapter switch, Beam, reader mode, the secure   *)
(*     element,                                                            *)
(*   - the main thread: broadcasts, and MSG_COMMIT_ROUTING.                *)
(* A synchronized block is one step, and so is each call the task makes    *)
(* between two blocks; a request, which takes no lock, is a step for each  *)
(* setting it reads or writes and for each task it executes.  Any hang of  *)
(* the controller ends in the watchdog, which aborts the process; it then  *)
(* starts again from its preferences.                                      *)
(***************************************************************************)
EXTENDS Naturals, Sequences

CONSTANTS
    Chips,        \* the controllers: a subset of ChipKinds
    MaxInputs     \* bound: requests, broadcasts, changes of the settings, aborts

(* quirks: enablePN544Quirks; pn547: mClfIsPn547; hce: mIsHceCapable;        *)
(* toggleable: mIsAirplaneToggleable.                                        *)
ChipKinds == [quirks : BOOLEAN, pn547 : BOOLEAN, hce : BOOLEAN, toggleable : BOOLEAN]

ASSUME ChipsAssumption == Chips \subseteq ChipKinds /\ Chips # {}
(* A controller with these quirks routes no AID to the host: its device host *)
(* leaves routeAid and enableRoutingToHost empty.                           *)
ASSUME QuirksAssumption == \A kind \in Chips : kind.quirks => ~kind.hce
ASSUME BoundsAssumption == MaxInputs \in Nat

SCREEN_STATE_OFF         == 1
SCREEN_STATE_ON_LOCKED   == 2
SCREEN_STATE_ON_UNLOCKED == 3
ScreenStates == SCREEN_STATE_OFF .. SCREEN_STATE_ON_UNLOCKED
POLLING_MODE == SCREEN_STATE_ON_UNLOCKED

States  == {"OFF", "TURNING_ON", "ON", "TURNING_OFF"}
Tasks   == {"enable", "disable", "reset", "wipe", "boot", "apply"}
Jobs    == {"enable", "disable", "wipe", "booted"}
Waiting == {"idle", "next"}
Excuses == {"fault", "overlap", "lateReset"}
(* The steps of the requests: of enable() and disable(), of the receiver of *)
(* the broadcasts, and of the watcher of the modem.                         *)
EnableCall  == {"mode", "override", "enable"}
AirplaneOff == {"permit", "preference", "airplaneEnable"}
AirplaneOn  == {"forbid", "airplaneDisable"}
OnMain      == AirplaneOff \cup AirplaneOn \cup {"reset"}
ModemCall   == {"modemDisable", "modemEnable"}
Requests    == EnableCall \cup {"disable"} \cup OnMain \cup ModemCall
TurnOn      == EnableCall \cup AirplaneOff
TurnOff     == {"disable"} \cup AirplaneOn
TurningOn  == {"initialize", "onNfcEnabled", "beamOn", "stateOn"}
TurningOff == {"onNfcDisabled", "beamOff", "closeEe", "deinitialize", "stateOff"}
Steps   == Waiting \cup TurningOn \cup {"applyRouting", "turnOff"} \cup TurningOff

VARIABLES
    chip,               \* which of Chips this is
    mState,
    executor,           \* the tasks that wait, <<task, screen state>>; 0: no parameter
    todo,               \* what is left of the running EnableDisableTask, in Jobs
    pc,                 \* the step it is about to take; "idle": none runs
    prefs,              \* saved: [nfc, override, firstBoot]
    airplane,           \* the setting, and the broadcasts about it still to come
    broadcasts,
    requests,           \* the next step of each request under way
    excused,            \* why mState may differ from the settings, in Excuses
    mIsNdefPushEnabled,
    p2p,                \* what P2pLinkManager was told: [send, receive]
    mScreenState, mEeRoutingState, mReaderModeParams,
    mOpenEe,            \* whether an application has the secure element open
    mNfcPollingEnabled, mHostRouteEnabled, mNfceeRouteEnabled, mReaderModeEnabled,
    aids,               \* the AID cache: [enabled, toHost: AIDs are routed to the host]
    commit,             \* MSG_COMMIT_ROUTING is posted
    device,             \* the controller: [on, polling, host, nfcee, reader]
    count               \* the bounded inputs so far

flags    == <<mNfcPollingEnabled, mHostRouteEnabled, mNfceeRouteEnabled, mReaderModeEnabled>>
routing  == <<flags, device>>
inputs   == <<mScreenState, mEeRoutingState, mReaderModeParams>>
tasks    == <<executor, todo, pc>>
settings == <<prefs, airplane, broadcasts, requests>>
beam     == <<mIsNdefPushEnabled, p2p>>
vars == <<chip, mState, tasks, settings, excused, beam, inputs, mOpenEe, routing, aids,
          commit, count>>

Count == count < MaxInputs /\ count' = count + 1
Execute(task) == executor' = Append(executor, <<task, 0>>)

isNfcEnabledOrShuttingDown(state) == state \in {"ON", "TURNING_OFF"}
Down == [on |-> FALSE, polling |-> FALSE, host |-> FALSE, nfcee |-> FALSE, reader |-> FALSE]

-----------------------------------------------------------------------------
(* applyRouting.  It reads the inputs as the step that calls it leaves them. *)

hostWanted  == chip.hce /\ mScreenState' >= SCREEN_STATE_ON_LOCKED /\ aids'.toHost
nfceeWanted == mScreenState' >= SCREEN_STATE_ON_LOCKED /\ mEeRoutingState'
pollingWanted == mScreenState' >= POLLING_MODE

(* enableDiscovery starts with all technologies, unless it polls already. *)
Polls(dev, on) ==
    IF dev.polling = on THEN dev ELSE [dev EXCEPT !.polling = on, !.reader = FALSE]

(* The sequence of PN544 when the screen is off. *)
screenOffQuirk(force) ==
    LET stop == force \/ mNfcPollingEnabled
        off  == mEeRoutingState' /\ (force \/ mNfceeRouteEnabled)
    IN  /\ mNfcPollingEnabled' = IF stop THEN FALSE ELSE mNfcPollingEnabled
        /\ mNfceeRouteEnabled' = IF off THEN FALSE ELSE mNfceeRouteEnabled
        /\ device' = LET d == IF stop THEN Polls(device, FALSE) ELSE device
                     IN  IF off /\ ~chip.pn547 THEN [d EXCEPT !.nfcee = FALSE] ELSE d
        /\ UNCHANGED <<mHostRouteEnabled, mReaderModeEnabled>>

Touches(force, was, is) == force \/ was # is

(* Each part of the controller is touched when forced or when it changes.   *)
routeAndPoll(force) ==
    LET stop == ~pollingWanted /\ Touches(force, mNfcPollingEnabled, FALSE)
    IN  /\ mHostRouteEnabled' = hostWanted
        /\ mNfceeRouteEnabled' = nfceeWanted
        /\ mNfcPollingEnabled' = pollingWanted
        /\ mReaderModeEnabled' = IF pollingWanted THEN mReaderModeParams'
                                 ELSE mReaderModeEnabled /\ ~stop
        /\ LET d == IF Touches(force, mNfcPollingEnabled, pollingWanted)
                    THEN Polls(device, pollingWanted) ELSE device
               reader == IF mReaderModeEnabled' # mReaderModeEnabled /\ d.polling
                         THEN mReaderModeEnabled' ELSE d.reader
           IN  device' = [d EXCEPT
                 !.reader = reader,
                 !.host = IF Touches(force, mHostRouteEnabled, hostWanted) THEN hostWanted ELSE @,
                 !.nfcee = IF Touches(force, mNfceeRouteEnabled, nfceeWanted) /\ ~chip.pn547
                           THEN nfceeWanted ELSE @]

applyRouting(force) ==
    IF ~isNfcEnabledOrShuttingDown(mState') \/ mOpenEe'
    THEN UNCHANGED routing
    ELSE IF chip.quirks /\ mScreenState' = SCREEN_STATE_OFF
    THEN screenOffQuirk(force)
    ELSE routeAndPoll(force)

-----------------------------------------------------------------------------
(* Boot: the constructor, after the first boot or after an abort. *)
Fresh ==
    /\ mState' = "OFF" /\ executor' = <<<<"boot", 0>>>>
    /\ todo' = <<>> /\ pc' = "idle"
    /\ broadcasts' = <<>> /\ requests' = {} /\ excused' = {}
    /\ p2p' = [send |-> FALSE, receive |-> FALSE]
    /\ mScreenState' \in ScreenStates
    /\ mEeRoutingState' = FALSE /\ mReaderModeParams' = FALSE /\ mOpenEe' = FALSE
    /\ mNfcPollingEnabled' = FALSE /\ mHostRouteEnabled' = FALSE
    /\ mNfceeRouteEnabled' = FALSE /\ mReaderModeEnabled' = FALSE
    /\ aids' = [enabled |-> FALSE, toHost |-> FALSE] /\ commit' = FALSE
    /\ device' = Down

Init ==
    /\ chip \in Chips
    /\ mState = "OFF" /\ executor = <<<<"boot", 0>>>> /\ todo = <<>> /\ pc = "idle"
    /\ prefs \in [nfc : BOOLEAN, override : {FALSE}, firstBoot : {TRUE}]
    /\ airplane = FALSE /\ broadcasts = <<>> /\ requests = {} /\ excused = {}
    /\ mIsNdefPushEnabled = TRUE /\ p2p = [send |-> FALSE, receive |-> FALSE]
    /\ mScreenState \in ScreenStates
    /\ mEeRoutingState = FALSE /\ mReaderModeParams = FALSE /\ mOpenEe = FALSE
    /\ mNfcPollingEnabled = FALSE /\ mHostRouteEnabled = FALSE
    /\ mNfceeRouteEnabled = FALSE /\ mReaderModeEnabled = FALSE
    /\ aids = [enabled |-> FALSE, toHost |-> FALSE] /\ commit = FALSE
    /\ device = Down
    /\ count = 0

(* The watchdog: a call of the running task hangs. *)
Abort ==
    /\ pc \notin Waiting
    /\ Count
    /\ Fresh
    /\ UNCHANGED <<chip, prefs, airplane, mIsNdefPushEnabled>>

-----------------------------------------------------------------------------
(* The executor. *)

(* What a task consists of; enable, disable and wipe look at mState later. *)
nfcOnAtBoot == prefs.nfc /\ (~airplane \/ prefs.override)
Plan(task) ==
    CASE task = "reset" -> <<"disable", "enable">>
      [] task = "boot"  -> (IF nfcOnAtBoot THEN <<"enable">> ELSE <<>>)
                              \o (IF prefs.firstBoot THEN <<"wipe", "booted">> ELSE <<>>)
      [] OTHER          -> <<task>>

(* EnableDisableTask.doInBackground, with its sanity check of mState. *)
TaskBegins ==
    /\ pc = "idle" /\ executor # <<>> /\ Head(executor)[1] # "apply"
    /\ executor' = Tail(executor)
    /\ IF mState \in {"TURNING_ON", "TURNING_OFF"}
       THEN UNCHANGED <<todo, pc>>
       ELSE todo' = Plan(Head(executor)[1]) /\ pc' = "next"
    /\ UNCHANGED <<chip, mState, settings, excused, beam, inputs, mOpenEe, routing, aids,
                   commit, count>>

TaskEnds ==
    /\ pc = "next" /\ todo = <<>> /\ pc' = "idle"
    /\ UNCHANGED <<chip, mState, executor, todo, settings, excused, beam, inputs, mOpenEe,
                   routing, aids, commit, count>>

(* ApplyRoutingTask with a screen state; without one (0) it is forced.      *)
ScreenAfter(screen) == IF screen = 0 THEN mScreenState ELSE screen

ApplyRoutingTask ==
    /\ pc = "idle" /\ executor # <<>> /\ Head(executor)[1] = "apply"
    /\ executor' = Tail(executor)
    /\ LET screen == Head(executor)[2] IN
         /\ mScreenState' = ScreenAfter(screen)
         /\ UNCHANGED <<chip, mState, todo, pc, settings, excused, beam, mEeRoutingState,
                        mReaderModeParams, mOpenEe, aids, commit, count>>
         /\ applyRouting(screen = 0)

(* The step that follows.  Mutant: Beam is switched off while the state     *)
(* still lets it be switched on.                                            *)
AfterBeamFirst(step) ==
    CASE step = "disable" -> "beamOff" [] step = "beamOff" -> "turnOff"
      [] step = "turnOff" -> "onNfcDisabled" [] step = "onNfcDisabled" -> "closeEe"
      [] step = "closeEe" -> "deinitialize" [] step = "deinitialize" -> "stateOff"
      [] step = "initialize" -> "onNfcEnabled" [] step = "onNfcEnabled" -> "beamOn"
      [] step = "beamOn" -> "stateOn" [] step = "stateOn" -> "applyRouting"
      [] OTHER -> "next"
After(step) ==
    CASE step = "disable" -> "turnOff" [] step = "turnOff" -> "onNfcDisabled"
      [] step = "onNfcDisabled" -> "beamOff" [] step = "beamOff" -> "closeEe"
      [] step = "closeEe" -> "deinitialize" [] step = "deinitialize" -> "stateOff"
      [] step = "initialize" -> "onNfcEnabled" [] step = "onNfcEnabled" -> "beamOn"
      [] step = "beamOn" -> "stateOn" [] step = "stateOn" -> "applyRouting"
      [] OTHER -> "next"

Goes(step) == pc = step /\ pc' = After(step) /\ UNCHANGED <<chip, executor, todo, settings, count>>
Starts(job) ==
    /\ pc = "next" /\ todo # <<>> /\ Head(todo) = job
    /\ UNCHANGED <<chip, executor, airplane, broadcasts, requests, count>>

-----------------------------------------------------------------------------
(* enableInternal: the modem may refuse, and then nothing has changed. *)
enableInternal ==
    /\ Starts("enable") /\ todo' = Tail(todo)
    /\ IF mState = "ON"
       THEN UNCHANGED <<mState, pc, excused>>
       ELSE \/ mState' = "TURNING_ON" /\ pc' = "initialize" /\ UNCHANGED excused
            \/ UNCHANGED <<mState, pc>> /\ excused' = excused \cup {"fault"}
    /\ UNCHANGED <<prefs, beam, inputs, mOpenEe, routing, aids, commit>>

initialize ==
    /\ Goes("initialize")
    /\ device' = [device EXCEPT !.on = TRUE]
    /\ UNCHANGED <<mState, excused, beam, inputs, mOpenEe, flags, aids, commit>>

(* Mutant: the state is left as it is. *)
InitializeFailsTurningOn ==
    /\ pc = "initialize" /\ pc' = "next" /\ excused' = excused \cup {"fault"}
    /\ UNCHANGED <<chip, mState, executor, todo, settings, beam, inputs, mOpenEe, routing,
                   aids, commit, count>>
initializeFails ==
    /\ pc = "initialize" /\ pc' = "next"
    /\ mState' = "OFF" /\ excused' = excused \cup {"fault"}
    /\ UNCHANGED <<chip, executor, todo, settings, beam, inputs, mOpenEe, routing, aids,
                   commit, count>>

(* RegisteredAidCache.onNfcEnabled: the AIDs are routed again. *)
onNfcEnabled ==
    /\ Goes("onNfcEnabled")
    /\ IF chip.hce
       THEN /\ aids' \in [enabled : {TRUE}, toHost : BOOLEAN]
            /\ commit' = (commit \/ aids'.toHost)
       ELSE UNCHANGED <<aids, commit>>
    /\ UNCHANGED <<mState, excused, beam, inputs, mOpenEe, routing>>

beamOn ==
    /\ Goes("beamOn")
    /\ p2p' = [send |-> mIsNdefPushEnabled, receive |-> TRUE]
    /\ UNCHANGED <<mState, excused, mIsNdefPushEnabled, inputs, mOpenEe, routing, aids, commit>>

stateOn ==
    /\ Goes("stateOn") /\ mState' = "ON"
    /\ UNCHANGED <<excused, beam, inputs, mOpenEe, routing, aids, commit>>

startPolling ==
    /\ Goes("applyRouting")
    /\ UNCHANGED <<mState, excused, beam, inputs, mOpenEe, aids, commit>>
    /\ applyRouting(TRUE)

-----------------------------------------------------------------------------
(* disableInternal *)

disableInternal ==
    /\ Starts("disable") /\ todo' = Tail(todo)
    /\ IF mState = "OFF"
       THEN UNCHANGED <<pc, routing>>
       ELSE /\ pc' = After("disable")
            /\ IF chip.hce
               THEN mHostRouteEnabled' = FALSE /\ device' = [device EXCEPT !.host = FALSE]
               ELSE UNCHANGED <<mHostRouteEnabled, device>>
            /\ UNCHANGED <<mNfcPollingEnabled, mNfceeRouteEnabled, mReaderModeEnabled>>
    /\ UNCHANGED <<mState, prefs, excused, beam, inputs, mOpenEe, aids, commit>>

turnOff ==
    /\ Goes("turnOff") /\ mState' = "TURNING_OFF"
    /\ UNCHANGED <<excused, beam, inputs, mOpenEe, routing, aids, commit>>

onNfcDisabled ==
    /\ Goes("onNfcDisabled")
    /\ aids' = IF chip.hce THEN [enabled |-> FALSE, toHost |-> FALSE] ELSE aids
    /\ UNCHANGED <<mState, excused, beam, inputs, mOpenEe, routing, commit>>

beamOff ==
    /\ Goes("beamOff") /\ p2p' = [send |-> FALSE, receive |-> FALSE]
    /\ UNCHANGED <<mState, excused, mIsNdefPushEnabled, inputs, mOpenEe, routing, aids, commit>>

(* After a while the secure element is closed for the application. *)
closeEe ==
    /\ Goes("closeEe") /\ mOpenEe' = FALSE
    /\ UNCHANGED <<mState, excused, beam, inputs, aids, commit>>
    /\ IF mOpenEe THEN applyRouting(~chip.pn547) ELSE UNCHANGED routing

deinitialize ==
    /\ Goes("deinitialize") /\ device' = Down
    /\ UNCHANGED <<mState, excused, beam, inputs, mOpenEe, flags, aids, commit>>

stateOff ==
    /\ Goes("stateOff") /\ mState' = "OFF"
    /\ UNCHANGED <<excused, beam, inputs, mOpenEe, routing, aids, commit>>

-----------------------------------------------------------------------------
(* executeEeWipe: NFC is on for as long as the wipe takes; without APDUs to *)
(* wipe with, or a secure element, nothing happens.  Mutant: the state is   *)
(* not restored.                                                            *)
WipeStaysOn(state) == IF state = "OFF" THEN <<"enable">> ELSE <<>>
WipeJobs(state) == IF state = "OFF" THEN <<"enable", "disable">> ELSE <<>>

executeEeWipe ==
    /\ Starts("wipe") /\ todo' \in {Tail(todo), WipeJobs(mState) \o Tail(todo)}
    /\ UNCHANGED <<mState, pc, prefs, excused, beam, inputs, mOpenEe, routing, aids, commit>>

firstBootDone ==
    /\ Starts("booted") /\ todo' = Tail(todo)
    /\ prefs' = [prefs EXCEPT !.firstBoot = FALSE]
    /\ UNCHANGED <<mState, pc, excused, beam, inputs, mOpenEe, routing, aids, commit>>

-----------------------------------------------------------------------------
(* Requests to switch NFC on and off.  A request takes no lock: other       *)
(* threads may act, and the settings change, between any two of its steps.  *)

SameDevice == UNCHANGED <<chip, mState, todo, pc, beam, inputs, mOpenEe, routing, aids, commit>>

(* One that switches on and one that switches off are under way at once.    *)
Opposed(step) ==
    \/ step \in TurnOn /\ requests \cap TurnOff # {}
    \/ step \in TurnOff /\ requests \cap TurnOn # {}
Begins(step) ==
    /\ requests' = requests \cup {step}
    /\ excused' = excused \cup (IF Opposed(step) THEN {"overlap"} ELSE {})
Takes(step, next) == step \in requests /\ requests' = (requests \ {step}) \cup next
(* Nothing else of a request happens in this step.                          *)
OnlySteps == SameDevice /\ UNCHANGED <<airplane, broadcasts, count>>
MainIsFree == requests \cap OnMain = {}

(* saveNfcOnSetting, the first step of enable() and of disable(saveState).  *)
SavePreference(call) ==
    /\ Count
    /\ requests \cap (IF call = "enable" THEN EnableCall ELSE {"disable"}) = {}
    /\ Begins(IF call = "enable" THEN "mode" ELSE "disable")
    /\ prefs' = [prefs EXCEPT !.nfc = (call = "enable")]
    /\ SameDevice
    /\ UNCHANGED <<executor, airplane, broadcasts>>

(* enable() looks at airplane mode, and is denied or overrides it.          *)
enable ==
    /\ Takes("mode", IF ~airplane THEN {"enable"}
                     ELSE IF chip.toggleable THEN {"override"} ELSE {})
    /\ OnlySteps
    /\ UNCHANGED <<prefs, executor, excused>>

overrideAirplaneMode ==
    /\ Takes("override", {"enable"})
    /\ prefs' = [prefs EXCEPT !.override = TRUE]
    /\ OnlySteps
    /\ UNCHANGED <<executor, excused>>

(* A request executes its task; disable() has saved the preference before.  *)
executeTask ==
    /\ \/ Takes("enable", {}) /\ Execute("enable")
       \/ Takes("disable", {}) /\ Execute("disable")
       \/ Takes("airplaneDisable", {}) /\ Execute("disable")
       \/ Takes("airplaneEnable", {}) /\ Execute("enable")
    /\ OnlySteps
    /\ UNCHANGED <<prefs, excused>>

(* disable(false), as a shutdown calls it: the preference stays. *)
disableWithoutSaving ==
    /\ Count
    /\ Execute("disable") /\ excused' = excused \cup {"fault"}
    /\ SameDevice
    /\ UNCHANGED settings

AirplaneModeChanges ==
    /\ Count
    /\ airplane' = ~airplane /\ broadcasts' = Append(broadcasts, ~airplane)
    /\ SameDevice
    /\ UNCHANGED <<prefs, executor, requests, excused>>

(* The broadcast about it; one about a setting that has changed meanwhile   *)
(* is ignored.                                                              *)
AirplaneBroadcast ==
    /\ MainIsFree
    /\ broadcasts # <<>> /\ broadcasts' = Tail(broadcasts)
    /\ IF Head(broadcasts) = airplane
       THEN Begins(IF Head(broadcasts) THEN "forbid" ELSE "permit")
       ELSE UNCHANGED <<requests, excused>>
    /\ SameDevice
    /\ UNCHANGED <<prefs, executor, airplane, count>>

(* The receiver clears the override, ...                                    *)
clearOverride ==
    /\ Takes("forbid", {"airplaneDisable"}) \/ Takes("permit", {"preference"})
    /\ prefs' = [prefs EXCEPT !.override = FALSE]
    /\ OnlySteps
    /\ UNCHANGED <<executor, excused>>

(* ... and without airplane mode asks whether NFC is to be on.              *)
readPreference ==
    /\ Takes("preference", IF prefs.nfc THEN {"airplaneEnable"} ELSE {})
    /\ OnlySteps
    /\ UNCHANGED <<prefs, executor, excused>>

(* ACTION_SIM_STATE_CHANGED looks at the state and executes a reset.  Late: *)
(* NFC is on, but already meant to go off.                                  *)
SimStateChanged ==
    /\ Count /\ MainIsFree
    /\ mState = "ON" /\ ~prefs.firstBoot
    /\ Begins("reset")
    /\ SameDevice
    /\ UNCHANGED <<prefs, executor, airplane, broadcasts>>

Late == excused' = excused \cup (IF nfcOnAtBoot THEN {} ELSE {"lateReset"})
simReset ==
    /\ Takes("reset", {}) /\ Execute("reset") /\ Late
    /\ OnlySteps
    /\ UNCHANGED prefs

(* The modem goes: a disable, and an enable, which waits for the modem with *)
(* NFC off.                                                                 *)
csmClientModemUnavailable ==
    /\ Count /\ requests \cap ModemCall = {}
    /\ mState \in {"ON", "TURNING_ON"}
    /\ Begins("modemDisable")
    /\ SameDevice
    /\ UNCHANGED <<prefs, executor, airplane, broadcasts>>

modemReset ==
    /\ \/ Takes("modemDisable", {"modemEnable"}) /\ Execute("disable") /\ UNCHANGED excused
       \/ Takes("modemEnable", {}) /\ Execute("enable") /\ Late
    /\ OnlySteps
    /\ UNCHANGED prefs

(* A package that had access to the secure element is removed, or the       *)
(* master clear.                                                            *)
WipeRequested ==
    /\ Count /\ MainIsFree
    /\ Execute("wipe")
    /\ SameDevice
    /\ UNCHANGED <<settings, excused>>

-----------------------------------------------------------------------------
(* Inputs of the routing. *)

Untasked == UNCHANGED <<chip, mState, tasks, settings, excused>>

(* A screen broadcast: an ApplyRoutingTask for the new screen state. *)
ScreenBroadcast(screen) ==
    /\ Count /\ MainIsFree
    /\ executor' = Append(executor, <<"apply", screen>>)
    /\ SameDevice
    /\ UNCHANGED <<settings, excused>>

(* setCardEmulationRoute, and INTERNAL_TARGET_DESELECTED_ACTION, which      *)
(* leaves the route as it is: a forced ApplyRoutingTask.                    *)
setCardEmulationRoute(route) ==
    /\ Count
    /\ mEeRoutingState' = route
    /\ executor' = Append(executor, <<"apply", 0>>)
    /\ UNCHANGED <<chip, mState, todo, pc, settings, excused, beam, mScreenState,
                   mReaderModeParams, mOpenEe, routing, aids, commit>>

(* setReaderMode and the death of the application that called it. *)
setReaderMode ==
    /\ Count
    /\ mReaderModeParams' = ~mReaderModeParams
    /\ Untasked
    /\ UNCHANGED <<beam, mScreenState, mEeRoutingState, mOpenEe, aids, commit>>
    /\ applyRouting(FALSE)

(* enableNdefPush and disableNdefPush *)
setNdefPush ==
    /\ Count
    /\ mIsNdefPushEnabled' = ~mIsNdefPushEnabled
    /\ p2p' = IF mState = "ON" THEN [send |-> ~mIsNdefPushEnabled, receive |-> TRUE] ELSE p2p
    /\ Untasked
    /\ UNCHANGED <<inputs, mOpenEe, routing, aids, commit>>

(* The services or the defaults change: other AIDs are routed. *)
AidsChange ==
    /\ Count
    /\ aids.enabled
    /\ aids' = [aids EXCEPT !.toHost = ~@] /\ commit' = TRUE
    /\ Untasked
    /\ UNCHANGED <<beam, inputs, mOpenEe, routing>>

CommitRouting ==
    /\ MainIsFree
    /\ commit /\ commit' = FALSE
    /\ Untasked
    /\ UNCHANGED <<beam, inputs, mOpenEe, aids, count>>
    /\ applyRouting(TRUE)

(* NfcAdapterExtrasService._open: polling stops on PN544, and starts again  *)
(* when the secure element does not open.                                   *)
openEe ==
    /\ Count
    /\ mState = "ON" /\ ~mOpenEe
    /\ LET stop == chip.quirks /\ mNfcPollingEnabled
           d == IF stop THEN Polls(device, FALSE) ELSE device
       IN  \/ /\ mOpenEe' = TRUE
              /\ device' = d
              /\ mNfcPollingEnabled' = (mNfcPollingEnabled /\ ~stop)
           \/ /\ stop /\ device' = Polls(d, TRUE)
              /\ UNCHANGED <<mOpenEe, mNfcPollingEnabled>>
    /\ Untasked
    /\ UNCHANGED <<beam, inputs, mHostRouteEnabled, mNfceeRouteEnabled, mReaderModeEnabled,
                   aids, commit>>

(* _nfcEeClose, by the application or because it died. *)
nfcEeClose ==
    /\ isNfcEnabledOrShuttingDown(mState)
    /\ mOpenEe /\ mOpenEe' = FALSE
    /\ Untasked
    /\ UNCHANGED <<beam, inputs, aids, commit, count>>
    /\ applyRouting(~chip.pn547)

-----------------------------------------------------------------------------
TaskStep ==
    \/ TaskBegins \/ TaskEnds \/ ApplyRoutingTask
    \/ enableInternal \/ initialize \/ initializeFails \/ onNfcEnabled \/ beamOn
    \/ stateOn \/ startPolling
    \/ disableInternal \/ turnOff \/ onNfcDisabled \/ beamOff \/ closeEe
    \/ deinitialize \/ stateOff
    \/ executeEeWipe \/ firstBootDone

PowerRequest ==
    \/ \E call \in {"enable", "disable"} : SavePreference(call)
    \/ enable \/ overrideAirplaneMode \/ executeTask \/ disableWithoutSaving
    \/ AirplaneModeChanges \/ AirplaneBroadcast \/ clearOverride \/ readPreference
    \/ SimStateChanged \/ simReset \/ csmClientModemUnavailable \/ modemReset
    \/ WipeRequested

RoutingInput ==
    \/ \E screen \in ScreenStates : ScreenBroadcast(screen)
    \/ \E route \in BOOLEAN : setCardEmulationRoute(route)
    \/ setReaderMode \/ setNdefPush \/ AidsChange \/ CommitRouting \/ openEe \/ nfcEeClose

Next == TaskStep \/ PowerRequest \/ RoutingInput \/ Abort

Spec == Init /\ [][Next]_vars

-----------------------------------------------------------------------------
(* Properties. *)

(* Every variable has its type. *)
TypeOK ==
    /\ chip \in ChipKinds /\ mState \in States
    /\ executor \in Seq(Tasks \X (0 .. SCREEN_STATE_ON_UNLOCKED))
    /\ todo \in Seq(Jobs) /\ pc \in Steps
    /\ prefs \in [nfc : BOOLEAN, override : BOOLEAN, firstBoot : BOOLEAN]
    /\ airplane \in BOOLEAN /\ broadcasts \in Seq(BOOLEAN)
    /\ requests \subseteq Requests /\ excused \subseteq Excuses
    /\ mIsNdefPushEnabled \in BOOLEAN /\ p2p \in [send : BOOLEAN, receive : BOOLEAN]
    /\ mScreenState \in ScreenStates
    /\ mEeRoutingState \in BOOLEAN /\ mReaderModeParams \in BOOLEAN /\ mOpenEe \in BOOLEAN
    /\ mNfcPollingEnabled \in BOOLEAN /\ mHostRouteEnabled \in BOOLEAN
    /\ mNfceeRouteEnabled \in BOOLEAN /\ mReaderModeEnabled \in BOOLEAN
    /\ aids \in [enabled : BOOLEAN, toHost : BOOLEAN] /\ commit \in BOOLEAN
    /\ device \in [on : BOOLEAN, polling : BOOLEAN, host : BOOLEAN, nfcee : BOOLEAN,
                   reader : BOOLEAN]
    /\ count \in Nat

(* "Each task may temporarily transition mState to STATE_TURNING_OFF or     *)
(* STATE_TURNING_ON, but must exit in either STATE_ON or STATE_OFF."        *)
TasksExitStable == pc \in Waiting => mState \in {"ON", "OFF"}

(* While NFC is off no application holds the secure element, and Beam is    *)
(* off, whatever binder threads do while the task switches it off.          *)
OffReleasesAll == mState = "OFF" => ~mOpenEe /\ ~p2p.send /\ ~p2p.receive

(* Once everything asked for is done, NFC is on exactly when the saved      *)
(* preferences and airplane mode say so: in whatever order requests and     *)
(* broadcasts came, whatever changed between their steps, and after an      *)
(* abort.  Excused are a failed start, a disable that was not to be saved,  *)
(* a request to switch on that overlapped one to switch off, and the reset  *)
(* of NFC that is meant to go off (two statements below).                   *)
Settled == pc = "idle" /\ executor = <<>> /\ broadcasts = <<>> /\ requests = {} /\ ~commit
SettledMatchesSettings == Settled /\ excused = {} => (mState = "ON" <=> nfcOnAtBoot)

(* What applyRouting is for, once nothing is under way: the controller      *)
(* polls, and routes to the host and to the secure element, as the screen,  *)
(* the route and the AIDs say; not the routes the two findings are about.   *)
PollingApplied == device.polling <=> mScreenState >= POLLING_MODE
HostApplied ==
    device.host <=> chip.hce /\ mScreenState >= SCREEN_STATE_ON_LOCKED /\ aids.toHost
NfceeApplied ==
    device.nfcee <=> mScreenState >= SCREEN_STATE_ON_LOCKED /\ mEeRoutingState
InForce == Settled /\ mState = "ON" /\ ~mOpenEe
RoutingSettled ==
    InForce /\ ~chip.pn547 =>
        PollingApplied /\ HostApplied /\ (~chip.quirks => NfceeApplied)

(* At rest the adapter and the controller are as all that was asked for     *)
(* says, in whatever order the threads did it.                              *)
SettledAsAsked == SettledMatchesSettings /\ RoutingSettled

-----------------------------------------------------------------------------
(* What the comments say and the code does not do. *)

(* "reset the NFC adapter by disabling and enabling it": a reset leaves NFC *)
(* as the settings have it, also when a disable is still to come.           *)
ResetKeepsSettings ==
    Settled /\ excused \subseteq {"lateReset"} => (mState = "ON" <=> nfcOnAtBoot)

(* "The TASK_DISABLE triggered by airplane mode will be correctly executed  *)
(* immediately after TASK_ENABLE is complete": airplane mode wins.          *)
AirplaneModeWins ==
    Settled /\ excused \subseteq {"overlap"} /\ airplane /\ ~prefs.override => mState # "ON"

(* "Read mScreenState and apply NFC-C polling and NFC-EE routing": the      *)
(* secure element is routed as the screen and the route say.                *)
NfceeRoutingApplied == InForce /\ ~chip.pn547 => NfceeApplied

(* "Start polling loop": NFC that is on with the screen unlocked polls.     *)
PollingLoopStarted == InForce => PollingApplied
=============================================================================
