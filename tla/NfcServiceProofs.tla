--------------------------- MODULE NfcServiceProofs ---------------------------
(***************************************************************************)
(* Proofs about NfcService, for every controller and without any bound:    *)
(* tasks leave the adapter on or off (TasksStable), an adapter that is off *)
(* has let go of the secure element and of Beam (OffIsClean), and at rest  *)
(* it is on, polls and routes as the settings say (SettledCorrect).        *)
(* The first two: mState is a function of the step the executor is about   *)
(* to take (StateInv), which only tasks change; binder threads look at     *)
(* mState under the lock, so what they may open is bounded by it.          *)
(* The third adds where the queue of the executor leads (Ends): every step *)
(* of a request keeps that, and what the request still has to execute, in  *)
(* step with the settings (InStep), and every task leads where it was      *)
(* known to lead.                                                          *)
(***************************************************************************)
EXTENDS NfcService, SequenceTheorems, WellFoundedInduction, TLAPS

(* What mState is at each step of the executor.                             *)
StateInv ==
    /\ pc \in Steps
    /\ pc \in TurningOn => mState = "TURNING_ON"
    /\ pc \in TurningOff => mState = "TURNING_OFF"
    /\ pc \in {"applyRouting", "turnOff"} => mState = "ON"
    /\ pc \in Waiting => mState \in {"ON", "OFF"}

(* The steps that are not the executor's and do not abort it.               *)
Threads == PowerRequest \/ RoutingInput \/ ApplyRoutingTask

(* A request changes settings, and may execute a task; nothing else.        *)
LEMMA PowerRequestKeeps ==
    PowerRequest =>
        /\ SameDevice
        /\ \/ UNCHANGED executor
           \/ \E t \in {"enable", "disable", "reset", "wipe"} :
                 executor' = Append(executor, <<t, 0>>)
<1> USE DEF settings, Execute
<1>1. (\E call \in {"enable", "disable"} : SavePreference(call)) \/ AirplaneModeChanges
         \/ AirplaneBroadcast \/ SimStateChanged \/ csmClientModemUnavailable
      => SameDevice /\ UNCHANGED executor
  BY DEF SavePreference, AirplaneModeChanges, AirplaneBroadcast, SimStateChanged,
     csmClientModemUnavailable
<1>2. enable \/ overrideAirplaneMode \/ clearOverride \/ readPreference
      => SameDevice /\ UNCHANGED executor
  BY DEF enable, overrideAirplaneMode, clearOverride, readPreference, OnlySteps
<1>3. executeTask \/ disableWithoutSaving \/ simReset \/ modemReset \/ WipeRequested
      => /\ SameDevice
         /\ \E t \in {"enable", "disable", "reset", "wipe"} : executor' = Append(executor, <<t, 0>>)
  BY DEF executeTask, disableWithoutSaving, simReset, modemReset, WipeRequested, OnlySteps
<1>4. QED
  BY <1>1, <1>2, <1>3 DEF PowerRequest

(* They change neither mState nor the step of the executor.                 *)
LEMMA ThreadsKeepState == Threads => UNCHANGED <<mState, pc>>
<1> USE DEF SameDevice, Untasked, tasks
<1>1. PowerRequest => UNCHANGED <<mState, pc>>
  BY PowerRequestKeeps
<1>2. RoutingInput => UNCHANGED <<mState, pc>>
  BY DEF RoutingInput, ScreenBroadcast, setCardEmulationRoute, setReaderMode, setNdefPush,
         AidsChange, CommitRouting, openEe, nfcEeClose
<1>3. ApplyRoutingTask => UNCHANGED <<mState, pc>>
  BY DEF ApplyRoutingTask
<1>4. QED
  BY <1>1, <1>2, <1>3 DEF Threads

(* Every step keeps mState what the executor's step says it is.             *)
LEMMA StateStep == StateInv /\ [Next]_vars => StateInv'
<1> SUFFICES ASSUME StateInv, [Next]_vars PROVE StateInv'
  OBVIOUS
<1> USE DEF StateInv, Steps, Waiting, TurningOn, TurningOff
<1>1. CASE UNCHANGED vars
  BY <1>1 DEF vars, tasks
<1>2. CASE Threads
  BY <1>2, ThreadsKeepState
<1>3. CASE Abort
  BY <1>3 DEF Abort, Fresh
<1>4. CASE TaskBegins \/ TaskEnds
  BY <1>4 DEF TaskBegins, TaskEnds
<1>5. CASE enableInternal \/ executeEeWipe \/ firstBootDone
  BY <1>5 DEF enableInternal, executeEeWipe, firstBootDone, Starts
<1>6. CASE initialize \/ onNfcEnabled \/ beamOn \/ stateOn \/ startPolling
  BY <1>6 DEF initialize, onNfcEnabled, beamOn, stateOn, startPolling, Goes, After
<1>7. CASE initializeFails
  BY <1>7 DEF initializeFails
<1>8. CASE disableInternal
  BY <1>8 DEF disableInternal, Starts, After
<1>9. CASE turnOff \/ onNfcDisabled \/ beamOff \/ closeEe \/ deinitialize \/ stateOff
  BY <1>9 DEF turnOff, onNfcDisabled, beamOff, closeEe, deinitialize, stateOff, Goes, After
<1>10. QED
  BY <1>1, <1>2, <1>3, <1>4, <1>5, <1>6, <1>7, <1>8, <1>9 DEF Next, TaskStep, Threads

(* At boot no task runs and the adapter is off.                             *)
LEMMA StateInit == Init => StateInv
BY DEF Init, StateInv, Steps, Waiting, TurningOn, TurningOff

(* "Each task ... must exit in either STATE_ON or STATE_OFF": it does,      *)
(* whatever fails, and whatever other threads do meanwhile.                 *)
THEOREM TasksStable == Spec => []TasksExitStable
<1>1. StateInv => TasksExitStable
  BY DEF StateInv, TasksExitStable
<1>2. QED
  BY <1>1, StateInit, StateStep, PTL DEF Spec

-----------------------------------------------------------------------------
(* The secure element and Beam. *)

BeamIsOff == ~p2p.send /\ ~p2p.receive

(* How far the executor has come with letting go of them.                   *)
ReleaseInv ==
    /\ mState \in {"OFF", "TURNING_ON"} => ~mOpenEe
    /\ pc \in {"deinitialize", "stateOff"} => ~mOpenEe
    /\ mState = "OFF" => BeamIsOff
    /\ pc \in {"initialize", "closeEe", "deinitialize", "stateOff"} => BeamIsOff

(* A binder thread opens the secure element, or switches Beam, only while   *)
(* mState is ON.                                                            *)
LEMMA ThreadsOpenWhenOn ==
    Threads => \/ mState = "ON"
               \/ UNCHANGED p2p /\ (mOpenEe' => mOpenEe)
<1> USE DEF SameDevice, Untasked, beam
<1>1. PowerRequest => UNCHANGED <<p2p, mOpenEe>>
  BY PowerRequestKeeps
<1>2. RoutingInput => mState = "ON" \/ (UNCHANGED p2p /\ (mOpenEe' => mOpenEe))
  <2>1. setReaderMode \/ AidsChange \/ CommitRouting => UNCHANGED <<p2p, mOpenEe>>
    BY DEF setReaderMode, AidsChange, CommitRouting
  <2>2. (\E screen \in ScreenStates : ScreenBroadcast(screen))
           \/ (\E route \in BOOLEAN : setCardEmulationRoute(route))
           => UNCHANGED <<p2p, mOpenEe>>
    BY DEF ScreenBroadcast, setCardEmulationRoute
  <2>3. setNdefPush => mState = "ON" \/ UNCHANGED <<p2p, mOpenEe>>
    BY DEF setNdefPush
  <2>4. openEe => mState = "ON"
    BY DEF openEe
  <2>5. nfcEeClose => UNCHANGED p2p /\ ~mOpenEe'
    BY DEF nfcEeClose
  <2>6. QED
    BY <2>1, <2>2, <2>3, <2>4, <2>5 DEF RoutingInput
<1>3. ApplyRoutingTask => UNCHANGED <<p2p, mOpenEe>>
  BY DEF ApplyRoutingTask
<1>4. QED
  BY <1>1, <1>2, <1>3 DEF Threads

(* Every step keeps what has been let go of.                                *)
LEMMA ReleaseStep == StateInv /\ ReleaseInv /\ [Next]_vars => ReleaseInv'
<1> SUFFICES ASSUME StateInv, ReleaseInv, [Next]_vars PROVE ReleaseInv'
  OBVIOUS
<1> USE DEF ReleaseInv, BeamIsOff
<1>1. CASE UNCHANGED vars
  BY <1>1 DEF vars, tasks, beam
<1>2. CASE Threads
  <2>1. UNCHANGED <<mState, pc>>
    BY <1>2, ThreadsKeepState
  <2>2. CASE mState = "ON"
    <3>1. pc \notin {"initialize", "closeEe", "deinitialize", "stateOff"}
      BY <2>2 DEF StateInv, TurningOn, TurningOff
    <3>2. QED
      BY <2>1, <2>2, <3>1
  <2>3. CASE UNCHANGED p2p /\ (mOpenEe' => mOpenEe)
    BY <2>1, <2>3
  <2>4. QED
    BY <1>2, <2>2, <2>3, ThreadsOpenWhenOn
<1>3. CASE Abort
  BY <1>3 DEF Abort, Fresh
<1>4. CASE TaskBegins \/ TaskEnds
  BY <1>4 DEF TaskBegins, TaskEnds, beam
<1>5. CASE enableInternal \/ executeEeWipe \/ firstBootDone
  BY <1>5 DEF enableInternal, executeEeWipe, firstBootDone, Starts, beam, StateInv, Waiting
<1>6. CASE initialize \/ onNfcEnabled \/ beamOn \/ stateOn \/ startPolling
  <2>1. CASE initialize
    BY <2>1 DEF initialize, Goes, After, beam, StateInv, TurningOn
  <2>2. CASE onNfcEnabled
    BY <2>2 DEF onNfcEnabled, Goes, After, beam, StateInv, TurningOn
  <2>3. CASE beamOn
    BY <2>3 DEF beamOn, Goes, After, StateInv, TurningOn
  <2>4. CASE stateOn
    BY <2>4 DEF stateOn, Goes, After, beam
  <2>5. CASE startPolling
    BY <2>5 DEF startPolling, Goes, After, beam, StateInv
  <2>6. QED
    BY <1>6, <2>1, <2>2, <2>3, <2>4, <2>5
<1>7. CASE initializeFails
  BY <1>7 DEF initializeFails, beam, StateInv, TurningOn
<1>8. CASE disableInternal
  BY <1>8 DEF disableInternal, Starts, After, beam
<1>9. CASE turnOff \/ onNfcDisabled \/ beamOff \/ closeEe \/ deinitialize \/ stateOff
  BY <1>9 DEF turnOff, onNfcDisabled, beamOff, closeEe, deinitialize, stateOff, Goes, After,
     beam, StateInv, TurningOff
<1>10. QED
  BY <1>1, <1>2, <1>3, <1>4, <1>5, <1>6, <1>7, <1>8, <1>9 DEF Next, TaskStep, Threads

(* An adapter that is off has closed the secure element and Beam, however   *)
(* late a binder thread asked for them.                                     *)
THEOREM OffIsClean == Spec => []OffReleasesAll
<1>1. Init => ReleaseInv
  BY DEF Init, ReleaseInv, BeamIsOff
<1>2. ReleaseInv => OffReleasesAll
  BY DEF ReleaseInv, OffReleasesAll, BeamIsOff
<1>3. QED
  BY <1>1, <1>2, StateInit, StateStep, ReleaseStep, PTL DEF Spec
-----------------------------------------------------------------------------
(* Types. *)

(* TypeOK in three parts: the tasks, the settings, and what is routed.      *)
TaskTypes ==
    /\ executor \in Seq(Tasks \X (0 .. SCREEN_STATE_ON_UNLOCKED))
    /\ todo \in Seq(Jobs) /\ pc \in Steps
SettingTypes ==
    /\ prefs \in [nfc : BOOLEAN, override : BOOLEAN, firstBoot : BOOLEAN]
    /\ airplane \in BOOLEAN /\ broadcasts \in Seq(BOOLEAN)
    /\ requests \subseteq Requests /\ excused \subseteq Excuses
    /\ count \in Nat
InputTypes ==
    /\ mScreenState \in ScreenStates
    /\ mEeRoutingState \in BOOLEAN /\ mReaderModeParams \in BOOLEAN /\ mOpenEe \in BOOLEAN
    /\ aids \in [enabled : BOOLEAN, toHost : BOOLEAN] /\ commit \in BOOLEAN
    /\ mIsNdefPushEnabled \in BOOLEAN /\ p2p \in [send : BOOLEAN, receive : BOOLEAN]
RoutingTypes ==
    /\ chip \in ChipKinds
    /\ mNfcPollingEnabled \in BOOLEAN /\ mHostRouteEnabled \in BOOLEAN
    /\ mNfceeRouteEnabled \in BOOLEAN /\ mReaderModeEnabled \in BOOLEAN
    /\ device \in [on : BOOLEAN, polling : BOOLEAN, host : BOOLEAN, nfcee : BOOLEAN,
                   reader : BOOLEAN]
DeviceTypes == [on : BOOLEAN, polling : BOOLEAN, host : BOOLEAN, nfcee : BOOLEAN,
                reader : BOOLEAN]

(* A controller that is told to poll, or not to, is still a controller.     *)
LEMMA PollsTyped == \A dev \in DeviceTypes, on \in BOOLEAN : Polls(dev, on) \in DeviceTypes
BY DEF Polls, DeviceTypes

(* Applying the routing keeps the types of what it writes.                  *)
LEMMA ApplyTyped ==
    ASSUME NEW force \in BOOLEAN, RoutingTypes, InputTypes', UNCHANGED chip, applyRouting(force)
    PROVE  RoutingTypes'
<1> USE DEF RoutingTypes, InputTypes
<1>1. CASE UNCHANGED routing
  BY <1>1 DEF routing, flags
<1>2. CASE screenOffQuirk(force)
  <2>1. /\ mNfcPollingEnabled' \in BOOLEAN /\ mNfceeRouteEnabled' \in BOOLEAN
        /\ UNCHANGED <<mHostRouteEnabled, mReaderModeEnabled>>
    BY <1>2 DEF screenOffQuirk
  <2>2. device' \in DeviceTypes
    <3>1. device \in DeviceTypes
      BY DEF DeviceTypes
    <3>2. Polls(device, FALSE) \in DeviceTypes
      BY <3>1, PollsTyped
    <3>3. \A d \in DeviceTypes : [d EXCEPT !.nfcee = FALSE] \in DeviceTypes
      BY DEF DeviceTypes
    <3>4. QED
      BY <1>2, <3>1, <3>2, <3>3 DEF screenOffQuirk
  <2>3. QED
    BY <2>1, <2>2 DEF DeviceTypes
<1>3. CASE routeAndPoll(force)
  <2>1. /\ mNfcPollingEnabled' \in BOOLEAN /\ mNfceeRouteEnabled' \in BOOLEAN
        /\ mHostRouteEnabled' \in BOOLEAN /\ mReaderModeEnabled' \in BOOLEAN
        /\ hostWanted \in BOOLEAN /\ nfceeWanted \in BOOLEAN /\ pollingWanted \in BOOLEAN
    <3>1. hostWanted \in BOOLEAN
      BY DEF hostWanted
    <3>2. nfceeWanted \in BOOLEAN
      BY DEF nfceeWanted
    <3>3. pollingWanted \in BOOLEAN
      BY DEF pollingWanted
    <3>4. /\ mHostRouteEnabled' = hostWanted /\ mNfceeRouteEnabled' = nfceeWanted
          /\ mNfcPollingEnabled' = pollingWanted
      BY <1>3 DEF routeAndPoll
    <3>5. mReaderModeEnabled' \in BOOLEAN
      BY <1>3, Zenon DEF routeAndPoll
    <3>6. QED
      BY <3>1, <3>2, <3>3, <3>4, <3>5
  <2>2. device' \in DeviceTypes
    <3>1. device \in DeviceTypes
      BY DEF DeviceTypes
    <3>2. Polls(device, pollingWanted) \in DeviceTypes
      BY <2>1, <3>1, PollsTyped
    <3> DEFINE d == IF Touches(force, mNfcPollingEnabled, pollingWanted)
                    THEN Polls(device, pollingWanted) ELSE device
    <3>3. d \in DeviceTypes
      BY <3>1, <3>2
    <3> HIDE DEF d
    <3>4. \A e \in DeviceTypes, r \in BOOLEAN, h \in BOOLEAN, n \in BOOLEAN :
             [e EXCEPT !.reader = r, !.host = h, !.nfcee = n] \in DeviceTypes
      BY DEF DeviceTypes
    <3> DEFINE r == IF mReaderModeEnabled' # mReaderModeEnabled /\ d.polling
                    THEN mReaderModeEnabled' ELSE d.reader
               h == IF Touches(force, mHostRouteEnabled, hostWanted) THEN hostWanted ELSE d.host
               n == IF Touches(force, mNfceeRouteEnabled, nfceeWanted) /\ ~chip.pn547
                    THEN nfceeWanted ELSE d.nfcee
    <3>5. r \in BOOLEAN /\ h \in BOOLEAN /\ n \in BOOLEAN
      BY <2>1, <3>3 DEF DeviceTypes
    <3>6. device' = [d EXCEPT !.reader = r, !.host = h, !.nfcee = n]
      BY <1>3 DEF routeAndPoll, d
    <3> HIDE DEF r, h, n
    <3>7. QED
      BY <3>3, <3>4, <3>5, <3>6
  <2>3. QED
    BY <2>1, <2>2 DEF DeviceTypes
<1>4. QED
  BY <1>1, <1>2, <1>3 DEF applyRouting

(* The tasks stay what the executor can run.                                *)
LEMMA TaskTypesStep == TaskTypes /\ [Next]_vars => TaskTypes'
<1> SUFFICES ASSUME TaskTypes, [Next]_vars PROVE TaskTypes'
  OBVIOUS
<1> USE DEF TaskTypes
<1>a. ASSUME UNCHANGED tasks PROVE TaskTypes'
  BY <1>a DEF tasks
<1>b. ASSUME NEW t \in Tasks, NEW s \in 0 .. SCREEN_STATE_ON_UNLOCKED,
             executor' = Append(executor, <<t, s>>), UNCHANGED <<todo, pc>>
      PROVE  TaskTypes'
  BY <1>b
<1>c. 0 \in 0 .. SCREEN_STATE_ON_UNLOCKED
  BY DEF SCREEN_STATE_ON_UNLOCKED
<1>1. CASE UNCHANGED vars
  BY <1>1, <1>a DEF vars
<1>2. CASE PowerRequest
  <2>1. \/ UNCHANGED tasks
        \/ /\ UNCHANGED <<todo, pc>>
           /\ \E t \in Tasks : executor' = Append(executor, <<t, 0>>)
    BY <1>2, PowerRequestKeeps DEF SameDevice, tasks, Tasks
  <2>2. QED
    BY <2>1, <1>a, <1>b, <1>c
<1>3. CASE RoutingInput
  <2>1. \/ UNCHANGED tasks
        \/ /\ UNCHANGED <<todo, pc>>
           /\ \E s \in 0 .. SCREEN_STATE_ON_UNLOCKED : executor' = Append(executor, <<"apply", s>>)
    <3>1. (\E screen \in ScreenStates : ScreenBroadcast(screen)) =>
             /\ UNCHANGED <<todo, pc>>
             /\ \E s \in 0 .. SCREEN_STATE_ON_UNLOCKED :
                   executor' = Append(executor, <<"apply", s>>)
      BY DEF ScreenBroadcast, SameDevice, ScreenStates, SCREEN_STATE_OFF, SCREEN_STATE_ON_UNLOCKED
    <3>2. (\E route \in BOOLEAN : setCardEmulationRoute(route)) =>
             /\ UNCHANGED <<todo, pc>>
             /\ \E s \in 0 .. SCREEN_STATE_ON_UNLOCKED :
                   executor' = Append(executor, <<"apply", s>>)
      BY DEF setCardEmulationRoute, SCREEN_STATE_ON_UNLOCKED
    <3>3. setReaderMode \/ setNdefPush \/ AidsChange \/ CommitRouting \/ openEe \/ nfcEeClose
             => UNCHANGED tasks
      BY DEF setReaderMode, setNdefPush, AidsChange, CommitRouting, openEe, nfcEeClose, Untasked
    <3>4. QED
      BY <1>3, <3>1, <3>2, <3>3 DEF RoutingInput
  <2>2. QED
    BY <2>1, <1>a, <1>b DEF Tasks
<1>4. CASE Abort
  <2>1. <<"boot", 0>> \in Tasks \X (0 .. SCREEN_STATE_ON_UNLOCKED)
    BY DEF Tasks, SCREEN_STATE_OFF, SCREEN_STATE_ON_UNLOCKED
  <2>2. QED
    BY <1>4, <2>1 DEF Abort, Fresh, Steps, Waiting
<1>5. CASE TaskBegins \/ TaskEnds \/ ApplyRoutingTask
  <2>1. \A task \in Tasks \ {"apply"} : Plan(task) \in Seq(Jobs)
    <3>1. /\ <<"enable">> \in Seq(Jobs) /\ <<"wipe", "booted">> \in Seq(Jobs)
          /\ <<"disable", "enable">> \in Seq(Jobs) /\ <<>> \in Seq(Jobs)
          /\ <<"disable">> \in Seq(Jobs) /\ <<"wipe">> \in Seq(Jobs)
      BY DEF Jobs
    <3>2. \A p, q \in Seq(Jobs) : p \o q \in Seq(Jobs)
      OBVIOUS
    <3>3. Plan("boot") \in Seq(Jobs)
      BY <3>1, <3>2 DEF Plan
    <3>4. Plan("reset") \in Seq(Jobs)
      BY <3>1 DEF Plan
    <3>5. \A task \in {"enable", "disable", "wipe"} : Plan(task) \in Seq(Jobs)
      BY <3>1 DEF Plan
    <3>6. QED
      BY <3>3, <3>4, <3>5 DEF Tasks
  <2>2. CASE TaskBegins
    <3>1. /\ Head(executor)[1] \in Tasks \ {"apply"}
          /\ Tail(executor) \in Seq(Tasks \X (0 .. SCREEN_STATE_ON_UNLOCKED))
      BY <2>2 DEF TaskBegins
    <3>2. QED
      BY <2>1, <2>2, <3>1 DEF TaskBegins, Steps, Waiting
  <2>3. CASE TaskEnds
    BY <2>3 DEF TaskEnds, Steps, Waiting
  <2>4. CASE ApplyRoutingTask
    BY <2>4 DEF ApplyRoutingTask
  <2>5. QED
    BY <1>5, <2>2, <2>3, <2>4
<1>6. CASE \/ enableInternal \/ executeEeWipe \/ firstBootDone \/ disableInternal
  <2>1. WipeJobs(mState) \o Tail(todo) \in Seq(Jobs) /\ Tail(todo) \in Seq(Jobs)
    <3>1. todo # <<>>
      BY <1>6 DEF enableInternal, executeEeWipe, firstBootDone, disableInternal, Starts
    <3>2. Tail(todo) \in Seq(Jobs)
      BY <3>1
    <3>5. <<"enable", "disable">> \in Seq(Jobs) /\ <<>> \in Seq(Jobs)
      BY DEF Jobs
    <3>3. WipeJobs(mState) \in Seq(Jobs)
      BY <3>5 DEF WipeJobs
    <3>4. QED
      BY <3>2, <3>3
  <2>2. UNCHANGED executor /\ todo' \in Seq(Jobs)
    BY <1>6, <2>1 DEF enableInternal, executeEeWipe, firstBootDone, disableInternal, Starts
  <2>3. pc' \in Steps
    BY <1>6 DEF enableInternal, executeEeWipe, firstBootDone, disableInternal, Starts, After,
       Steps, TurningOn
  <2>4. QED
    BY <2>2, <2>3
<1>7. CASE \/ initialize \/ onNfcEnabled \/ beamOn \/ stateOn \/ startPolling \/ turnOff
           \/ onNfcDisabled \/ beamOff \/ closeEe \/ deinitialize \/ stateOff \/ initializeFails
  <2>1. UNCHANGED <<executor, todo>> /\ pc' \in {After(pc), "next"}
    BY <1>7 DEF initialize, onNfcEnabled, beamOn, stateOn, startPolling, turnOff, onNfcDisabled,
       beamOff, closeEe, deinitialize, stateOff, initializeFails, Goes
  <2>2. \A step : After(step) \in Steps
    BY DEF After, Steps, Waiting, TurningOn, TurningOff
  <2>3. QED
    BY <2>1, <2>2 DEF Steps, Waiting
<1>8. QED
  BY <1>1, <1>2, <1>3, <1>4, <1>5, <1>6, <1>7 DEF Next, TaskStep
(* The preferences, the broadcasts and the bounded inputs.                  *)
LEMMA SettingTypesStep == SettingTypes /\ [Next]_vars => SettingTypes'
<1> SUFFICES ASSUME SettingTypes, [Next]_vars PROVE SettingTypes'
  OBVIOUS
<1> USE DEF SettingTypes
<1>a. ASSUME UNCHANGED <<settings, excused, count>> PROVE SettingTypes'
  BY <1>a DEF settings
<1>b. ASSUME Count PROVE count' \in Nat
  BY <1>b DEF Count
<1>1. CASE UNCHANGED vars
  BY <1>1, <1>a DEF vars
<1>2. CASE PowerRequest
  <2>0. /\ \A step \in Requests : requests \cup {step} \subseteq Requests
        /\ \A step \in Requests, next \in SUBSET Requests :
              (requests \ {step}) \cup next \subseteq Requests
        /\ \A why \in SUBSET Excuses : excused \cup why \subseteq Excuses
    OBVIOUS
  <2> USE DEF Requests, EnableCall, OnMain, AirplaneOff, AirplaneOn, ModemCall, Excuses
  <2>b. ASSUME NEW step \in Requests, Begins(step)
        PROVE  requests' \subseteq Requests /\ excused' \subseteq Excuses
    BY <2>b DEF Begins
  <2>1. ASSUME NEW call \in {"enable", "disable"}, SavePreference(call) PROVE SettingTypes'
    <3>1. /\ Count /\ Begins(IF call = "enable" THEN "mode" ELSE "disable")
          /\ UNCHANGED <<airplane, broadcasts>>
          /\ prefs' = [prefs EXCEPT !.nfc = (call = "enable")]
      BY <2>1 DEF SavePreference
    <3>2. requests' \subseteq Requests /\ excused' \subseteq Excuses
      BY <3>1, <2>b
    <3>3. prefs' \in [nfc : BOOLEAN, override : BOOLEAN, firstBoot : BOOLEAN]
      BY <3>1
    <3>4. QED
      BY <1>b, <3>1, <3>2, <3>3
  <2>2. CASE AirplaneBroadcast
    <3>1. /\ broadcasts' = Tail(broadcasts) /\ broadcasts # <<>>
          /\ UNCHANGED <<airplane, prefs, count>>
          /\ UNCHANGED <<requests, excused>> \/ Begins("forbid") \/ Begins("permit")
      BY <2>2 DEF AirplaneBroadcast
    <3>2. broadcasts' \in Seq(BOOLEAN)
      BY <3>1
    <3>3. requests' \subseteq Requests /\ excused' \subseteq Excuses
      BY <3>1, <2>b
    <3>4. QED
      BY <3>1, <3>2, <3>3
  <2>3. CASE AirplaneModeChanges
    BY <1>b, <2>3 DEF AirplaneModeChanges
  <2>4. CASE disableWithoutSaving \/ WipeRequested
    BY <1>b, <2>4 DEF disableWithoutSaving, WipeRequested, settings
  <2>5. CASE SimStateChanged \/ csmClientModemUnavailable
    <3>1. /\ Count /\ UNCHANGED <<prefs, airplane, broadcasts>>
          /\ Begins("reset") \/ Begins("modemDisable")
      BY <2>5 DEF SimStateChanged, csmClientModemUnavailable
    <3>2. QED
      BY <1>b, <3>1, <2>b
  <2>6. CASE \/ enable \/ overrideAirplaneMode \/ executeTask \/ clearOverride
             \/ readPreference \/ simReset \/ modemReset
    <3>1. /\ UNCHANGED <<airplane, broadcasts, count>>
          /\ prefs' \in {prefs, [prefs EXCEPT !.override = TRUE],
                         [prefs EXCEPT !.override = FALSE]}
      BY <2>6 DEF enable, overrideAirplaneMode, executeTask, clearOverride, readPreference,
         simReset, modemReset, OnlySteps
    <3>2. requests' \subseteq Requests
      BY <2>6 DEF enable, overrideAirplaneMode, executeTask, clearOverride, readPreference,
         simReset, modemReset, Takes
    <3>3. excused' \subseteq Excuses
      BY <2>6 DEF enable, overrideAirplaneMode, executeTask, clearOverride, readPreference,
         simReset, modemReset, Late
    <3>4. prefs' \in [nfc : BOOLEAN, override : BOOLEAN, firstBoot : BOOLEAN]
      BY <3>1
    <3>5. QED
      BY <3>1, <3>2, <3>3, <3>4
  <2>7. QED
    BY <1>2, <2>1, <2>2, <2>3, <2>4, <2>5, <2>6 DEF PowerRequest
<1>3. CASE RoutingInput
  <2>1. UNCHANGED <<settings, excused>> /\ (UNCHANGED count \/ Count)
    BY <1>3 DEF RoutingInput, ScreenBroadcast, setCardEmulationRoute, setReaderMode, setNdefPush,
       AidsChange, CommitRouting, openEe, nfcEeClose, Untasked
  <2>2. QED
    BY <2>1, <1>a, <1>b DEF settings
<1>4. CASE Abort
  <2>1. /\ Count /\ UNCHANGED <<prefs, airplane>>
        /\ broadcasts' = <<>> /\ requests' = {} /\ excused' = {}
    BY <1>4 DEF Abort, Fresh
  <2>2. count' \in Nat
    BY <2>1, <1>b
  <2>3. broadcasts' \in Seq(BOOLEAN)
    BY <2>1
  <2>4. /\ prefs' \in [nfc : BOOLEAN, override : BOOLEAN, firstBoot : BOOLEAN]
        /\ airplane' \in BOOLEAN /\ excused' \subseteq Excuses
    BY <2>1
  <2>5. requests' \subseteq Requests
    BY <2>1
  <2>6. QED
    BY <2>2, <2>3, <2>4, <2>5
<1>5. CASE TaskBegins \/ TaskEnds \/ ApplyRoutingTask \/ executeEeWipe \/ disableInternal
  BY <1>5, <1>a DEF TaskBegins, TaskEnds, ApplyRoutingTask, executeEeWipe, disableInternal,
     Starts, settings
<1>6. CASE enableInternal \/ firstBootDone \/ initializeFails
  BY <1>6 DEF enableInternal, firstBootDone, initializeFails, Starts, settings, Excuses
<1>7. CASE \/ initialize \/ onNfcEnabled \/ beamOn \/ stateOn \/ startPolling \/ turnOff
           \/ onNfcDisabled \/ beamOff \/ closeEe \/ deinitialize \/ stateOff
  BY <1>7, <1>a DEF initialize, onNfcEnabled, beamOn, stateOn, startPolling, turnOff,
     onNfcDisabled, beamOff, closeEe, deinitialize, stateOff, Goes
<1>8. QED
  BY <1>1, <1>2, <1>3, <1>4, <1>5, <1>6, <1>7 DEF Next, TaskStep

(* The screen, the route, the AIDs, Beam and the secure element.            *)
LEMMA InputTypesStep == TaskTypes /\ InputTypes /\ [Next]_vars => InputTypes'
<1> SUFFICES ASSUME TaskTypes, InputTypes, [Next]_vars PROVE InputTypes'
  OBVIOUS
<1> USE DEF InputTypes
<1>a. ASSUME UNCHANGED <<beam, inputs, mOpenEe, aids, commit>> PROVE InputTypes'
  BY <1>a DEF beam, inputs
<1>1. CASE UNCHANGED vars
  BY <1>1, <1>a DEF vars
<1>2. CASE PowerRequest
  BY <1>2, <1>a, PowerRequestKeeps DEF SameDevice
<1>3. CASE RoutingInput
  <2>1. CASE \E screen \in ScreenStates : ScreenBroadcast(screen)
    BY <2>1, <1>a DEF ScreenBroadcast, SameDevice
  <2>2. CASE \E route \in BOOLEAN : setCardEmulationRoute(route)
    BY <2>2 DEF setCardEmulationRoute, beam
  <2>3. CASE setReaderMode
    BY <2>3 DEF setReaderMode, beam
  <2>4. CASE setNdefPush
    BY <2>4 DEF setNdefPush, inputs
  <2>5. CASE AidsChange
    BY <2>5 DEF AidsChange, beam, inputs
  <2>6. CASE CommitRouting \/ nfcEeClose
    BY <2>6 DEF CommitRouting, nfcEeClose, beam, inputs
  <2>7. CASE openEe
    BY <2>7 DEF openEe, beam, inputs
  <2>8. QED
    BY <1>3, <2>1, <2>2, <2>3, <2>4, <2>5, <2>6, <2>7 DEF RoutingInput
<1>4. CASE Abort
  BY <1>4 DEF Abort, Fresh
<1>5. CASE ApplyRoutingTask
  <2>1. /\ mScreenState' = ScreenAfter(Head(executor)[2])
        /\ UNCHANGED <<beam, mEeRoutingState, mReaderModeParams, mOpenEe, aids, commit>>
    BY <1>5 DEF ApplyRoutingTask
  <2>2. Head(executor)[2] \in 0 .. SCREEN_STATE_ON_UNLOCKED
    BY <1>5 DEF ApplyRoutingTask, TaskTypes
  <2>3. mScreenState' \in ScreenStates
    BY <2>1, <2>2 DEF ScreenAfter, ScreenStates, SCREEN_STATE_OFF, SCREEN_STATE_ON_UNLOCKED
  <2>4. QED
    BY <2>1, <2>3 DEF beam
<1>6. CASE \/ TaskBegins \/ TaskEnds \/ enableInternal \/ executeEeWipe \/ firstBootDone
           \/ disableInternal \/ initializeFails \/ initialize \/ stateOn \/ startPolling
           \/ turnOff \/ deinitialize \/ stateOff
  BY <1>6, <1>a DEF TaskBegins, TaskEnds, enableInternal, executeEeWipe, firstBootDone,
     disableInternal, initializeFails, initialize, stateOn, startPolling, turnOff,
     deinitialize, stateOff
<1>7. CASE onNfcEnabled \/ onNfcDisabled
  <2>1. UNCHANGED <<beam, inputs, mOpenEe>>
    BY <1>7 DEF onNfcEnabled, onNfcDisabled
  <2>2. CASE onNfcEnabled
    <3>1. aids' \in [enabled : BOOLEAN, toHost : BOOLEAN]
      BY <2>2 DEF onNfcEnabled
    <3>2. aids'.toHost \in BOOLEAN
      BY <3>1
    <3>3. commit' \in BOOLEAN
      BY <2>2, <3>2, Zenon DEF onNfcEnabled
    <3>4. QED
      BY <2>1, <3>1, <3>3 DEF beam, inputs
  <2>3. CASE onNfcDisabled
    <3>1. /\ aids' \in {aids, [enabled |-> FALSE, toHost |-> FALSE]}
          /\ UNCHANGED commit
      BY <2>3 DEF onNfcDisabled
    <3>2. aids \in [enabled : BOOLEAN, toHost : BOOLEAN]
      OBVIOUS
    <3>3. [enabled |-> FALSE, toHost |-> FALSE] \in [enabled : BOOLEAN, toHost : BOOLEAN]
      OBVIOUS
    <3>4. aids' \in [enabled : BOOLEAN, toHost : BOOLEAN]
      BY <3>1, <3>2, <3>3
    <3>5. QED
      BY <2>1, <3>1, <3>4 DEF beam, inputs
  <2>4. QED
    BY <1>7, <2>2, <2>3
<1>8. CASE beamOn \/ beamOff \/ closeEe
  <2>1. CASE beamOn \/ beamOff
    <3>1. /\ UNCHANGED <<inputs, mIsNdefPushEnabled, mOpenEe, aids, commit>>
          /\ p2p' \in {[send |-> FALSE, receive |-> FALSE],
                       [send |-> mIsNdefPushEnabled, receive |-> TRUE]}
      BY <2>1 DEF beamOn, beamOff
    <3>2. [send |-> FALSE, receive |-> FALSE] \in [send : BOOLEAN, receive : BOOLEAN]
      OBVIOUS
    <3>3. mIsNdefPushEnabled \in BOOLEAN
      OBVIOUS
    <3>4. [send |-> mIsNdefPushEnabled, receive |-> TRUE] \in [send : BOOLEAN, receive : BOOLEAN]
      BY <3>3
    <3>5. p2p' \in [send : BOOLEAN, receive : BOOLEAN]
      BY <3>1, <3>2, <3>4
    <3>6. QED
      BY <3>1, <3>5 DEF inputs
  <2>2. CASE closeEe
    <3>1. UNCHANGED <<beam, inputs, aids, commit>> /\ mOpenEe' = FALSE
      BY <2>2 DEF closeEe
    <3>2. QED
      BY <3>1 DEF beam, inputs
  <2>3. QED
    BY <1>8, <2>1, <2>2
<1>9. QED
  BY <1>1, <1>2, <1>3, <1>4, <1>5, <1>6, <1>7, <1>8 DEF Next, TaskStep

(* The flags of the routing and the controller.                             *)
LEMMA RoutingTypesStep ==
    RoutingTypes /\ InputTypes /\ InputTypes' /\ [Next]_vars => RoutingTypes'
<1> SUFFICES ASSUME RoutingTypes, InputTypes, InputTypes', [Next]_vars PROVE RoutingTypes'
  OBVIOUS
<1>a. ASSUME UNCHANGED <<chip, routing>> PROVE RoutingTypes'
  BY <1>a DEF RoutingTypes, routing, flags
<1>b. ASSUME UNCHANGED chip, NEW force \in BOOLEAN, applyRouting(force) PROVE RoutingTypes'
  BY <1>b, ApplyTyped
<1>1. CASE UNCHANGED vars
  BY <1>1, <1>a DEF vars
<1>2. CASE PowerRequest
  BY <1>2, <1>a, PowerRequestKeeps DEF SameDevice
<1>3. CASE RoutingInput
  <2>1. CASE \E screen \in ScreenStates : ScreenBroadcast(screen)
    BY <2>1, <1>a DEF ScreenBroadcast, SameDevice
  <2>2. CASE \E route \in BOOLEAN : setCardEmulationRoute(route)
    BY <2>2, <1>a DEF setCardEmulationRoute
  <2>3. CASE setReaderMode
    BY <2>3, <1>b DEF setReaderMode, Untasked
  <2>4. CASE setNdefPush \/ AidsChange
    BY <2>4, <1>a DEF setNdefPush, AidsChange, Untasked
  <2>5. CASE CommitRouting
    BY <2>5, <1>b DEF CommitRouting, Untasked
  <2>6. CASE nfcEeClose
    <3>1. UNCHANGED chip /\ applyRouting(~chip.pn547)
      BY <2>6 DEF nfcEeClose, Untasked
    <3>2. (~chip.pn547) \in BOOLEAN
      OBVIOUS
    <3>3. QED
      BY <3>1, <3>2, <1>b
  <2>7. CASE openEe
    <3>1. /\ UNCHANGED <<chip, mHostRouteEnabled, mNfceeRouteEnabled, mReaderModeEnabled>>
          /\ mNfcPollingEnabled' \in BOOLEAN
      BY <2>7, Zenon DEF openEe, Untasked, RoutingTypes
    <3>2. device \in DeviceTypes
      BY DEF RoutingTypes, DeviceTypes
    <3>3. Polls(device, FALSE) \in DeviceTypes
      BY <3>2, PollsTyped
    <3>4. Polls(Polls(device, FALSE), TRUE) \in DeviceTypes /\ Polls(device, TRUE) \in DeviceTypes
      BY <3>2, <3>3, PollsTyped
    <3>5. device' \in DeviceTypes
      BY <2>7, <3>2, <3>3, <3>4 DEF openEe
    <3>6. QED
      BY <3>1, <3>5 DEF RoutingTypes, DeviceTypes
  <2>8. QED
    BY <1>3, <2>1, <2>2, <2>3, <2>4, <2>5, <2>6, <2>7 DEF RoutingInput
<1>4. CASE Abort
  BY <1>4 DEF Abort, Fresh, RoutingTypes, Down
<1>5. CASE ApplyRoutingTask
  <2>1. UNCHANGED chip /\ applyRouting(Head(executor)[2] = 0)
    BY <1>5 DEF ApplyRoutingTask
  <2>2. (Head(executor)[2] = 0) \in BOOLEAN
    OBVIOUS
  <2>3. QED
    BY <2>1, <2>2, <1>b
<1>6. CASE startPolling
  BY <1>6, <1>b DEF startPolling, Goes
<1>7. CASE closeEe
  <2>1. UNCHANGED chip /\ (applyRouting(~chip.pn547) \/ UNCHANGED routing)
    BY <1>7 DEF closeEe, Goes
  <2>2. (~chip.pn547) \in BOOLEAN
    OBVIOUS
  <2>3. QED
    BY <2>1, <2>2, <1>a, <1>b
<1>8. CASE \/ TaskBegins \/ TaskEnds \/ enableInternal \/ executeEeWipe \/ firstBootDone
           \/ initializeFails \/ onNfcEnabled \/ onNfcDisabled \/ beamOn \/ beamOff \/ stateOn
           \/ turnOff \/ stateOff
  BY <1>8, <1>a DEF TaskBegins, TaskEnds, enableInternal, executeEeWipe, firstBootDone, Starts,
     initializeFails, onNfcEnabled, onNfcDisabled, beamOn, beamOff, stateOn, turnOff,
     stateOff, Goes
<1>9. CASE initialize \/ deinitialize \/ disableInternal
  <2>1. UNCHANGED <<chip, mNfcPollingEnabled, mNfceeRouteEnabled, mReaderModeEnabled>>
    BY <1>9 DEF initialize, deinitialize, disableInternal, Goes, Starts, flags, routing
  <2>2. mHostRouteEnabled' \in BOOLEAN
    BY <1>9 DEF initialize, deinitialize, disableInternal, flags, routing, RoutingTypes
  <2>3. device' \in {device, Down, [device EXCEPT !.on = TRUE], [device EXCEPT !.host = FALSE]}
    BY <1>9 DEF initialize, deinitialize, disableInternal, flags, routing
  <2>4. device' \in DeviceTypes
    <3>1. device \in DeviceTypes
      BY DEF RoutingTypes, DeviceTypes
    <3>2. Down \in DeviceTypes
      BY DEF DeviceTypes, Down
    <3>3. [device EXCEPT !.on = TRUE] \in DeviceTypes
      BY <3>1 DEF DeviceTypes
    <3>4. [device EXCEPT !.host = FALSE] \in DeviceTypes
      BY <3>1 DEF DeviceTypes
    <3>5. QED
      BY <2>3, <3>1, <3>2, <3>3, <3>4
  <2>5. QED
    BY <2>1, <2>2, <2>4 DEF RoutingTypes, DeviceTypes
<1>10. QED
  BY <1>1, <1>2, <1>3, <1>4, <1>5, <1>6, <1>7, <1>8, <1>9 DEF Next, TaskStep

(* At boot every variable has its type.                                    *)
LEMMA TypesInit == Init => TaskTypes /\ SettingTypes /\ InputTypes /\ RoutingTypes
<1> SUFFICES ASSUME Init PROVE TaskTypes /\ SettingTypes /\ InputTypes /\ RoutingTypes
  OBVIOUS
<1>1. TaskTypes
  <2>1. <<"boot", 0>> \in Tasks \X (0 .. SCREEN_STATE_ON_UNLOCKED)
    BY DEF Tasks, SCREEN_STATE_OFF, SCREEN_STATE_ON_UNLOCKED
  <2>2. QED
    BY <2>1 DEF Init, TaskTypes, Steps, Waiting
<1>2. SettingTypes
  <2>1. prefs \in [nfc : BOOLEAN, override : BOOLEAN, firstBoot : BOOLEAN]
    BY DEF Init
  <2>2. broadcasts \in Seq(BOOLEAN) /\ count \in Nat
    BY DEF Init
  <2>3. QED
    BY <2>1, <2>2 DEF Init, SettingTypes
<1>3. InputTypes
  BY DEF Init, InputTypes
<1>4. RoutingTypes
  BY ChipsAssumption DEF Init, RoutingTypes, Down
<1>5. QED
  BY <1>1, <1>2, <1>3, <1>4

(* Every variable keeps its type, for every controller and every input.     *)
THEOREM TypesCorrect == Spec => []TypeOK
<1> DEFINE Types == TaskTypes /\ SettingTypes /\ InputTypes /\ RoutingTypes
<1>1. Init => Types
  BY TypesInit
<1>2. Types /\ [Next]_vars => Types'
  BY TaskTypesStep, SettingTypesStep, InputTypesStep, RoutingTypesStep
<1>3. StateInv => mState \in States
  BY DEF StateInv, States, Steps, Waiting, TurningOn, TurningOff
<1>4. Types /\ StateInv => TypeOK
  BY <1>3 DEF TypeOK, TaskTypes, SettingTypes, InputTypes, RoutingTypes
<1>5. QED
  BY <1>1, <1>2, <1>4, StateInit, StateStep, PTL DEF Spec
-----------------------------------------------------------------------------
(* What a queue of tasks comes to: the last one that says on or off counts. *)

Words == Tasks \cup Jobs
Neutral == {"wipe", "apply", "booted"}

(* The state after a task that begins in one: boot is what a boot comes to. *)
Outcome(word, boot, state) ==
    CASE word \in {"enable", "reset"} -> "ON"
      [] word = "disable" -> "OFF"
      [] word = "boot" -> boot
      [] OTHER -> state

Deciding(queue) == {i \in 1 .. Len(queue) : queue[i] \notin Neutral}
Last(S) == CHOOSE i \in S : \A j \in S : j <= i
Final(queue, boot, state) ==
    IF Deciding(queue) = {} THEN state
    ELSE Outcome(queue[Last(Deciding(queue))], boot, state)

(* A set of positions has a last one, and no other one is last.             *)
LEMMA LastExists ==
    ASSUME NEW n \in Nat, NEW S, S \subseteq 1 .. n, S # {}
    PROVE  Last(S) \in S /\ \A j \in S : j <= Last(S)
<1> DEFINE T == {n - i : i \in S}
<1>0. \A i \in S : i \in Nat /\ n - i \in Nat
  OBVIOUS
<1>1. T \subseteq Nat /\ T # {}
  BY <1>0
<1>2. PICK m \in T : \A j \in T : ~(<<j, m>> \in OpToRel(<, Nat))
  BY <1>1, WFMin, NatLessThanWellFounded
<1>3. PICK i \in S : m = n - i
  BY <1>2
<1>4. ASSUME NEW j \in S, j > i PROVE FALSE
  <2>0. j \in Nat /\ i \in Nat /\ n - j \in Nat /\ n - i \in Nat
    BY <1>0, <1>3, <1>4
  <2>1. n - j \in T /\ n - j < m /\ n - j \in Nat /\ m \in Nat
    BY <2>0, <1>3, <1>4
  <2>2. <<n - j, m>> \in OpToRel(<, Nat)
    BY <2>1 DEF OpToRel
  <2>3. QED
    BY <1>2, <2>1, <2>2
<1>5. \A j \in S : j <= i
  <2>1. \A j \in S : j \in Nat /\ i \in Nat /\ ~(j > i)
    BY <1>0, <1>3, <1>4
  <2>2. QED
    BY <2>1
<1>6. QED
  BY <1>3, <1>5 DEF Last

LEMMA LastIs ==
    ASSUME NEW n \in Nat, NEW S, S \subseteq 1 .. n, NEW i \in S, \A j \in S : j <= i
    PROVE  Last(S) = i
<1>1. Last(S) \in S /\ \A j \in S : j <= Last(S)
  BY LastExists
<1>2. i \in Nat /\ Last(S) \in Nat /\ i <= Last(S) /\ Last(S) <= i
  <2>1. \A j \in S : j \in Nat
    OBVIOUS
  <2>2. QED
    BY <1>1, <2>1
<1>3. QED
  BY <1>2

(* Nothing to do leaves the state as it is.                                 *)
LEMMA FinalEmpty == \A boot, state : Final(<<>>, boot, state) = state
BY DEF Final, Deciding

(* One more task at the end.                                                *)
LEMMA FinalAppend ==
    ASSUME NEW queue \in Seq(Words), NEW word \in Words, NEW boot, NEW state
    PROVE  Final(Append(queue, word), boot, state)
              = Outcome(word, boot, Final(queue, boot, state))
<1> DEFINE n == Len(queue) + 1
           more == Append(queue, word)
<1>1. /\ n \in Nat /\ Len(more) = n /\ more[n] = word
      /\ \A i \in 1 .. Len(queue) : more[i] = queue[i]
  OBVIOUS
<1>2. Deciding(queue) \subseteq 1 .. Len(queue) /\ Deciding(more) \subseteq 1 .. n
  BY <1>1 DEF Deciding
<1>3. CASE word \in Neutral
  <2>1. Deciding(more) = Deciding(queue)
    BY <1>1, <1>3 DEF Deciding
  <2>2. Deciding(queue) # {} => Last(Deciding(queue)) \in 1 .. Len(queue)
    BY <1>2, LastExists
  <2>3. Final(more, boot, state) = Final(queue, boot, state)
    BY <1>1, <2>1, <2>2 DEF Final
  <2>4. \A s : Outcome(word, boot, s) = s
    BY <1>3 DEF Outcome, Neutral
  <2>5. QED
    BY <2>3, <2>4
<1>4. CASE word \notin Neutral
  <2>1. n \in Deciding(more) /\ \A j \in Deciding(more) : j <= n
    BY <1>1, <1>2, <1>4 DEF Deciding
  <2>2. Last(Deciding(more)) = n
    BY <1>1, <1>2, <2>1, LastIs
  <2>3. Final(more, boot, state) = Outcome(word, boot, state)
    BY <1>1, <2>1, <2>2 DEF Final
  <2>4. \A s, t : Outcome(word, boot, s) = Outcome(word, boot, t)
    BY <1>4 DEF Outcome, Neutral, Words, Tasks, Jobs
  <2>5. QED
    BY <2>3, <2>4
<1>5. QED
  BY <1>3, <1>4

(* The first task is done before the others.                                *)
LEMMA FinalHead ==
    ASSUME NEW queue \in Seq(Words), queue # <<>>, NEW boot, NEW state
    PROVE  Final(queue, boot, state)
              = Final(Tail(queue), boot, Outcome(Head(queue), boot, state))
<1> DEFINE rest == Tail(queue)
<1>1. /\ Len(queue) \in Nat /\ Len(queue) >= 1 /\ Len(rest) = Len(queue) - 1
      /\ \A i \in 1 .. Len(rest) : rest[i] = queue[i + 1]
      /\ Head(queue) = queue[1]
  OBVIOUS
<1>2. /\ Deciding(queue) \subseteq 1 .. Len(queue) /\ Deciding(rest) \subseteq 1 .. Len(rest)
      /\ \A i \in 1 .. Len(queue) : i \in Deciding(queue) <=> queue[i] \notin Neutral
      /\ \A i \in 1 .. Len(rest) : i \in Deciding(rest) <=> rest[i] \notin Neutral
  BY DEF Deciding
<1> HIDE DEF rest
<1>3. CASE Deciding(rest) # {}
  <2> DEFINE k == Last(Deciding(rest))
  <2>1. k \in Deciding(rest) /\ \A j \in Deciding(rest) : j <= k
    BY <1>1, <1>2, <1>3, LastExists
  <2> HIDE DEF k
  <2>2. k + 1 \in Deciding(queue)
    BY <1>1, <1>2, <2>1
  <2>3. ASSUME NEW j \in Deciding(queue), j # 1 PROVE j <= k + 1
    <3>1. j - 1 \in 1 .. Len(rest) /\ rest[j - 1] = queue[(j - 1) + 1] /\ (j - 1) + 1 = j
      BY <1>1, <1>2, <2>3
    <3>2. j - 1 \in Deciding(rest)
      BY <1>2, <2>3, <3>1
    <3>3. QED
      BY <1>1, <1>2, <2>1, <3>1, <3>2
  <2>4. \A j \in Deciding(queue) : j <= k + 1
    BY <1>1, <1>2, <2>1, <2>3
  <2>5. Last(Deciding(queue)) = k + 1
    BY <1>1, <1>2, <2>2, <2>4, LastIs
  <2>6. queue[k + 1] = rest[k] /\ rest[k] \notin Neutral /\ rest[k] \in Words
    BY <1>1, <1>2, <2>1
  <2>7. \A s, t : Outcome(rest[k], boot, s) = Outcome(rest[k], boot, t)
    BY <2>6 DEF Outcome, Neutral, Words, Tasks, Jobs
  <2>8. QED
    BY <1>3, <2>2, <2>5, <2>6, <2>7 DEF Final, k, rest
<1>4. CASE Deciding(rest) = {}
  <2>1. \A j \in Deciding(queue) : j = 1
    <3>1. ASSUME NEW j \in Deciding(queue), j # 1 PROVE FALSE
      <4>1. j - 1 \in 1 .. Len(rest) /\ rest[j - 1] = queue[(j - 1) + 1] /\ (j - 1) + 1 = j
        BY <1>1, <1>2, <3>1
      <4>2. QED
        BY <1>2, <1>4, <3>1, <4>1
    <3>2. QED
      BY <3>1
  <2>2. Final(rest, boot, Outcome(Head(queue), boot, state)) = Outcome(Head(queue), boot, state)
    BY <1>4 DEF Final
  <2>3. CASE Head(queue) \in Neutral
    <3>1. Deciding(queue) = {}
      BY <1>1, <1>2, <2>1, <2>3
    <3>2. Outcome(Head(queue), boot, state) = state
      BY <2>3 DEF Outcome, Neutral
    <3>3. QED
      BY <2>2, <3>1, <3>2 DEF Final, rest
  <2>4. CASE Head(queue) \notin Neutral
    <3>1. 1 \in Deciding(queue) /\ \A j \in Deciding(queue) : j <= 1
      BY <1>1, <1>2, <2>1, <2>4
    <3>2. Last(Deciding(queue)) = 1
      BY <1>1, <1>2, <3>1, LastIs
    <3>3. QED
      BY <1>1, <2>2, <3>1, <3>2 DEF Final, rest
  <2>5. QED
    BY <2>3, <2>4
<1>5. QED
  BY <1>3, <1>4
-----------------------------------------------------------------------------
(* What the adapter comes to once the executor is idle. *)

Queued == Tasks \X (0 .. SCREEN_STATE_ON_UNLOCKED)
Names(queue) == [i \in 1 .. Len(queue) |-> queue[i][1]]

LEMMA NamesTyped == \A queue \in Seq(Queued) : Names(queue) \in Seq(Words)
BY DEF Names, Queued, Words

LEMMA NamesAppend ==
    \A queue \in Seq(Queued), t \in Tasks, s \in 0 .. SCREEN_STATE_ON_UNLOCKED :
       Names(Append(queue, <<t, s>>)) = Append(Names(queue), t)
<1> SUFFICES ASSUME NEW queue \in Seq(Queued), NEW t \in Tasks,
                    NEW s \in 0 .. SCREEN_STATE_ON_UNLOCKED
             PROVE  Names(Append(queue, <<t, s>>)) = Append(Names(queue), t)
  OBVIOUS
<1> DEFINE more == Append(queue, <<t, s>>)
<1>1. /\ more \in Seq(Queued) /\ Len(more) = Len(queue) + 1 /\ more[Len(queue) + 1] = <<t, s>>
      /\ \A i \in 1 .. Len(queue) : more[i] = queue[i]
  BY DEF Queued
<1>2. Names(queue) \in Seq(Words) /\ Len(Names(queue)) = Len(queue) /\ t \in Words
  BY NamesTyped DEF Names, Words
<1>3. /\ Len(Append(Names(queue), t)) = Len(queue) + 1
      /\ Append(Names(queue), t)[Len(queue) + 1] = t
      /\ \A i \in 1 .. Len(queue) : Append(Names(queue), t)[i] = queue[i][1]
      /\ Append(Names(queue), t) \in Seq(Words)
  BY <1>2 DEF Names
<1>4. Names(more) \in Seq(Words) /\ Len(Names(more)) = Len(queue) + 1
  <2>1. Names(more) \in Seq(Words)
    BY <1>1, NamesTyped
  <2> HIDE DEF more
  <2>2. Names(more) = [i \in 1 .. Len(queue) + 1 |-> more[i][1]]
    BY <1>1 DEF Names
  <2>3. QED
    BY <2>1, <2>2
<1>5. \A i \in 1 .. Len(queue) + 1 : Names(more)[i] = Append(Names(queue), t)[i]
  <2> SUFFICES ASSUME NEW i \in 1 .. Len(queue) + 1
               PROVE  Names(more)[i] = Append(Names(queue), t)[i]
    OBVIOUS
  <2>1. Names(more)[i] = more[i][1]
    BY <1>1 DEF Names
  <2>2. CASE i = Len(queue) + 1
    BY <1>1, <1>3, <2>1, <2>2
  <2>3. CASE i \in 1 .. Len(queue)
    BY <1>1, <1>3, <2>1, <2>3
  <2>4. i = Len(queue) + 1 \/ i \in 1 .. Len(queue)
    OBVIOUS
  <2>5. QED
    BY <2>2, <2>3, <2>4
<1> HIDE DEF more
<1>6. QED
  BY <1>3, <1>4, <1>5, SeqEqual DEF more

LEMMA NamesTail ==
    \A queue \in Seq(Queued) : queue # <<>> =>
       /\ Names(queue) # <<>> /\ Head(Names(queue)) = Head(queue)[1]
       /\ Names(Tail(queue)) = Tail(Names(queue))
<1> SUFFICES ASSUME NEW queue \in Seq(Queued), queue # <<>>
             PROVE  /\ Names(queue) # <<>> /\ Head(Names(queue)) = Head(queue)[1]
                    /\ Names(Tail(queue)) = Tail(Names(queue))
  OBVIOUS
<1>1. Names(queue) \in Seq(Words) /\ Len(Names(queue)) = Len(queue) /\ Len(queue) >= 1
  BY NamesTyped DEF Names
<1>2. Names(queue) # <<>> /\ Head(Names(queue)) = Head(queue)[1]
  BY <1>1 DEF Names
<1>3. /\ Tail(queue) \in Seq(Queued) /\ Len(Tail(queue)) = Len(queue) - 1
      /\ \A i \in 1 .. Len(queue) - 1 : Tail(queue)[i] = queue[i + 1]
  OBVIOUS
<1>4. /\ Tail(Names(queue)) \in Seq(Words) /\ Len(Tail(Names(queue))) = Len(queue) - 1
      /\ \A i \in 1 .. Len(queue) - 1 : Tail(Names(queue))[i] = queue[i + 1][1]
  BY <1>1 DEF Names
<1>5. /\ Names(Tail(queue)) \in Seq(Words) /\ Len(Names(Tail(queue))) = Len(queue) - 1
      /\ \A i \in 1 .. Len(queue) - 1 : Names(Tail(queue))[i] = queue[i + 1][1]
  BY <1>3, NamesTyped DEF Names
<1>6. QED
  BY <1>2, <1>4, <1>5, SeqEqual

(* Where the running task leads to, and everything that waits after it.     *)
Goal == IF nfcOnAtBoot THEN "ON" ELSE "OFF"
StepFinal ==
    IF pc \in Waiting THEN mState
    ELSE IF pc \in TurningOn \cup {"applyRouting"} THEN "ON" ELSE "OFF"
Ends == Final(Names(executor), Goal, Final(todo, Goal, StepFinal))

(* The boot task is the first, and the adapter is off until it runs.        *)
BootFirst ==
    /\ pc = "idle" => todo = <<>>
    /\ \A i \in 1 .. Len(executor) :
          executor[i][1] = "boot" => i = 1 /\ pc = "idle" /\ mState = "OFF"

(* A task appended to the queue counts last.                                *)
LEMMA EndsAppended ==
    ASSUME TaskTypes, UNCHANGED <<mState, todo, pc>>,
           NEW t \in Tasks, NEW s \in 0 .. SCREEN_STATE_ON_UNLOCKED,
           executor' = Append(executor, <<t, s>>)
    PROVE  Ends' = Outcome(t, Goal', Final(Names(executor), Goal', Final(todo, Goal', StepFinal)))
<1>1. /\ Names(executor)' = Append(Names(executor), t)
      /\ Names(executor) \in Seq(Words) /\ t \in Words
  BY NamesAppend, NamesTyped DEF TaskTypes, Queued, Words
<1>2. StepFinal' = StepFinal /\ todo' = todo
  BY DEF StepFinal
<1> DEFINE base == Final(todo, Goal', StepFinal)
<1>3. Ends' = Final(Append(Names(executor), t), Goal', base)
  BY <1>1, <1>2 DEF Ends, Names
<1> HIDE DEF base
<1>4. Final(Append(Names(executor), t), Goal', base)
         = Outcome(t, Goal', Final(Names(executor), Goal', base))
  BY <1>1, FinalAppend
<1>5. QED
  BY <1>3, <1>4 DEF base

(* What a queue comes to that begins with one task or with two.             *)
LEMMA FinalPrefix ==
    ASSUME NEW boot, NEW state, NEW a \in Words, NEW queue \in Seq(Words)
    PROVE  Final(<<a>> \o queue, boot, state) = Final(queue, boot, Outcome(a, boot, state))
<1> DEFINE more == <<a>> \o queue
<1>0. <<a>> \in Seq(Words) /\ Len(<<a>>) = 1 /\ <<a>>[1] = a
  OBVIOUS
<1>1. /\ more \in Seq(Words) /\ Len(more) = Len(queue) + 1
      /\ \A i \in 1 .. Len(queue) + 1 : more[i] = IF i <= 1 THEN <<a>>[i] ELSE queue[i - 1]
  BY <1>0, ConcatProperties
<1> HIDE DEF more
<1>2. more # <<>> /\ Head(more) = a
  BY <1>0, <1>1
<1>3. Tail(more) = queue
  <2>1. /\ Tail(more) \in Seq(Words) /\ Len(Tail(more)) = Len(queue)
        /\ \A i \in 1 .. Len(queue) : Tail(more)[i] = more[i + 1]
    BY <1>1, <1>2
  <2>2. \A i \in 1 .. Len(queue) : Tail(more)[i] = queue[i]
    BY <1>1, <2>1
  <2>3. QED
    BY <2>1, <2>2, SeqEqual
<1>4. Final(more, boot, state) = Final(Tail(more), boot, Outcome(Head(more), boot, state))
  BY <1>1, <1>2, FinalHead
<1>5. QED
  BY <1>2, <1>3, <1>4 DEF more

LEMMA FinalPrefixes ==
    ASSUME NEW boot, NEW state, NEW a \in Words, NEW b \in Words, NEW queue \in Seq(Words)
    PROVE  Final(<<a, b>> \o queue, boot, state)
              = Final(queue, boot, Outcome(b, boot, Outcome(a, boot, state)))
<1>1. /\ <<a>> \in Seq(Words) /\ <<b>> \in Seq(Words) /\ <<b>> \o queue \in Seq(Words)
  OBVIOUS
<1>2. <<a, b>> = <<a>> \o <<b>>
  <2>1. /\ <<a>> \o <<b>> \in Seq(Words) /\ Len(<<a>> \o <<b>>) = Len(<<a>>) + Len(<<b>>)
        /\ \A i \in 1 .. Len(<<a>>) + Len(<<b>>) :
              (<<a>> \o <<b>>)[i] = IF i <= Len(<<a>>) THEN <<a>>[i] ELSE <<b>>[i - Len(<<a>>)]
    BY <1>1, ConcatProperties
  <2>2. /\ Len(<<a>>) = 1 /\ Len(<<b>>) = 1 /\ <<a>>[1] = a /\ <<b>>[1] = b
        /\ <<a, b>> \in Seq(Words) /\ Len(<<a, b>>) = 2
        /\ <<a, b>>[1] = a /\ <<a, b>>[2] = b
    OBVIOUS
  <2>3. (<<a>> \o <<b>>)[1] = a /\ (<<a>> \o <<b>>)[2] = b
    BY <2>1, <2>2
  <2>4. \A i \in 1 .. 2 : (<<a>> \o <<b>>)[i] = <<a, b>>[i]
    BY <2>2, <2>3
  <2>5. Len(<<a>> \o <<b>>) = 2
    BY <2>1, <2>2
  <2> DEFINE left == <<a>> \o <<b>>
             right == <<a, b>>
  <2>6. /\ left \in Seq(Words) /\ right \in Seq(Words) /\ Len(left) = Len(right)
        /\ \A i \in 1 .. Len(left) : left[i] = right[i]
    BY <2>1, <2>2, <2>4, <2>5
  <2> HIDE DEF left, right
  <2>7. left = right
    BY <2>6, SeqEqual
  <2>8. QED
    BY <2>7 DEF left, right
<1>3. <<a, b>> \o queue = <<a>> \o (<<b>> \o queue)
  BY <1>1, <1>2, ConcatAssociative
<1>4. Final(<<a>> \o (<<b>> \o queue), boot, state)
         = Final(<<b>> \o queue, boot, Outcome(a, boot, state))
  BY <1>1, FinalPrefix
<1>5. QED
  BY <1>3, <1>4, FinalPrefix

(* What the plans of the tasks come to.                                     *)
LEMMA FinalLists ==
    ASSUME NEW boot, NEW state
    PROVE  /\ \A a \in Words : Final(<<a>>, boot, state) = Outcome(a, boot, state)
           /\ \A a, b \in Words : Final(<<a, b>>, boot, state)
                 = Outcome(b, boot, Outcome(a, boot, state))
<1>1. \A a \in Words : <<a>> \in Seq(Words) /\ <<a>> \o <<>> = <<a>>
  BY ConcatEmptySeq
<1>2. \A a, b \in Words : <<a, b>> \in Seq(Words) /\ <<a, b>> \o <<>> = <<a, b>>
  BY ConcatEmptySeq
<1>3. <<>> \in Seq(Words)
  OBVIOUS
<1>4. ASSUME NEW a \in Words PROVE Final(<<a>>, boot, state) = Outcome(a, boot, state)
  <2>1. Final(<<a>> \o <<>>, boot, state) = Final(<<>>, boot, Outcome(a, boot, state))
    BY <1>3, FinalPrefix
  <2>2. QED
    BY <1>1, <2>1, FinalEmpty
<1>5. ASSUME NEW a \in Words, NEW b \in Words
      PROVE  Final(<<a, b>>, boot, state) = Outcome(b, boot, Outcome(a, boot, state))
  <2>1. Final(<<a, b>> \o <<>>, boot, state)
           = Final(<<>>, boot, Outcome(b, boot, Outcome(a, boot, state)))
    BY <1>3, FinalPrefixes
  <2>2. QED
    BY <1>2, <2>1, FinalEmpty
<1>6. QED
  BY <1>4, <1>5

(* A plan comes to what its task says, when the task may begin.             *)
LEMMA PlanFinal ==
    ASSUME NEW task \in Tasks \ {"apply"}, task = "boot" => mState = "OFF"
    PROVE  Final(Plan(task), Goal, mState) = Outcome(task, Goal, mState)
<1> USE FinalLists, FinalEmpty
<1>1. /\ {"enable", "disable", "wipe", "booted"} \subseteq Words
  BY DEF Words, Jobs
<1>2. CASE task = "boot"
  <2> DEFINE rest == IF prefs.firstBoot THEN <<"wipe", "booted">> ELSE <<>>
  <2>1. rest \in Seq(Words)
    BY <1>1
  <2>2. \A state : Final(rest, Goal, state) = state
    BY <1>1 DEF Outcome
  <2>3. CASE nfcOnAtBoot
    <3>1. Plan(task) = <<"enable">> \o rest
      BY <1>2, <2>3 DEF Plan
    <3>2. Final(<<"enable">> \o rest, Goal, mState)
             = Final(rest, Goal, Outcome("enable", Goal, mState))
      <4> HIDE DEF rest
      <4>1. "enable" \in Words
        BY <1>1
      <4>2. QED
        BY <4>1, <2>1, FinalPrefix
    <3>3. QED
      BY <1>2, <2>2, <2>3, <3>1, <3>2 DEF Goal, Outcome
  <2>4. CASE ~nfcOnAtBoot
    <3>1. Plan(task) = rest
      BY <1>2, <2>1, <2>4, ConcatEmptySeq DEF Plan
    <3>2. QED
      BY <1>2, <2>2, <2>4, <3>1 DEF Goal, Outcome
  <2>5. QED
    BY <2>3, <2>4
<1>3. CASE task = "reset"
  BY <1>1, <1>3 DEF Plan, Outcome
<1>4. CASE task \in {"enable", "disable", "wipe"}
  <2>1. Plan(task) = <<task>> /\ task \in Words
    BY <1>1, <1>4 DEF Plan
  <2>2. QED
    BY <2>1
<1>5. QED
  BY <1>2, <1>3, <1>4 DEF Tasks

(* What the executor does on its own changes no setting.                    *)
LEMMA TasksKeepSettings ==
    TaskStep => /\ UNCHANGED <<chip, airplane, broadcasts, requests>>
                /\ excused \subseteq excused'
                /\ prefs' = prefs \/ prefs' = [prefs EXCEPT !.firstBoot = FALSE]
<1> USE DEF settings
<1>1. TaskBegins \/ TaskEnds \/ ApplyRoutingTask =>
         UNCHANGED <<chip, airplane, broadcasts, requests, excused, prefs>>
  BY DEF TaskBegins, TaskEnds, ApplyRoutingTask
<1>2. enableInternal \/ initializeFails \/ disableInternal \/ executeEeWipe =>
         UNCHANGED <<chip, airplane, broadcasts, requests, prefs>> /\ excused \subseteq excused'
  BY DEF enableInternal, initializeFails, disableInternal, executeEeWipe, Starts
<1>3. firstBootDone =>
         /\ UNCHANGED <<chip, airplane, broadcasts, requests, excused>>
         /\ prefs' = [prefs EXCEPT !.firstBoot = FALSE]
  BY DEF firstBootDone, Starts
<1>4. ASSUME \/ initialize \/ onNfcEnabled \/ beamOn \/ stateOn \/ startPolling \/ turnOff
             \/ onNfcDisabled \/ beamOff \/ closeEe \/ deinitialize \/ stateOff
      PROVE  UNCHANGED <<chip, airplane, broadcasts, requests, excused, prefs>>
  BY <1>4 DEF initialize, onNfcEnabled, beamOn, stateOn, startPolling, turnOff, onNfcDisabled,
     beamOff, closeEe, deinitialize, stateOff, Goes
<1>5. QED
  BY <1>1, <1>2, <1>3, <1>4 DEF TaskStep

LEMMA TasksKeepGoal == SettingTypes /\ TaskStep => UNCHANGED <<nfcOnAtBoot, Goal>>
<1> SUFFICES ASSUME SettingTypes, TaskStep PROVE nfcOnAtBoot' = nfcOnAtBoot /\ Goal' = Goal
  OBVIOUS
<1>1. /\ airplane' = airplane
      /\ prefs' = prefs \/ prefs' = [prefs EXCEPT !.firstBoot = FALSE]
  BY TasksKeepSettings
<1>2. prefs \in [nfc : BOOLEAN, override : BOOLEAN, firstBoot : BOOLEAN]
  BY DEF SettingTypes
<1>3. prefs'.nfc = prefs.nfc /\ prefs'.override = prefs.override
  BY <1>1, <1>2
<1>4. QED
  BY <1>1, <1>3 DEF nfcOnAtBoot, Goal

(* What the executor does, as long as nothing fails, leads where it was     *)
(* already known to lead.                                                   *)
LEMMA TasksKeepEnds ==
    ASSUME TaskTypes, SettingTypes, StateInv, BootFirst, TaskStep, excused' = {}
    PROVE  Ends' = Ends
<1>0. Goal' = Goal
  BY TasksKeepGoal
<1>s. todo \in Seq(Words) /\ Names(executor) \in Seq(Words)
  BY NamesTyped DEF TaskTypes, Queued, Words
<1>a. ASSUME UNCHANGED <<executor, todo>>, StepFinal' = StepFinal PROVE Ends' = Ends
  BY <1>0, <1>a DEF Ends, Names
<1>b. ASSUME UNCHANGED executor, todo # <<>>, todo' = Tail(todo),
             StepFinal' = Outcome(Head(todo), Goal, StepFinal)
      PROVE  Ends' = Ends
  <2>1. Final(todo, Goal, StepFinal) = Final(todo', Goal, StepFinal')
    BY <1>b, <1>s, FinalHead
  <2>2. QED
    BY <1>0, <1>b, <2>1 DEF Ends, Names
<1>c. ASSUME executor # <<>>, executor' = Tail(executor), NEW state,
             Final(todo', Goal, StepFinal') = Outcome(Head(executor)[1], Goal, state),
             Final(todo, Goal, StepFinal) = state
      PROVE  Ends' = Ends
  <2>1. /\ Names(executor) # <<>> /\ Head(Names(executor)) = Head(executor)[1]
        /\ Names(executor)' = Tail(Names(executor))
    BY <1>c, NamesTail DEF TaskTypes, Queued, Names
  <2>2. Final(Names(executor), Goal, state)
           = Final(Tail(Names(executor)), Goal, Outcome(Head(executor)[1], Goal, state))
    BY <1>s, <2>1, FinalHead
  <2>3. QED
    BY <1>0, <1>c, <2>1, <2>2 DEF Ends
<1>1. CASE TaskBegins
  <2>1. /\ pc = "idle" /\ executor # <<>> /\ Head(executor)[1] # "apply"
        /\ executor' = Tail(executor) /\ mState' = mState
    BY <1>1 DEF TaskBegins
  <2>2. mState \in {"ON", "OFF"} /\ todo = <<>>
    BY <2>1 DEF StateInv, Waiting, BootFirst
  <2>3. todo' = Plan(Head(executor)[1]) /\ pc' = "next"
    BY <1>1, <2>2 DEF TaskBegins
  <2>4. Head(executor)[1] \in Tasks \ {"apply"}
    BY <2>1 DEF TaskTypes
  <2>5. Head(executor)[1] = "boot" => mState = "OFF"
    <3>1. 1 \in 1 .. Len(executor) /\ Head(executor) = executor[1]
      BY <2>1 DEF TaskTypes
    <3>2. QED
      BY <3>1 DEF BootFirst
  <2>6. StepFinal = mState /\ StepFinal' = mState
    BY <2>1, <2>3 DEF StepFinal, Waiting
  <2>7. Final(todo', Goal, StepFinal') = Outcome(Head(executor)[1], Goal, mState)
    BY <2>3, <2>4, <2>5, <2>6, PlanFinal
  <2>8. Final(todo, Goal, StepFinal) = mState
    BY <2>2, <2>6, FinalEmpty
  <2>9. QED
    BY <1>c, <2>1, <2>7, <2>8
<1>2. CASE TaskEnds
  BY <1>2, <1>a DEF TaskEnds, StepFinal, Waiting
<1>3. CASE ApplyRoutingTask
  <2>1. /\ executor # <<>> /\ Head(executor)[1] = "apply" /\ executor' = Tail(executor)
        /\ UNCHANGED <<mState, todo, pc>>
    BY <1>3 DEF ApplyRoutingTask
  <2>2. StepFinal' = StepFinal
    BY <2>1 DEF StepFinal
  <2>3. \A s : Outcome("apply", Goal, s) = s
    BY DEF Outcome
  <2> DEFINE state == Final(todo, Goal, StepFinal)
  <2>4. Final(todo', Goal, StepFinal') = Outcome(Head(executor)[1], Goal, state)
    BY <2>1, <2>2, <2>3
  <2>5. QED
    BY <1>c, <2>1, <2>4
<1>4. CASE enableInternal
  <2>1. /\ UNCHANGED executor /\ pc = "next" /\ todo # <<>> /\ Head(todo) = "enable"
        /\ todo' = Tail(todo)
    BY <1>4 DEF enableInternal, Starts
  <2>2. Outcome("enable", Goal, StepFinal) = "ON"
    BY DEF Outcome
  <2>3. CASE mState = "ON"
    <3>1. UNCHANGED <<mState, pc>>
      BY <1>4, <2>3 DEF enableInternal
    <3>2. StepFinal' = "ON"
      BY <2>1, <2>3, <3>1 DEF StepFinal, Waiting
    <3>3. QED
      BY <1>b, <2>1, <2>2, <3>2
  <2>4. CASE pc' = "initialize"
    <3>1. StepFinal' = "ON"
      BY <2>4 DEF StepFinal, Waiting, TurningOn
    <3>2. QED
      BY <1>b, <2>1, <2>2, <3>1
  <2>5. CASE mState # "ON" /\ pc' # "initialize"
    <3>1. "fault" \in excused'
      BY <1>4, <2>5 DEF enableInternal
    <3>2. QED
      BY <3>1
  <2>6. QED
    BY <2>3, <2>4, <2>5
<1>5. CASE initialize \/ onNfcEnabled \/ beamOn \/ stateOn
  <2>1. /\ UNCHANGED <<executor, todo>>
        /\ pc \in TurningOn /\ pc' \in TurningOn \cup {"applyRouting"}
    BY <1>5 DEF initialize, onNfcEnabled, beamOn, stateOn, Goes, After, TurningOn
  <2>2. QED
    BY <1>a, <2>1 DEF StepFinal, TurningOn, Waiting
<1>6. CASE startPolling
  <2>1. UNCHANGED <<executor, todo, mState>> /\ pc = "applyRouting" /\ pc' = "next"
    BY <1>6 DEF startPolling, Goes, After
  <2>2. QED
    BY <1>a, <2>1 DEF StepFinal, TurningOn, Waiting, StateInv
<1>8. CASE disableInternal
  <2>1. /\ UNCHANGED <<executor, mState>> /\ pc = "next" /\ todo # <<>> /\ Head(todo) = "disable"
        /\ todo' = Tail(todo)
        /\ IF mState = "OFF" THEN pc' = pc ELSE pc' = "turnOff"
    BY <1>8 DEF disableInternal, Starts, After
  <2>2. Outcome("disable", Goal, StepFinal) = "OFF"
    BY DEF Outcome
  <2>3. StepFinal' = "OFF"
    BY <2>1 DEF StepFinal, Waiting, TurningOn
  <2>4. QED
    BY <1>b, <2>1, <2>2, <2>3
<1>9. CASE turnOff \/ onNfcDisabled \/ beamOff \/ closeEe \/ deinitialize
  <2>1. /\ UNCHANGED <<executor, todo>>
        /\ pc \in TurningOff \cup {"turnOff"} /\ pc' \in TurningOff
    BY <1>9 DEF turnOff, onNfcDisabled, beamOff, closeEe, deinitialize, Goes, After, TurningOff
  <2>2. QED
    BY <1>a, <2>1 DEF StepFinal, TurningOn, TurningOff, Waiting
<1>10. CASE stateOff
  <2>1. UNCHANGED <<executor, todo>> /\ mState' = "OFF" /\ pc = "stateOff" /\ pc' = "next"
    BY <1>10 DEF stateOff, Goes, After
  <2>2. QED
    BY <1>a, <2>1 DEF StepFinal, TurningOn, Waiting
<1>11. CASE executeEeWipe
  <2>1. /\ UNCHANGED <<executor, mState, pc>> /\ pc = "next" /\ todo # <<>> /\ Head(todo) = "wipe"
        /\ todo' \in {Tail(todo), WipeJobs(mState) \o Tail(todo)}
    BY <1>11 DEF executeEeWipe, Starts
  <2>2. StepFinal' = StepFinal /\ StepFinal = mState
    BY <2>1 DEF StepFinal, Waiting
  <2>3. Outcome("wipe", Goal, mState) = mState
    BY DEF Outcome
  <2>4. Final(todo, Goal, mState) = Final(Tail(todo), Goal, mState)
    BY <1>s, <2>1, <2>3, FinalHead
  <2>5. Final(todo', Goal, mState) = Final(Tail(todo), Goal, mState)
    <3>1. CASE todo' = Tail(todo)
      BY <3>1
    <3>2. CASE todo' = WipeJobs(mState) \o Tail(todo)
      <4>1. Tail(todo) \in Seq(Words)
        BY <1>s, <2>1
      <4>2. CASE mState = "OFF"
        <5>1. todo' = <<"enable", "disable">> \o Tail(todo)
          BY <3>2, <4>2 DEF WipeJobs
        <5>2. "enable" \in Words /\ "disable" \in Words
          BY DEF Words, Jobs
        <5>3. Outcome("disable", Goal, Outcome("enable", Goal, mState)) = mState
          BY <4>2 DEF Outcome
        <5> DEFINE rest == Tail(todo)
        <5> HIDE DEF rest
        <5>4. rest \in Seq(Words)
          BY <4>1 DEF rest
        <5>5. Final(<<"enable", "disable">> \o rest, Goal, mState)
                 = Final(rest, Goal, Outcome("disable", Goal, Outcome("enable", Goal, mState)))
          BY <5>2, <5>4, FinalPrefixes
        <5>6. QED
          BY <5>1, <5>3, <5>5 DEF rest
      <4>3. CASE mState # "OFF"
        <5>1. todo' = <<>> \o Tail(todo)
          BY <3>2, <4>3 DEF WipeJobs
        <5>2. QED
          BY <4>1, <5>1, ConcatEmptySeq
      <4>4. QED
        BY <4>2, <4>3
    <3>3. QED
      BY <2>1, <3>1, <3>2
  <2>6. QED
    BY <1>0, <2>1, <2>2, <2>4, <2>5 DEF Ends, Names
<1>12. CASE firstBootDone
  <2>1. /\ UNCHANGED <<executor, mState, pc>> /\ todo # <<>> /\ Head(todo) = "booted"
        /\ todo' = Tail(todo)
    BY <1>12 DEF firstBootDone, Starts
  <2>2. StepFinal' = Outcome("booted", Goal, StepFinal)
    BY <2>1 DEF StepFinal, Outcome
  <2>3. QED
    BY <1>b, <2>1, <2>2
<1>13. CASE initializeFails
  <2>1. "fault" \in excused'
    BY <1>13 DEF initializeFails
  <2>2. QED
    BY <2>1
<1>14. QED
  BY <1>1, <1>2, <1>3, <1>4, <1>5, <1>6, <1>8, <1>9, <1>10, <1>11, <1>12, <1>13
     DEF TaskStep

(* A thread that is not the executor's only adds to the queue, and no boot. *)
LEMMA ThreadsAppend ==
    ASSUME PowerRequest \/ RoutingInput
    PROVE  /\ UNCHANGED <<chip, mState, todo, pc>>
           /\ \/ UNCHANGED executor
              \/ \E t \in Tasks \ {"boot"} : \E s \in 0 .. SCREEN_STATE_ON_UNLOCKED :
                    executor' = Append(executor, <<t, s>>)
<1> USE DEF SameDevice, Untasked, tasks
<1>0. 0 \in 0 .. SCREEN_STATE_ON_UNLOCKED
  BY DEF SCREEN_STATE_ON_UNLOCKED
<1>1. CASE PowerRequest
  <2>1. /\ UNCHANGED <<chip, mState, todo, pc>>
        /\ UNCHANGED executor \/ \E t \in Tasks \ {"boot"} : executor' = Append(executor, <<t, 0>>)
    BY <1>1, PowerRequestKeeps DEF Tasks
  <2>2. QED
    BY <1>0, <2>1
<1>2. CASE RoutingInput
  <2>1. ASSUME NEW screen \in ScreenStates, ScreenBroadcast(screen)
        PROVE  /\ UNCHANGED <<chip, mState, todo, pc>>
               /\ \E t \in Tasks \ {"boot"} : \E s \in 0 .. SCREEN_STATE_ON_UNLOCKED :
                     executor' = Append(executor, <<t, s>>)
    <3>1. /\ UNCHANGED <<chip, mState, todo, pc>>
          /\ executor' = Append(executor, <<"apply", screen>>)
      BY <2>1 DEF ScreenBroadcast
    <3>2. "apply" \in Tasks \ {"boot"} /\ screen \in 0 .. SCREEN_STATE_ON_UNLOCKED
      BY DEF Tasks, ScreenStates, SCREEN_STATE_OFF, SCREEN_STATE_ON_UNLOCKED
    <3>3. QED
      BY <3>1, <3>2
  <2>2. ASSUME NEW route \in BOOLEAN, setCardEmulationRoute(route)
        PROVE  /\ UNCHANGED <<chip, mState, todo, pc>>
               /\ \E t \in Tasks \ {"boot"} : \E s \in 0 .. SCREEN_STATE_ON_UNLOCKED :
                     executor' = Append(executor, <<t, s>>)
    <3>1. /\ UNCHANGED <<chip, mState, todo, pc>>
          /\ executor' = Append(executor, <<"apply", 0>>)
      BY <2>2 DEF setCardEmulationRoute
    <3>2. "apply" \in Tasks \ {"boot"}
      BY DEF Tasks
    <3>3. QED
      BY <1>0, <3>1, <3>2
  <2>3. CASE setReaderMode \/ setNdefPush \/ AidsChange \/ CommitRouting \/ openEe \/ nfcEeClose
    BY <2>3 DEF setReaderMode, setNdefPush, AidsChange, CommitRouting, openEe, nfcEeClose
  <2>4. QED
    BY <1>2, <2>1, <2>2, <2>3 DEF RoutingInput
<1>3. QED
  BY <1>1, <1>2

(* Once a task has begun the boot task has gone from the queue, and no      *)
(* thread adds another.                                                     *)
LEMMA BootFirstStep == TaskTypes /\ BootFirst /\ [Next]_vars => BootFirst'
<1> SUFFICES ASSUME TaskTypes, BootFirst, [Next]_vars PROVE BootFirst'
  OBVIOUS
<1>a. ASSUME UNCHANGED <<executor, todo, pc, mState>> PROVE BootFirst'
  BY <1>a DEF BootFirst
<1>b. ASSUME pc # "idle", pc' = "idle" => todo' = <<>>, UNCHANGED executor PROVE BootFirst'
  BY <1>b DEF BootFirst
<1>c. ASSUME executor # <<>>, executor' = Tail(executor), pc' = "idle" => todo' = <<>>
      PROVE  BootFirst'
  <2>1. /\ Len(Tail(executor)) = Len(executor) - 1 /\ Len(executor) \in Nat
        /\ \A i \in 1 .. Len(executor) - 1 : Tail(executor)[i] = executor[i + 1]
    BY <1>c DEF TaskTypes
  <2>2. ASSUME NEW i \in 1 .. Len(executor'), executor'[i][1] = "boot" PROVE FALSE
    <3>1. i + 1 \in 1 .. Len(executor) /\ executor[i + 1][1] = "boot" /\ i + 1 # 1
      BY <1>c, <2>1, <2>2
    <3>2. QED
      BY <3>1 DEF BootFirst
  <2>3. QED
    BY <1>c, <2>2 DEF BootFirst
<1>1. CASE UNCHANGED vars
  BY <1>1, <1>a DEF vars, tasks
<1>2. CASE PowerRequest \/ RoutingInput
  <2>1. UNCHANGED <<mState, todo, pc>>
    BY <1>2, ThreadsAppend
  <2>2. CASE UNCHANGED executor
    BY <1>a, <2>1, <2>2
  <2>3. ASSUME NEW t \in Tasks \ {"boot"}, NEW s \in 0 .. SCREEN_STATE_ON_UNLOCKED,
               executor' = Append(executor, <<t, s>>)
        PROVE  BootFirst'
    <3>1. /\ Len(executor') = Len(executor) + 1 /\ executor'[Len(executor) + 1] = <<t, s>>
          /\ \A i \in 1 .. Len(executor) : executor'[i] = executor[i]
      BY <2>3 DEF TaskTypes
    <3>2. ASSUME NEW i \in 1 .. Len(executor'), executor'[i][1] = "boot"
          PROVE  i \in 1 .. Len(executor) /\ executor[i][1] = "boot"
      <4>1. i # Len(executor) + 1
        BY <3>1, <3>2
      <4>2. i \in 1 .. Len(executor)
        BY <3>1, <4>1 DEF TaskTypes
      <4>3. QED
        BY <3>1, <3>2, <4>2
    <3>3. QED
      BY <2>1, <3>2 DEF BootFirst
  <2>4. QED
    BY <1>2, <2>2, <2>3, ThreadsAppend
<1>3. CASE Abort
  BY <1>3 DEF Abort, Fresh, BootFirst
<1>4. CASE TaskBegins \/ ApplyRoutingTask
  <2>1. executor # <<>> /\ executor' = Tail(executor) /\ pc = "idle"
    BY <1>4 DEF TaskBegins, ApplyRoutingTask
  <2>2. pc' = "idle" => todo' = <<>>
    BY <1>4, <2>1 DEF TaskBegins, ApplyRoutingTask, BootFirst
  <2>3. QED
    BY <1>c, <2>1, <2>2
<1>5. CASE TaskEnds
  BY <1>5, <1>b DEF TaskEnds
<1>6. CASE enableInternal \/ executeEeWipe \/ firstBootDone \/ disableInternal \/ initializeFails
  BY <1>6, <1>b DEF enableInternal, executeEeWipe, firstBootDone, disableInternal,
     initializeFails, Starts, After
<1>7. CASE \/ initialize \/ onNfcEnabled \/ beamOn \/ stateOn \/ startPolling \/ turnOff
           \/ onNfcDisabled \/ beamOff \/ closeEe \/ deinitialize \/ stateOff
  <2>1. UNCHANGED executor /\ pc' = After(pc) /\ pc \in Steps \ Waiting
    BY <1>7 DEF initialize, onNfcEnabled, beamOn, stateOn, startPolling, turnOff, onNfcDisabled,
       beamOff, closeEe, deinitialize, stateOff, Goes, Steps, Waiting, TurningOn, TurningOff
  <2>2. pc' # "idle"
    BY <2>1 DEF After
  <2>3. QED
    BY <1>b, <2>1, <2>2 DEF Waiting
<1>8. QED
  BY <1>1, <1>2, <1>3, <1>4, <1>5, <1>6, <1>7 DEF Next, TaskStep

-----------------------------------------------------------------------------
(* The settings and what the executor comes to. *)

(* What a request still has to execute is what the settings say, as long as *)
(* none that switches on meets one that switches off.  The executor comes   *)
(* to what they say once nothing that is under way can still change it, and *)
(* to OFF already when a preference or airplane mode alone decides that.    *)
InStep ==
    /\ requests \cap TurnOn = {} \/ requests \cap TurnOff = {}
    /\ requests \cap (EnableCall \cup {"airplaneEnable"}) # {} => prefs.nfc
    /\ "disable" \in requests => ~prefs.nfc
    /\ "airplaneDisable" \in requests => ~prefs.override
    /\ "enable" \in requests /\ broadcasts = <<>> => ~airplane \/ prefs.override
    /\ ~prefs.nfc /\ "disable" \notin requests => Ends = "OFF"
    /\ broadcasts = <<>> /\ airplane /\ ~prefs.override /\ requests \cap AirplaneOn = {}
          => Ends = "OFF"
    /\ broadcasts = <<>> /\ requests \cap (TurnOn \cup TurnOff \cup {"modemEnable"}) = {}
          => Ends = Goal

(* The last broadcast is about the setting as it is, and so is what the     *)
(* receiver is at; only a controller that may be switched on in airplane    *)
(* mode is.                                                                 *)
Announced ==
    /\ broadcasts # <<>> => broadcasts[Len(broadcasts)] = airplane
    /\ broadcasts = <<>> /\ requests \cap AirplaneOn # {} => airplane
    /\ broadcasts = <<>> /\ requests \cap AirplaneOff # {} => ~airplane
    /\ ~chip.toggleable => ~prefs.override /\ "override" \notin requests
SettingsInv == Announced /\ (excused = {} => InStep)

(* What keeps the settings and what the executor comes to.                  *)
LEMMA SettingsKept ==
    ASSUME SettingsInv, UNCHANGED <<chip, airplane, broadcasts, requests, Goal, Ends>>,
           excused \subseteq excused', prefs'.nfc = prefs.nfc, prefs'.override = prefs.override
    PROVE  SettingsInv'
BY DEF SettingsInv, Announced, InStep

(* What is queued at the end decides.                                       *)
LEMMA Appended ==
    ASSUME TaskTypes, UNCHANGED <<mState, todo, pc>>,
           NEW t \in Tasks, executor' = Append(executor, <<t, 0>>)
    PROVE  /\ t = "enable" => Ends' = "ON"
           /\ t = "disable" => Ends' = "OFF"
           /\ t = "reset" => Ends' = "ON"
           /\ t = "wipe" /\ Goal' = Goal => Ends' = Ends
<1>1. 0 \in 0 .. SCREEN_STATE_ON_UNLOCKED
  BY DEF SCREEN_STATE_ON_UNLOCKED
<1>2. Ends' = Outcome(t, Goal', Final(Names(executor), Goal', Final(todo, Goal', StepFinal)))
  BY <1>1, EndsAppended
<1>3. t \in {"enable", "disable", "reset"} => \A s : Outcome(t, Goal', s) =
         IF t = "disable" THEN "OFF" ELSE "ON"
  BY DEF Outcome
<1>4. t = "wipe" => \A s : Outcome(t, Goal', s) = s
  BY DEF Outcome
<1>5. QED
  BY <1>2, <1>3, <1>4 DEF Ends

(* A queue that is left alone comes to what it came to, if the goal does.   *)
LEMMA NotAppended ==
    ASSUME UNCHANGED <<executor, todo, pc, mState, Goal>> PROVE Ends' = Ends
BY DEF Ends, Names, StepFinal

(* A request that begins with a step of its own kind.                       *)
LEMMA BeginsKeeps ==
    ASSUME NEW step \in Requests, Begins(step), excused' = {}
    PROVE  /\ excused = {} /\ requests' = requests \cup {step}
           /\ step \in TurnOn => requests \cap TurnOff = {}
           /\ step \in TurnOff => requests \cap TurnOn = {}
BY DEF Begins, Opposed

(* Saving the preference, and the broadcasts.                               *)
LEMMA BeginningKeepsSettings ==
    ASSUME TaskTypes, SettingTypes, SettingsInv,
           \/ \E call \in {"enable", "disable"} : SavePreference(call)
           \/ AirplaneModeChanges \/ AirplaneBroadcast
           \/ SimStateChanged \/ csmClientModemUnavailable
    PROVE  SettingsInv'
<1> USE DEF SameDevice, EnableCall, AirplaneOff, AirplaneOn, OnMain, ModemCall, TurnOn, TurnOff
<1>p. prefs \in [nfc : BOOLEAN, override : BOOLEAN, firstBoot : BOOLEAN]
  BY DEF SettingTypes
<1>g. Goal = IF prefs.nfc /\ (~airplane \/ prefs.override) THEN "ON" ELSE "OFF"
  BY DEF Goal, nfcOnAtBoot
<1>h. Goal' = IF prefs'.nfc /\ (~airplane' \/ prefs'.override) THEN "ON" ELSE "OFF"
  BY DEF Goal, nfcOnAtBoot
<1>1. ASSUME NEW call \in {"enable", "disable"}, SavePreference(call) PROVE SettingsInv'
  <2> DEFINE step == IF call = "enable" THEN "mode" ELSE "disable"
  <2>1. /\ Begins(step) /\ step \in Requests
        /\ prefs' = [prefs EXCEPT !.nfc = (call = "enable")]
        /\ UNCHANGED <<chip, executor, todo, pc, mState, airplane, broadcasts>>
    BY <1>1 DEF SavePreference, Requests
  <2>2. prefs'.nfc = (call = "enable") /\ prefs'.override = prefs.override
    BY <1>p, <2>1
  <2>3. requests' = requests \cup {step}
    BY <2>1 DEF Begins
  <2>4. Announced'
    BY <2>1, <2>2, <2>3 DEF SettingsInv, Announced
  <2>5. ASSUME excused' = {} PROVE InStep'
    <3>1. excused = {} /\ InStep
      BY <2>1, <2>5, BeginsKeeps DEF SettingsInv
    <3>2. /\ call = "enable" => requests \cap TurnOff = {}
          /\ call = "disable" => requests \cap TurnOn = {}
      BY <2>1, <2>5, BeginsKeeps
    <3>3. ASSUME broadcasts = <<>>, airplane, ~prefs.override, requests' \cap AirplaneOn = {}
          PROVE  Ends' = "OFF"
      <4>1. Ends = "OFF" /\ Goal' = Goal
        BY <1>g, <1>h, <2>1, <2>2, <2>3, <3>1, <3>3 DEF InStep
      <4>2. QED
        BY <2>1, <4>1, NotAppended
    <3>4. CASE call = "enable"
      BY <2>1, <2>2, <2>3, <3>1, <3>2, <3>3, <3>4 DEF InStep
    <3>5. CASE call = "disable"
      BY <2>1, <2>2, <2>3, <3>1, <3>2, <3>3, <3>5 DEF InStep
    <3>6. QED
      BY <3>4, <3>5
  <2>6. QED
    BY <2>4, <2>5 DEF SettingsInv
<1>2. CASE AirplaneModeChanges
  <2>1. /\ airplane' = ~airplane /\ broadcasts' = Append(broadcasts, ~airplane)
        /\ UNCHANGED <<chip, executor, todo, pc, mState, prefs, requests, excused>>
    BY <1>2 DEF AirplaneModeChanges
  <2>2. broadcasts' # <<>> /\ broadcasts'[Len(broadcasts')] = airplane'
    BY <2>1 DEF SettingTypes
  <2>3. ASSUME excused = {}, ~prefs.nfc, "disable" \notin requests PROVE Ends' = "OFF"
    <3>1. Ends = "OFF" /\ Goal' = Goal
      BY <1>g, <1>h, <2>1, <2>3 DEF SettingsInv, InStep
    <3>2. QED
      BY <2>1, <3>1, NotAppended
  <2>4. QED
    BY <2>1, <2>2, <2>3 DEF SettingsInv, Announced, InStep
<1>3. CASE AirplaneBroadcast
  <2>1. /\ broadcasts # <<>> /\ broadcasts' = Tail(broadcasts) /\ requests \cap OnMain = {}
        /\ UNCHANGED <<chip, executor, todo, pc, mState, prefs, airplane>>
    BY <1>3 DEF AirplaneBroadcast, MainIsFree
  <2>2. /\ broadcasts' # <<>> => broadcasts'[Len(broadcasts')] = airplane
        /\ broadcasts' = <<>> => Head(broadcasts) = airplane
    <3>1. /\ broadcasts \in Seq(BOOLEAN) /\ Len(broadcasts') = Len(broadcasts) - 1
          /\ \A i \in 1 .. Len(broadcasts) - 1 : broadcasts'[i] = broadcasts[i + 1]
      BY <2>1 DEF SettingTypes
    <3>2. broadcasts[Len(broadcasts)] = airplane
      BY <2>1 DEF SettingsInv, Announced
    <3>3. CASE Len(broadcasts) = 1
      BY <2>1, <3>1, <3>2, <3>3
    <3>4. CASE Len(broadcasts) > 1
      <4>1. /\ Len(broadcasts') \in 1 .. Len(broadcasts) - 1
            /\ Len(broadcasts') + 1 = Len(broadcasts)
        BY <3>1, <3>4
      <4>2. broadcasts' # <<>>
        <5>0. Len(broadcasts) \in Nat
          BY <3>1
        <5>1. Len(broadcasts') # 0
          BY <3>1, <3>4, <5>0
        <5>2. QED
          BY <5>1
      <4>3. QED
        BY <3>1, <3>2, <4>1, <4>2
    <3>5. QED
      BY <2>1, <3>1, <3>3, <3>4
  <2>3. Goal' = Goal /\ Ends' = Ends
    <3>1. Goal' = Goal
      BY <1>g, <1>h, <2>1
    <3>2. QED
      BY <2>1, <3>1, NotAppended
  <2>4. CASE Head(broadcasts) # airplane
    <3>1. UNCHANGED <<requests, excused>> /\ broadcasts' # <<>>
      BY <1>3, <2>2, <2>4 DEF AirplaneBroadcast
    <3>2. QED
      BY <2>1, <2>2, <2>3, <3>1 DEF SettingsInv, Announced, InStep
  <2>5. CASE Head(broadcasts) = airplane
    <3> DEFINE step == IF airplane THEN "forbid" ELSE "permit"
    <3>1. Begins(step) /\ step \in Requests /\ requests' = requests \cup {step}
      BY <1>3, <2>5 DEF AirplaneBroadcast, Begins, Requests
    <3>2. Announced'
      BY <2>1, <2>2, <3>1 DEF SettingsInv, Announced
    <3>3. ASSUME excused' = {} PROVE InStep'
      <4>1. /\ InStep
            /\ airplane => requests \cap TurnOn = {}
            /\ ~airplane => requests \cap TurnOff = {}
        BY <3>1, <3>3, BeginsKeeps DEF SettingsInv
      <4>2. CASE airplane
        BY <2>1, <2>3, <3>1, <4>1, <4>2 DEF InStep
      <4>3. CASE ~airplane
        BY <2>1, <2>3, <3>1, <4>1, <4>3 DEF InStep
      <4>4. QED
        BY <4>2, <4>3
    <3>4. QED
      BY <3>2, <3>3 DEF SettingsInv
  <2>6. QED
    BY <2>4, <2>5
<1>4. CASE SimStateChanged \/ csmClientModemUnavailable
  <2>1. /\ UNCHANGED <<chip, executor, todo, pc, mState, prefs, airplane, broadcasts>>
        /\ \E step \in {"reset", "modemDisable"} : Begins(step)
    BY <1>4 DEF SimStateChanged, csmClientModemUnavailable
  <2>2. PICK step \in {"reset", "modemDisable"} :
           requests' = requests \cup {step} /\ excused' = excused
    BY <2>1 DEF Begins, Opposed
  <2>3. Goal' = Goal /\ Ends' = Ends
    <3>1. Goal' = Goal
      BY <1>g, <1>h, <2>1
    <3>2. QED
      BY <2>1, <3>1, NotAppended
  <2>4. QED
    BY <2>1, <2>2, <2>3 DEF SettingsInv, Announced, InStep
<1>5. QED
  BY <1>1, <1>2, <1>3, <1>4

(* The steps of a request that execute no task.                             *)
LEMMA ReadingKeepsSettings ==
    ASSUME TaskTypes, SettingTypes, SettingsInv,
           enable \/ overrideAirplaneMode \/ clearOverride \/ readPreference
    PROVE  SettingsInv'
<1> USE DEF OnlySteps, SameDevice, Takes, EnableCall, AirplaneOff, AirplaneOn, TurnOn, TurnOff
<1>p. prefs \in [nfc : BOOLEAN, override : BOOLEAN, firstBoot : BOOLEAN]
  BY DEF SettingTypes
<1>u. UNCHANGED <<chip, executor, todo, pc, mState, airplane, broadcasts, excused>>
  BY DEF enable, overrideAirplaneMode, clearOverride, readPreference
<1>g. Goal = IF prefs.nfc /\ (~airplane \/ prefs.override) THEN "ON" ELSE "OFF"
  BY DEF Goal, nfcOnAtBoot
<1>h. Goal' = IF prefs'.nfc /\ (~airplane' \/ prefs'.override) THEN "ON" ELSE "OFF"
  BY DEF Goal, nfcOnAtBoot
<1>k. Goal' = Goal => Ends' = Ends
  BY <1>u, NotAppended
<1>1. CASE enable
  <2>1. /\ prefs' = prefs /\ "mode" \in requests
        /\ requests' = (requests \ {"mode"}) \cup (IF ~airplane THEN {"enable"}
                           ELSE IF chip.toggleable THEN {"override"} ELSE {})
    BY <1>1 DEF enable
  <2>2. Ends' = Ends /\ Goal' = Goal
    BY <1>g, <1>h, <1>k, <1>u, <2>1
  <2>3. CASE ~airplane
    BY <1>u, <2>1, <2>2, <2>3 DEF SettingsInv, Announced, InStep
  <2>4. CASE airplane /\ chip.toggleable
    BY <1>u, <2>1, <2>2, <2>4 DEF SettingsInv, Announced, InStep
  <2>5. CASE airplane /\ ~chip.toggleable
    <3>1. ~prefs.override /\ Goal = "OFF"
      BY <1>g, <2>5 DEF SettingsInv, Announced
    <3>2. QED
      BY <1>u, <2>1, <2>2, <2>5, <3>1 DEF SettingsInv, Announced, InStep
  <2>6. QED
    BY <2>3, <2>4, <2>5
<1>2. CASE overrideAirplaneMode
  <2>1. /\ prefs' = [prefs EXCEPT !.override = TRUE] /\ "override" \in requests
        /\ requests' = (requests \ {"override"}) \cup {"enable"}
    BY <1>2 DEF overrideAirplaneMode
  <2>2. prefs'.nfc = prefs.nfc /\ prefs'.override
    BY <1>p, <2>1
  <2>3. Announced'
    BY <1>u, <2>1, <2>2 DEF SettingsInv, Announced
  <2>4. ASSUME excused = {} PROVE InStep'
    BY <1>u, <2>1, <2>2, <2>4 DEF SettingsInv, InStep
  <2>5. QED
    BY <1>u, <2>3, <2>4 DEF SettingsInv
<1>3. CASE clearOverride
  <2>1. /\ prefs' = [prefs EXCEPT !.override = FALSE]
        /\ \/ "forbid" \in requests /\ requests' = (requests \ {"forbid"}) \cup {"airplaneDisable"}
           \/ "permit" \in requests /\ requests' = (requests \ {"permit"}) \cup {"preference"}
    BY <1>3 DEF clearOverride
  <2>2. prefs'.nfc = prefs.nfc /\ ~prefs'.override
    BY <1>p, <2>1
  <2>3. Announced'
    BY <1>u, <2>1, <2>2 DEF SettingsInv, Announced
  <2>4. ASSUME excused = {} PROVE InStep'
    <3>1. ~prefs.nfc => Ends' = Ends
      BY <1>g, <1>h, <1>k, <1>u, <2>2
    <3>2. InStep
      BY <2>4 DEF SettingsInv
    <3>3. broadcasts = <<>> /\ "permit" \in requests => ~airplane
      BY DEF SettingsInv, Announced
    <3>4. CASE "forbid" \in requests /\ requests' = (requests \ {"forbid"}) \cup {"airplaneDisable"}
      BY <1>u, <2>2, <3>1, <3>2, <3>4 DEF InStep
    <3>5. CASE "permit" \in requests /\ requests' = (requests \ {"permit"}) \cup {"preference"}
      BY <1>u, <2>2, <3>1, <3>2, <3>3, <3>5 DEF InStep
    <3>6. QED
      BY <2>1, <3>4, <3>5
  <2>5. QED
    BY <1>u, <2>3, <2>4 DEF SettingsInv
<1>4. CASE readPreference
  <2>1. /\ prefs' = prefs /\ "preference" \in requests
        /\ requests' = (requests \ {"preference"})
                          \cup (IF prefs.nfc THEN {"airplaneEnable"} ELSE {})
    BY <1>4 DEF readPreference
  <2>2. Ends' = Ends /\ Goal' = Goal
    BY <1>g, <1>h, <1>k, <1>u, <2>1
  <2>3. CASE prefs.nfc
    BY <1>u, <2>1, <2>2, <2>3 DEF SettingsInv, Announced, InStep
  <2>4. CASE ~prefs.nfc
    <3>1. Goal = "OFF"
      BY <1>g, <2>4
    <3>2. QED
      BY <1>u, <2>1, <2>2, <2>4, <3>1 DEF SettingsInv, Announced, InStep
  <2>5. QED
    BY <2>3, <2>4
<1>5. QED
  BY <1>1, <1>2, <1>3, <1>4

(* The steps that execute a task.                                           *)
LEMMA ExecutingKeepsSettings ==
    ASSUME TaskTypes, SettingTypes, SettingsInv,
           executeTask \/ disableWithoutSaving \/ simReset \/ modemReset \/ WipeRequested
    PROVE  SettingsInv'
<1> USE DEF OnlySteps, SameDevice, Takes, Execute, EnableCall, AirplaneOff, AirplaneOn, TurnOn,
        TurnOff
<1>u. UNCHANGED <<chip, todo, pc, mState, prefs, airplane, broadcasts>>
  BY DEF executeTask, disableWithoutSaving, simReset, modemReset, WipeRequested, settings
<1>n. {"enable", "disable", "reset", "wipe"} \subseteq Tasks
  BY DEF Tasks
<1>g. Goal = IF prefs.nfc /\ (~airplane \/ prefs.override) THEN "ON" ELSE "OFF"
  BY DEF Goal, nfcOnAtBoot
<1>h. Goal' = Goal
  BY <1>u DEF Goal, nfcOnAtBoot
<1>a. ASSUME NEW t \in {"enable", "disable", "reset", "wipe"},
             executor' = Append(executor, <<t, 0>>)
      PROVE  Ends' = IF t \in {"enable", "reset"} THEN "ON"
                     ELSE IF t = "disable" THEN "OFF" ELSE Ends
  BY <1>a, <1>h, <1>n, <1>u, Appended
<1>1. CASE executeTask
  <2>1. ASSUME NEW step \in requests, requests' = requests \ {step}, excused' = excused,
               \/ step = "enable" /\ Ends' = "ON"
               \/ step = "airplaneEnable" /\ Ends' = "ON"
               \/ step \in {"disable", "airplaneDisable"} /\ Ends' = "OFF"
        PROVE  SettingsInv'
    <3>1. Announced'
      BY <1>u, <2>1 DEF SettingsInv, Announced
    <3>2. ASSUME excused = {} PROVE InStep'
      <4>1. InStep /\ Announced
        BY <3>2 DEF SettingsInv
      <4>2. CASE step = "enable"
        BY <1>g, <1>h, <1>u, <2>1, <4>1, <4>2 DEF InStep, Announced
      <4>3. CASE step = "airplaneEnable"
        BY <1>g, <1>h, <1>u, <2>1, <4>1, <4>3 DEF InStep, Announced
      <4>4. CASE step = "disable"
        BY <1>g, <1>h, <1>u, <2>1, <4>1, <4>4 DEF InStep, Announced
      <4>5. CASE step = "airplaneDisable"
        BY <1>g, <1>h, <1>u, <2>1, <4>1, <4>5 DEF InStep, Announced
      <4>6. QED
        BY <2>1, <4>2, <4>3, <4>4, <4>5
    <3>3. QED
      BY <2>1, <3>1, <3>2 DEF SettingsInv
  <2>2. \E step \in requests :
           /\ requests' = requests \ {step} /\ excused' = excused
           /\ \/ step = "enable" /\ Ends' = "ON"
              \/ step = "airplaneEnable" /\ Ends' = "ON"
              \/ step \in {"disable", "airplaneDisable"} /\ Ends' = "OFF"
    BY <1>1, <1>a DEF executeTask
  <2>3. QED
    BY <2>1, <2>2
<1>2. CASE disableWithoutSaving
  <2>1. "fault" \in excused' /\ UNCHANGED requests
    BY <1>2 DEF disableWithoutSaving, settings
  <2>2. excused' # {}
    BY <2>1
  <2>3. QED
    BY <1>u, <2>1, <2>2 DEF SettingsInv, Announced
<1>3. ASSUME NEW step \in {"reset", "modemEnable"}, step \in requests,
             requests' = requests \ {step}, Late, Ends' = "ON"
      PROVE  SettingsInv'
  <2>1. Announced'
    BY <1>3, <1>u DEF SettingsInv, Announced
  <2>2. ASSUME excused' = {} PROVE InStep'
    <3>1. excused = {} /\ nfcOnAtBoot
      BY <1>3, <2>2 DEF Late
    <3>2. prefs.nfc /\ (~airplane \/ prefs.override) /\ Goal = "ON" /\ InStep
      BY <3>1 DEF nfcOnAtBoot, Goal, SettingsInv
    <3>3. QED
      BY <1>3, <1>h, <1>u, <3>2 DEF InStep
  <2>3. QED
    BY <2>1, <2>2 DEF SettingsInv
<1>4. CASE simReset
  <2>1. /\ "reset" \in requests /\ requests' = requests \ {"reset"} /\ Late
        /\ executor' = Append(executor, <<"reset", 0>>)
    BY <1>4 DEF simReset
  <2>2. QED
    BY <2>1, <1>3, <1>a
<1>5. CASE modemReset
  <2>1. CASE "modemEnable" \in requests /\ requests' = requests \ {"modemEnable"} /\ Late
             /\ executor' = Append(executor, <<"enable", 0>>)
    BY <2>1, <1>3, <1>a
  <2>2. CASE "modemDisable" \in requests
             /\ requests' = (requests \ {"modemDisable"}) \cup {"modemEnable"}
             /\ executor' = Append(executor, <<"disable", 0>>) /\ excused' = excused
    <3>1. Ends' = "OFF"
      BY <2>2, <1>a
    <3>2. QED
      BY <1>h, <1>u, <2>2, <3>1 DEF SettingsInv, Announced, InStep
  <2>3. QED
    BY <1>5, <2>1, <2>2 DEF modemReset
<1>6. CASE WipeRequested
  <2>1. /\ executor' = Append(executor, <<"wipe", 0>>) /\ UNCHANGED <<requests, excused>>
    BY <1>6 DEF WipeRequested, settings
  <2>2. Ends' = Ends
    BY <2>1, <1>a
  <2>3. QED
    BY <1>h, <1>u, <2>1, <2>2, SettingsKept
<1>7. QED
  BY <1>1, <1>2, <1>4, <1>5, <1>6

(* Requests and broadcasts, in any order, keep the settings and the queue   *)
(* in step.                                                                 *)
LEMMA RequestKeepsSettings ==
    ASSUME TaskTypes, SettingTypes, SettingsInv, PowerRequest
    PROVE  SettingsInv'
BY BeginningKeepsSettings, ReadingKeepsSettings, ExecutingKeepsSettings DEF PowerRequest

(* Every step keeps the settings and what the executor comes to in step.    *)
LEMMA SettingsStep ==
    /\ TaskTypes /\ SettingTypes /\ chip \in ChipKinds /\ StateInv
    /\ BootFirst /\ SettingsInv /\ [Next]_vars
    => SettingsInv'
<1> SUFFICES ASSUME TaskTypes, SettingTypes, chip \in ChipKinds, StateInv, BootFirst,
                    SettingsInv, [Next]_vars
             PROVE  SettingsInv'
  OBVIOUS
<1>p. prefs \in [nfc : BOOLEAN, override : BOOLEAN, firstBoot : BOOLEAN]
  BY DEF SettingTypes
<1>1. CASE UNCHANGED vars
  <2>1. UNCHANGED <<chip, prefs, airplane, broadcasts, requests, excused, executor, todo, pc, mState>>
    BY <1>1 DEF vars, tasks, settings
  <2>2. Goal' = Goal
    BY <2>1 DEF Goal, nfcOnAtBoot
  <2>3. QED
    BY <2>1, <2>2, NotAppended, SettingsKept
<1>2. CASE PowerRequest
  BY <1>2, RequestKeepsSettings
<1>3. CASE RoutingInput
  <2>1. UNCHANGED <<chip, prefs, airplane, broadcasts, requests, excused, todo, pc, mState>>
    <3>1. UNCHANGED <<settings, excused>>
      BY <1>3 DEF RoutingInput, ScreenBroadcast, setCardEmulationRoute, setReaderMode,
         setNdefPush, AidsChange, CommitRouting, openEe, nfcEeClose, Untasked
    <3>2. QED
      BY <1>3, <3>1, ThreadsAppend DEF settings
  <2>2. Goal' = Goal
    BY <2>1 DEF Goal, nfcOnAtBoot
  <2>3. \/ UNCHANGED executor
        \/ \E s \in 0 .. SCREEN_STATE_ON_UNLOCKED : executor' = Append(executor, <<"apply", s>>)
    <3>1. (\E screen \in ScreenStates : ScreenBroadcast(screen)) =>
             \E s \in 0 .. SCREEN_STATE_ON_UNLOCKED : executor' = Append(executor, <<"apply", s>>)
      BY DEF ScreenBroadcast, ScreenStates, SCREEN_STATE_OFF, SCREEN_STATE_ON_UNLOCKED
    <3>2. (\E route \in BOOLEAN : setCardEmulationRoute(route)) =>
             \E s \in 0 .. SCREEN_STATE_ON_UNLOCKED : executor' = Append(executor, <<"apply", s>>)
      BY DEF setCardEmulationRoute, SCREEN_STATE_ON_UNLOCKED
    <3>3. setReaderMode \/ setNdefPush \/ AidsChange \/ CommitRouting \/ openEe \/ nfcEeClose
             => UNCHANGED executor
      BY DEF setReaderMode, setNdefPush, AidsChange, CommitRouting, openEe, nfcEeClose,
         Untasked, tasks
    <3>4. QED
      BY <1>3, <3>1, <3>2, <3>3 DEF RoutingInput
  <2>4. Ends' = Ends
    <3>1. CASE UNCHANGED executor
      BY <2>1, <2>2, <3>1, NotAppended
    <3>2. ASSUME NEW s \in 0 .. SCREEN_STATE_ON_UNLOCKED,
                 executor' = Append(executor, <<"apply", s>>)
          PROVE  Ends' = Ends
      <4>1. "apply" \in Tasks
        BY DEF Tasks
      <4>2. Ends' = Outcome("apply", Goal', Final(Names(executor), Goal',
                                                  Final(todo, Goal', StepFinal)))
        BY <2>1, <3>2, <4>1, EndsAppended
      <4>3. \A t : Outcome("apply", Goal', t) = t
        BY DEF Outcome
      <4>4. QED
        BY <2>2, <4>2, <4>3 DEF Ends
    <3>3. QED
      BY <2>3, <3>1, <3>2
  <2>5. QED
    BY <2>1, <2>2, <2>4, SettingsKept
<1>4. CASE TaskStep
  <2>1. /\ UNCHANGED <<chip, airplane, broadcasts, requests>> /\ excused \subseteq excused'
        /\ prefs' = prefs \/ prefs' = [prefs EXCEPT !.firstBoot = FALSE]
    BY <1>4, TasksKeepSettings
  <2>2. prefs'.nfc = prefs.nfc /\ prefs'.override = prefs.override
    BY <1>p, <2>1
  <2>3. CASE excused' = {}
    <3>1. Goal' = Goal /\ Ends' = Ends
      BY <1>4, <2>3, TasksKeepGoal, TasksKeepEnds
    <3>2. QED
      BY <2>1, <2>2, <3>1, SettingsKept
  <2>4. CASE excused' # {}
    BY <2>1, <2>2, <2>4 DEF SettingsInv, Announced
  <2>5. QED
    BY <2>3, <2>4
<1>5. CASE Abort
  <2>1. /\ UNCHANGED <<chip, prefs, airplane>>
        /\ broadcasts' = <<>> /\ requests' = {} /\ excused' = {}
        /\ executor' = <<<<"boot", 0>>>>
    BY <1>5 DEF Abort, Fresh
  <2>2. Ends' = Goal'
    <3>1. Names(executor)' = <<"boot">>
      BY <2>1 DEF Names
    <3>2. "boot" \in Words
      BY DEF Words, Tasks
    <3>3. Ends' = Outcome("boot", Goal', Final(todo', Goal', StepFinal'))
      BY <3>1, <3>2, FinalLists DEF Ends
    <3>4. QED
      BY <3>3 DEF Outcome
  <2>3. Goal' = Goal
    BY <2>1 DEF Goal, nfcOnAtBoot
  <2>4. (airplane /\ ~prefs.override) \/ ~prefs.nfc => Goal = "OFF"
    BY DEF Goal, nfcOnAtBoot
  <2>5. QED
    BY <2>1, <2>2, <2>3, <2>4 DEF SettingsInv, Announced, InStep
<1>6. QED
  BY <1>1, <1>2, <1>3, <1>4, <1>5 DEF Next

(* At boot the executor comes to what the boot task finds in the settings.  *)
LEMMA SettingsInit == Init => BootFirst /\ SettingsInv
<1> SUFFICES ASSUME Init PROVE BootFirst /\ SettingsInv
  OBVIOUS
<1>1. Names(executor) = <<"boot">> /\ "boot" \in Words
  BY DEF Init, Names, Words, Tasks
<1>2. Ends = Goal
  <2>1. Ends = Outcome("boot", Goal, Final(todo, Goal, StepFinal))
    BY <1>1, FinalLists DEF Ends
  <2>2. QED
    BY <2>1 DEF Outcome
<1>3. ~prefs.nfc => Goal = "OFF"
  BY DEF Goal, nfcOnAtBoot
<1>4. BootFirst
  BY DEF Init, BootFirst
<1>5. ~prefs.override /\ ~airplane /\ broadcasts = <<>> /\ requests = {}
  BY DEF Init
<1>6. SettingsInv
  BY <1>2, <1>3, <1>5 DEF SettingsInv, Announced, InStep
<1>7. QED
  BY <1>4, <1>6

(* When the executor is idle, the adapter is where it was to come to.       *)
LEMMA SettledEnds ==
    StateInv /\ BootFirst /\ SettingsInv => SettledMatchesSettings
<1> SUFFICES ASSUME StateInv, BootFirst, SettingsInv, Settled, excused = {}
             PROVE  mState = "ON" <=> nfcOnAtBoot
  BY DEF SettledMatchesSettings
<1>1. pc = "idle" /\ executor = <<>> /\ todo = <<>> /\ broadcasts = <<>> /\ requests = {}
  BY DEF Settled, BootFirst
<1>2. Names(executor) = <<>>
  BY <1>1 DEF Names
<1>3. Ends = mState
  BY <1>1, <1>2, FinalEmpty DEF Ends, StepFinal, Waiting
<1>4. Ends = Goal
  BY <1>1 DEF SettingsInv, InStep
<1>5. QED
  BY <1>3, <1>4 DEF Goal
-----------------------------------------------------------------------------
(* The controller and what it is to do. *)

(* A forced ApplyRoutingTask waits.                                         *)
Forced == \E i \in 1 .. Len(executor) : executor[i] = <<"apply", 0>>

(* The flags that decide whether the controller is told mirror it.          *)
Mirrored ==
    /\ device.polling <=> mNfcPollingEnabled
    /\ device.host <=> mHostRouteEnabled
    /\ ~chip.quirks => (device.nfcee <=> mNfceeRouteEnabled)

(* They are what they should be; a change of the AIDs is made known by the  *)
(* commit, one of the route by a forced task, and turning off begins with   *)
(* the host route.                                                          *)
UpToDate ==
    /\ mNfcPollingEnabled <=> mScreenState >= POLLING_MODE
    /\ ~commit /\ pc # "turnOff" =>
         (mHostRouteEnabled <=> chip.hce /\ mScreenState >= SCREEN_STATE_ON_LOCKED /\ aids.toHost)
    /\ ~Forced /\ ~chip.quirks =>
         (mNfceeRouteEnabled <=> mScreenState >= SCREEN_STATE_ON_LOCKED /\ mEeRoutingState)

(* All that applyRouting is responsible for.                                *)
AllApplied ==
    /\ Mirrored
    /\ mNfcPollingEnabled <=> mScreenState >= POLLING_MODE
    /\ mHostRouteEnabled <=> chip.hce /\ mScreenState >= SCREEN_STATE_ON_LOCKED /\ aids.toHost
    /\ ~chip.quirks =>
         (mNfceeRouteEnabled <=> mScreenState >= SCREEN_STATE_ON_LOCKED /\ mEeRoutingState)

(* NFC is on, and has been told so, and no application holds the element.   *)
Running == mState = "ON" /\ pc # "applyRouting" /\ ~chip.pn547 /\ ~mOpenEe
NoHost == /\ chip.quirks => ~chip.hce
          /\ ~chip.hce => ~mHostRouteEnabled /\ ~device.host
RoutedInv == NoHost /\ (Running => Mirrored /\ UpToDate)

LEMMA PollsEffect ==
    \A dev \in DeviceTypes, on \in BOOLEAN :
       /\ Polls(dev, on).polling = on
       /\ Polls(dev, on).host = dev.host /\ Polls(dev, on).nfcee = dev.nfcee
BY DEF Polls, DeviceTypes

(* Applying the routing never routes to the host on a controller without    *)
(* host card emulation.                                                     *)
LEMMA ApplyNoHost ==
    ASSUME NEW force \in BOOLEAN, RoutingTypes, InputTypes', UNCHANGED chip, NoHost,
           applyRouting(force)
    PROVE  NoHost'
<1>1. CASE UNCHANGED routing
  BY <1>1 DEF routing, flags, NoHost
<1>d. device \in DeviceTypes
  BY DEF RoutingTypes, DeviceTypes
<1>2. CASE screenOffQuirk(force)
  <2>1. UNCHANGED mHostRouteEnabled
    BY <1>2 DEF screenOffQuirk
  <2>2. device'.host = device.host
    <3>1. Polls(device, FALSE).host = device.host
      BY <1>d, PollsEffect
    <3>2. Polls(device, FALSE) \in DeviceTypes
      BY <1>d, PollsTyped
    <3>3. \A d \in DeviceTypes : [d EXCEPT !.nfcee = FALSE].host = d.host
      BY DEF DeviceTypes
    <3>4. QED
      BY <1>2, <1>d, <3>1, <3>2, <3>3 DEF screenOffQuirk
  <2>3. QED
    BY <2>1, <2>2 DEF NoHost
<1>3. CASE routeAndPoll(force)
  <2>1. ASSUME ~chip.hce PROVE ~mHostRouteEnabled' /\ ~device'.host
    <3>1. ~hostWanted
      BY <2>1 DEF hostWanted
    <3>2. mHostRouteEnabled' = hostWanted
      BY <1>3 DEF routeAndPoll
    <3>3. ~mHostRouteEnabled /\ ~device.host
      BY <2>1 DEF NoHost
    <3> DEFINE d == IF Touches(force, mNfcPollingEnabled, pollingWanted)
                    THEN Polls(device, pollingWanted) ELSE device
    <3>p. pollingWanted \in BOOLEAN
      BY DEF pollingWanted
    <3>4. d \in DeviceTypes /\ d.host = device.host
      BY <1>d, <3>p, PollsTyped, PollsEffect
    <3> DEFINE r == IF mReaderModeEnabled' # mReaderModeEnabled /\ d.polling
                    THEN mReaderModeEnabled' ELSE d.reader
               h == IF Touches(force, mHostRouteEnabled, hostWanted) THEN hostWanted ELSE d.host
               n == IF Touches(force, mNfceeRouteEnabled, nfceeWanted) /\ ~chip.pn547
                    THEN nfceeWanted ELSE d.nfcee
    <3>5. device' = [d EXCEPT !.reader = r, !.host = h, !.nfcee = n]
      BY <1>3 DEF routeAndPoll, d
    <3> HIDE DEF d, r, n
    <3>6. ~h
      BY <3>1, <3>3, <3>4
    <3>7. device'.host = h
      <4> HIDE DEF h
      <4>1. QED
        BY <3>4, <3>5 DEF DeviceTypes
    <3>8. QED
      BY <3>1, <3>2, <3>6, <3>7
  <2>2. QED
    BY <2>1 DEF NoHost
<1>4. QED
  BY <1>1, <1>2, <1>3 DEF applyRouting

(* Applied in force, or with flags that mirror the controller, the routing  *)
(* is applied as a whole.                                                   *)
LEMMA ApplyApplies ==
    ASSUME NEW force \in BOOLEAN, RoutingTypes, InputTypes', UNCHANGED chip, NoHost, NoHost',
           mState' = "ON", ~mOpenEe', ~chip.pn547, force \/ Mirrored,
           applyRouting(force)
    PROVE  AllApplied'
<1>1. isNfcEnabledOrShuttingDown(mState')
  BY DEF isNfcEnabledOrShuttingDown
<1>d. device \in DeviceTypes
  BY DEF RoutingTypes, DeviceTypes
<1>b. /\ mNfcPollingEnabled \in BOOLEAN /\ mHostRouteEnabled \in BOOLEAN
      /\ mNfceeRouteEnabled \in BOOLEAN /\ mScreenState' \in ScreenStates
  BY DEF RoutingTypes, InputTypes
<1>2. CASE chip.quirks /\ mScreenState' = SCREEN_STATE_OFF
  <2>1. screenOffQuirk(force)
    BY <1>1, <1>2 DEF applyRouting
  <2>2. ~mHostRouteEnabled' /\ ~device'.host /\ ~chip.hce
    BY <1>2 DEF NoHost
  <2>3. ~mNfcPollingEnabled'
    BY <1>b, <2>1 DEF screenOffQuirk
  <2>4. ~device'.polling
    <3>1. force \/ mNfcPollingEnabled \/ ~device.polling
      BY DEF Mirrored
    <3> DEFINE d == IF force \/ mNfcPollingEnabled THEN Polls(device, FALSE) ELSE device
    <3>2. d \in DeviceTypes /\ ~d.polling
      BY <1>d, <3>1, PollsTyped, PollsEffect
    <3> HIDE DEF d
    <3>3. device' \in {d, [d EXCEPT !.nfcee = FALSE]}
      BY <2>1 DEF screenOffQuirk, d
    <3>4. QED
      BY <3>2, <3>3 DEF DeviceTypes
  <2>5. ~(mScreenState' >= POLLING_MODE) /\ ~(mScreenState' >= SCREEN_STATE_ON_LOCKED)
    BY <1>2 DEF POLLING_MODE, SCREEN_STATE_OFF, SCREEN_STATE_ON_LOCKED, SCREEN_STATE_ON_UNLOCKED
  <2>6. QED
    BY <1>2, <2>2, <2>3, <2>4, <2>5 DEF AllApplied, Mirrored
<1>3. CASE ~(chip.quirks /\ mScreenState' = SCREEN_STATE_OFF)
  <2>1. routeAndPoll(force)
    BY <1>1, <1>3 DEF applyRouting
  <2>2. /\ mHostRouteEnabled' = hostWanted /\ mNfceeRouteEnabled' = nfceeWanted
        /\ mNfcPollingEnabled' = pollingWanted
    BY <2>1 DEF routeAndPoll
  <2>3. hostWanted \in BOOLEAN /\ nfceeWanted \in BOOLEAN /\ pollingWanted \in BOOLEAN
    <3>1. hostWanted \in BOOLEAN
      BY DEF hostWanted
    <3>2. nfceeWanted \in BOOLEAN
      BY DEF nfceeWanted
    <3>3. pollingWanted \in BOOLEAN
      BY DEF pollingWanted
    <3>4. QED
      BY <3>1, <3>2, <3>3
  <2> DEFINE d == IF Touches(force, mNfcPollingEnabled, pollingWanted)
                  THEN Polls(device, pollingWanted) ELSE device
             h == IF Touches(force, mHostRouteEnabled, hostWanted) THEN hostWanted ELSE d.host
             n == IF Touches(force, mNfceeRouteEnabled, nfceeWanted) THEN nfceeWanted ELSE d.nfcee
  <2>4. d \in DeviceTypes /\ d.host = device.host /\ d.nfcee = device.nfcee
    BY <1>d, <2>3, PollsTyped, PollsEffect
  <2>5. d.polling = pollingWanted
    <3>1. CASE Touches(force, mNfcPollingEnabled, pollingWanted)
      BY <1>d, <2>3, <3>1, PollsEffect
    <3>2. CASE ~Touches(force, mNfcPollingEnabled, pollingWanted)
      <4>1. ~force /\ mNfcPollingEnabled = pollingWanted
        BY <3>2 DEF Touches
      <4>2. device.polling = mNfcPollingEnabled
        BY <1>b, <1>d, <4>1 DEF Mirrored, DeviceTypes
      <4>3. QED
        BY <3>2, <4>1, <4>2
    <3>3. QED
      BY <3>1, <3>2
  <2>6. h = hostWanted
    <3>1. CASE ~Touches(force, mHostRouteEnabled, hostWanted)
      <4>1. ~force /\ mHostRouteEnabled = hostWanted
        BY <3>1 DEF Touches
      <4>2. device.host = mHostRouteEnabled
        BY <1>b, <1>d, <4>1 DEF Mirrored, DeviceTypes
      <4>3. QED
        BY <2>4, <3>1, <4>1, <4>2
    <3>2. QED
      BY <3>1
  <2>7. ~chip.quirks => n = nfceeWanted
    <3>1. CASE ~Touches(force, mNfceeRouteEnabled, nfceeWanted) /\ ~chip.quirks
      <4>1. ~force /\ mNfceeRouteEnabled = nfceeWanted
        BY <3>1 DEF Touches
      <4>2. device.nfcee = mNfceeRouteEnabled
        BY <1>b, <1>d, <3>1, <4>1 DEF Mirrored, DeviceTypes
      <4>3. QED
        BY <2>4, <3>1, <4>1, <4>2
    <3>2. QED
      BY <3>1
  <2>8. \E r : device' = [d EXCEPT !.reader = r, !.host = h, !.nfcee = n]
    BY <2>1, <2>4 DEF routeAndPoll, DeviceTypes
  <2> HIDE DEF d, h, n
  <2>9. device'.polling = d.polling /\ device'.host = h /\ device'.nfcee = n
    BY <2>4, <2>8 DEF DeviceTypes
  <2>10. Mirrored'
    <3>1. device'.polling = mNfcPollingEnabled' /\ device'.host = mHostRouteEnabled'
      BY <2>2, <2>5, <2>6, <2>9
    <3>2. ~chip.quirks => device'.nfcee = mNfceeRouteEnabled'
      BY <2>2, <2>7, <2>9
    <3>3. QED
      BY <3>1, <3>2 DEF Mirrored
  <2>11. /\ mNfcPollingEnabled' <=> mScreenState' >= POLLING_MODE
         /\ mHostRouteEnabled'
               <=> chip.hce /\ mScreenState' >= SCREEN_STATE_ON_LOCKED /\ aids.toHost'
         /\ mNfceeRouteEnabled' <=> mScreenState' >= SCREEN_STATE_ON_LOCKED /\ mEeRoutingState'
    <3>1. mNfcPollingEnabled' <=> mScreenState' >= POLLING_MODE
      BY <2>2 DEF pollingWanted
    <3>2. mHostRouteEnabled'
               <=> chip.hce /\ mScreenState' >= SCREEN_STATE_ON_LOCKED /\ aids.toHost'
      BY <2>2 DEF hostWanted
    <3>3. mNfceeRouteEnabled' <=> mScreenState' >= SCREEN_STATE_ON_LOCKED /\ mEeRoutingState'
      BY <2>2 DEF nfceeWanted
    <3>4. QED
      BY <3>1, <3>2, <3>3
  <2>12. QED
    BY <2>10, <2>11 DEF AllApplied
<1>4. QED
  BY <1>2, <1>3

(* Applying the routing keeps the controller as it should be.               *)
LEMMA ApplyRouted ==
    ASSUME RoutingTypes, InputTypes', UNCHANGED chip, RoutedInv, NEW force \in BOOLEAN,
           applyRouting(force), Running' => force \/ Running
    PROVE  RoutedInv'
<1>1. NoHost'
  BY ApplyNoHost DEF RoutedInv
<1>2. ASSUME Running' PROVE Mirrored' /\ UpToDate'
  <2>1. force \/ Mirrored
    BY <1>2 DEF RoutedInv
  <2>2. AllApplied'
    BY <1>1, <1>2, <2>1, ApplyApplies DEF Running, RoutedInv
  <2>3. QED
    BY <2>2 DEF AllApplied, UpToDate
<1>3. QED
  BY <1>1, <1>2 DEF RoutedInv

(* A step that changes nothing of the routing, or only queues.              *)
LEMMA RoutedKept ==
    ASSUME RoutedInv, UNCHANGED <<chip, routing, mScreenState, mEeRoutingState, aids>>,
           commit => commit', Running' => Running /\ (pc = "turnOff" => pc' = "turnOff"),
           Running' => (Forced => Forced')
    PROVE  RoutedInv'
<1>1. NoHost'
  BY DEF RoutedInv, NoHost, routing, flags
<1>2. ASSUME Running' PROVE Mirrored' /\ UpToDate'
  BY <1>2 DEF RoutedInv, Mirrored, UpToDate, routing, flags
<1>3. QED
  BY <1>1, <1>2 DEF RoutedInv

(* While NFC is not on nothing is asked of the flags.                       *)
LEMMA RoutedOff ==
    ASSUME RoutedInv, UNCHANGED chip, UNCHANGED mHostRouteEnabled,
           device'.host => device.host, ~Running'
    PROVE  RoutedInv'
BY DEF RoutedInv, NoHost

LEMMA ForcedAppended ==
    ASSUME TaskTypes, Forced, NEW x \in Queued, executor' = Append(executor, x) PROVE Forced'
<1>1. PICK i \in 1 .. Len(executor) : executor[i] = <<"apply", 0>>
  BY DEF Forced
<1>2. i \in 1 .. Len(executor') /\ executor'[i] = executor[i]
  BY DEF TaskTypes, Queued
<1>3. QED
  BY <1>1, <1>2 DEF Forced

(* Every step keeps the controller as it should be.                         *)
LEMMA RoutedStep ==
    /\ TaskTypes /\ InputTypes /\ InputTypes' /\ RoutingTypes /\ StateInv
    /\ RoutedInv /\ [Next]_vars
    => RoutedInv'
<1> SUFFICES ASSUME TaskTypes, InputTypes, InputTypes', RoutingTypes, StateInv, RoutedInv,
                    [Next]_vars
             PROVE  RoutedInv'
  OBVIOUS
<1>d. device \in DeviceTypes
  BY DEF RoutingTypes, DeviceTypes
<1>a. ASSUME UNCHANGED <<chip, routing, mScreenState, mEeRoutingState, aids, commit, mOpenEe,
                         mState, pc>>,
             Forced => Forced'
      PROVE  RoutedInv'
  BY <1>a, RoutedKept DEF Running
<1>1. CASE UNCHANGED vars
  BY <1>1, <1>a DEF vars, tasks, inputs, Forced
<1>2. CASE PowerRequest
  <2>1. UNCHANGED <<chip, routing, mScreenState, mEeRoutingState, aids, commit, mOpenEe,
                    mState, pc>>
    BY <1>2, PowerRequestKeeps DEF SameDevice, inputs
  <2>2. Forced => Forced'
    <3>1. CASE UNCHANGED executor
      BY <3>1 DEF Forced
    <3>2. ASSUME NEW t \in Tasks \ {"boot"}, NEW s \in 0 .. SCREEN_STATE_ON_UNLOCKED,
                 executor' = Append(executor, <<t, s>>)
          PROVE  Forced => Forced'
      BY <3>2, ForcedAppended DEF Queued
    <3>3. QED
      BY <1>2, <3>1, <3>2, ThreadsAppend
  <2>3. QED
    BY <2>1, <2>2, <1>a
<1>3. CASE RoutingInput
  <2>1. ASSUME NEW screen \in ScreenStates, ScreenBroadcast(screen) PROVE RoutedInv'
    <3>1. /\ executor' = Append(executor, <<"apply", screen>>)
          /\ UNCHANGED <<chip, routing, mScreenState, mEeRoutingState, aids, commit, mOpenEe,
                         mState, pc>>
      BY <2>1 DEF ScreenBroadcast, SameDevice, inputs
    <3>2. <<"apply", screen>> \in Queued
      BY DEF Queued, Tasks, ScreenStates, SCREEN_STATE_OFF, SCREEN_STATE_ON_UNLOCKED
    <3>3. QED
      BY <3>1, <3>2, <1>a, ForcedAppended
  <2>2. ASSUME NEW route \in BOOLEAN, setCardEmulationRoute(route) PROVE RoutedInv'
    <3>1. /\ executor' = Append(executor, <<"apply", 0>>)
          /\ UNCHANGED <<chip, routing, mScreenState, aids, commit, mOpenEe, mState, pc>>
      BY <2>2 DEF setCardEmulationRoute
    <3>2. Forced'
      <4>1. executor'[Len(executor) + 1] = <<"apply", 0>> /\ Len(executor') = Len(executor) + 1
        BY <3>1 DEF TaskTypes
      <4>2. Len(executor) + 1 \in 1 .. Len(executor')
        BY <4>1 DEF TaskTypes
      <4>3. QED
        BY <4>1, <4>2 DEF Forced
    <3>3. NoHost'
      BY <3>1 DEF RoutedInv, NoHost, routing, flags
    <3>4. Running' => Mirrored' /\ UpToDate'
      BY <3>1, <3>2 DEF RoutedInv, Running, Mirrored, UpToDate, routing, flags
    <3>5. QED
      BY <3>3, <3>4 DEF RoutedInv
  <2>3. CASE setReaderMode
    <3>1. /\ UNCHANGED <<chip, mState, pc, mOpenEe>> /\ applyRouting(FALSE)
      BY <2>3 DEF setReaderMode, Untasked, tasks
    <3>2. Running' => Running
      BY <3>1 DEF Running
    <3>3. QED
      BY <3>1, <3>2, ApplyRouted
  <2>4. CASE setNdefPush
    <3>1. UNCHANGED <<chip, routing, mScreenState, mEeRoutingState, aids, commit, mOpenEe,
                      mState, pc, executor>>
      BY <2>4 DEF setNdefPush, Untasked, tasks, inputs
    <3>2. QED
      BY <3>1, <1>a DEF Forced
  <2>5. CASE AidsChange
    <3>1. /\ UNCHANGED <<chip, routing, mScreenState, mEeRoutingState, mOpenEe, mState, pc,
                         executor>>
          /\ commit'
      BY <2>5 DEF AidsChange, Untasked, tasks, inputs
    <3>2. NoHost'
      BY <3>1 DEF RoutedInv, NoHost, routing, flags
    <3>3. Running' => Mirrored' /\ UpToDate'
      BY <3>1 DEF RoutedInv, Running, Mirrored, UpToDate, Forced, routing, flags
    <3>4. QED
      BY <3>2, <3>3 DEF RoutedInv
  <2>6. CASE CommitRouting
    <3>1. UNCHANGED chip /\ applyRouting(TRUE)
      BY <2>6 DEF CommitRouting, Untasked
    <3>2. QED
      BY <3>1, ApplyRouted
  <2>7. CASE openEe
    <3>1. /\ UNCHANGED <<chip, mState, pc, executor, mScreenState, mEeRoutingState, aids, commit,
                         mHostRouteEnabled, mNfceeRouteEnabled>>
          /\ ~mOpenEe
      BY <2>7 DEF openEe, Untasked, tasks, inputs
    <3> DEFINE d == Polls(device, FALSE)
    <3>2. \/ mOpenEe' /\ device' \in {d, device}
          \/ mNfcPollingEnabled /\ mNfcPollingEnabled' = mNfcPollingEnabled /\ device' = Polls(d, TRUE)
      BY <2>7 DEF openEe
    <3>3. d \in DeviceTypes /\ d.host = device.host /\ d.nfcee = device.nfcee
      BY <1>d, PollsTyped, PollsEffect
    <3>4. /\ Polls(d, TRUE).polling = TRUE
          /\ Polls(d, TRUE).host = device.host /\ Polls(d, TRUE).nfcee = device.nfcee
      BY <3>3, PollsEffect
    <3>5. device'.host = device.host
      BY <3>2, <3>3, <3>4
    <3>6. NoHost'
      BY <3>1, <3>5 DEF RoutedInv, NoHost
    <3>7. ASSUME Running' PROVE Mirrored' /\ UpToDate'
      <4>1. /\ mNfcPollingEnabled /\ mNfcPollingEnabled' = mNfcPollingEnabled
            /\ device' = Polls(d, TRUE)
        BY <3>2, <3>7 DEF Running
      <4>2. device'.polling /\ device'.host = device.host /\ device'.nfcee = device.nfcee
        BY <4>1, <3>4
      <4>3. Running /\ Forced' = Forced
        BY <3>1, <3>7 DEF Running, Forced
      <4>4. Mirrored /\ UpToDate
        BY <4>3 DEF RoutedInv
      <4>5. Mirrored'
        BY <3>1, <4>1, <4>2, <4>4 DEF Mirrored
      <4>6. UpToDate'
        BY <3>1, <4>1, <4>3, <4>4 DEF UpToDate
      <4>7. QED
        BY <4>5, <4>6
    <3>8. QED
      BY <3>6, <3>7 DEF RoutedInv
  <2>8. CASE nfcEeClose
    <3>1. UNCHANGED chip /\ applyRouting(~chip.pn547) /\ (~chip.pn547) \in BOOLEAN
      BY <2>8 DEF nfcEeClose, Untasked
    <3>2. Running' => ~chip.pn547
      BY <3>1 DEF Running
    <3>3. QED
      BY <3>1, <3>2, ApplyRouted
  <2>9. QED
    BY <1>3, <2>1, <2>2, <2>3, <2>4, <2>5, <2>6, <2>7, <2>8 DEF RoutingInput
<1>4. CASE Abort
  <2>1. /\ UNCHANGED chip /\ mState' = "OFF" /\ ~mHostRouteEnabled' /\ device' = Down
    BY <1>4 DEF Abort, Fresh
  <2>2. QED
    BY <2>1 DEF RoutedInv, NoHost, Running, Down
<1>5. CASE TaskBegins
  <2>1. /\ UNCHANGED <<chip, routing, mScreenState, mEeRoutingState, aids, commit, mOpenEe, mState>>
        /\ executor # <<>> /\ Head(executor)[1] # "apply" /\ executor' = Tail(executor)
        /\ pc = "idle" /\ pc' \in {"idle", "next"}
    BY <1>5 DEF TaskBegins, inputs
  <2>2. Forced => Forced'
    <3>1. /\ Len(executor) \in Nat /\ Len(executor') = Len(executor) - 1
          /\ \A i \in 1 .. Len(executor) - 1 : executor'[i] = executor[i + 1]
          /\ Head(executor) = executor[1]
      BY <2>1 DEF TaskTypes
    <3>2. ASSUME NEW i \in 1 .. Len(executor), executor[i] = <<"apply", 0>>
          PROVE  i - 1 \in 1 .. Len(executor') /\ executor'[i - 1] = <<"apply", 0>>
      <4>1. i # 1
        BY <2>1, <3>1, <3>2
      <4>2. i - 1 \in 1 .. Len(executor) - 1 /\ (i - 1) + 1 = i
        BY <3>1, <4>1
      <4>3. QED
        BY <3>1, <3>2, <4>2
    <3>3. QED
      BY <3>2 DEF Forced
  <2>3. QED
    BY <2>1, <2>2, RoutedKept DEF Running
<1>6. CASE TaskEnds
  <2>1. /\ UNCHANGED <<chip, routing, mScreenState, mEeRoutingState, aids, commit, mOpenEe, mState,
                       executor>>
        /\ pc = "next"
    BY <1>6 DEF TaskEnds, inputs
  <2>2. QED
    BY <2>1, RoutedKept DEF Running, Forced
<1>7. CASE ApplyRoutingTask
  <2>1. /\ UNCHANGED <<chip, mState, pc, mOpenEe>> /\ applyRouting(Head(executor)[2] = 0)
        /\ (Head(executor)[2] = 0) \in BOOLEAN
    BY <1>7 DEF ApplyRoutingTask
  <2>2. Running' => Running
    BY <2>1 DEF Running
  <2>3. QED
    BY <2>1, <2>2, ApplyRouted
<1>8. CASE enableInternal \/ executeEeWipe \/ firstBootDone
  <2>1. /\ UNCHANGED <<chip, routing, mScreenState, mEeRoutingState, aids, commit, mOpenEe, executor>>
        /\ pc = "next" /\ (mState' = "ON" => UNCHANGED <<mState, pc>>)
    BY <1>8 DEF enableInternal, executeEeWipe, firstBootDone, Starts, inputs
  <2>2. QED
    BY <2>1, RoutedKept DEF Running, Forced
<1>9. CASE startPolling
  <2>1. UNCHANGED chip /\ applyRouting(TRUE)
    BY <1>9 DEF startPolling, Goes
  <2>2. QED
    BY <2>1, ApplyRouted
<1>10. CASE \/ initialize \/ initializeFails \/ onNfcEnabled \/ beamOn \/ stateOn
            \/ turnOff \/ onNfcDisabled \/ beamOff \/ deinitialize \/ stateOff
  <2>1. UNCHANGED <<chip, mHostRouteEnabled>>
    BY <1>10 DEF initialize, initializeFails, onNfcEnabled, beamOn, stateOn, turnOff,
       onNfcDisabled, beamOff, deinitialize, stateOff, Goes, routing, flags
  <2>2. device'.host => device.host
    <3>1. device' \in {device, Down, [device EXCEPT !.on = TRUE]}
      BY <1>10 DEF initialize, initializeFails, onNfcEnabled, beamOn, stateOn, turnOff,
         onNfcDisabled, beamOff, deinitialize, stateOff, routing
    <3>2. QED
      BY <1>d, <3>1 DEF DeviceTypes, Down
  <2>3. ~Running'
    <3>1. CASE stateOn
      BY <3>1 DEF stateOn, Goes, After, Running
    <3>2. CASE initializeFails \/ turnOff \/ stateOff
      BY <3>2 DEF initializeFails, turnOff, stateOff, Running
    <3>3. CASE initialize \/ onNfcEnabled \/ beamOn \/ onNfcDisabled \/ beamOff \/ deinitialize
      <4>1. UNCHANGED mState /\ pc \in TurningOn \cup TurningOff
        BY <3>3 DEF initialize, onNfcEnabled, beamOn, onNfcDisabled, beamOff, deinitialize, Goes,
           TurningOn, TurningOff
      <4>2. QED
        BY <4>1 DEF StateInv, Running
    <3>4. QED
      BY <1>10, <3>1, <3>2, <3>3
  <2>4. QED
    BY <2>1, <2>2, <2>3, RoutedOff
<1>11. CASE closeEe
  <2>1. UNCHANGED <<chip, mState>> /\ pc = "closeEe"
    BY <1>11 DEF closeEe, Goes
  <2>2. ~Running'
    BY <2>1 DEF StateInv, TurningOff, Running
  <2>3. CASE UNCHANGED routing
    BY <2>1, <2>2, <2>3, RoutedOff DEF routing, flags
  <2>4. CASE applyRouting(~chip.pn547)
    <3>1. (~chip.pn547) \in BOOLEAN
      OBVIOUS
    <3>2. QED
      BY <2>1, <2>2, <2>4, <3>1, ApplyRouted
  <2>5. QED
    BY <1>11, <2>3, <2>4 DEF closeEe
<1>12. CASE disableInternal
  <2>1. /\ UNCHANGED <<chip, mState, executor, mScreenState, mEeRoutingState, aids, commit, mOpenEe,
                       mNfcPollingEnabled, mNfceeRouteEnabled>>
        /\ pc = "next"
        /\ IF mState = "OFF" THEN UNCHANGED <<pc, routing>>
           ELSE /\ pc' = "turnOff"
                /\ IF chip.hce
                   THEN mHostRouteEnabled' = FALSE /\ device' = [device EXCEPT !.host = FALSE]
                   ELSE UNCHANGED <<mHostRouteEnabled, device>>
    BY <1>12 DEF disableInternal, Starts, inputs, After, routing, flags
  <2>2. CASE mState = "OFF"
    BY <2>1, <2>2, <1>a DEF Forced
  <2>3. CASE mState # "OFF"
    <3>1. \/ /\ chip.hce /\ mHostRouteEnabled' = FALSE
             /\ device' = [device EXCEPT !.host = FALSE]
          \/ ~chip.hce /\ UNCHANGED <<mHostRouteEnabled, device>>
      BY <2>1, <2>3
    <3>2. /\ device'.polling = device.polling /\ device'.nfcee = device.nfcee
          /\ chip.hce => ~device'.host
      BY <1>d, <3>1 DEF DeviceTypes
    <3>3. NoHost'
      BY <2>1, <3>1 DEF RoutedInv, NoHost
    <3>4. ASSUME Running' PROVE Mirrored' /\ UpToDate'
      <4>1. Running /\ pc' = "turnOff" /\ Forced' = Forced
        BY <2>1, <2>3, <3>4 DEF Running, Forced
      <4>2. Mirrored /\ UpToDate
        BY <4>1 DEF RoutedInv
      <4>3. Mirrored'
        BY <2>1, <3>1, <3>2, <4>2 DEF Mirrored
      <4>4. UpToDate'
        BY <2>1, <4>1, <4>2 DEF UpToDate
      <4>5. QED
        BY <4>3, <4>4
    <3>5. QED
      BY <3>3, <3>4 DEF RoutedInv
  <2>4. QED
    BY <2>2, <2>3
<1>13. QED
  BY <1>1, <1>2, <1>3, <1>4, <1>5, <1>6, <1>7, <1>8, <1>9, <1>10, <1>11, <1>12
     DEF Next, TaskStep

(* At boot the controller is down.                                          *)
LEMMA RoutedInit == Init => RoutedInv
BY QuirksAssumption DEF Init, RoutedInv, NoHost, Running, Down

(* Once nothing is under way the controller does what it should.            *)
LEMMA SettledRouted == RoutingTypes /\ RoutedInv => RoutingSettled
<1> SUFFICES ASSUME RoutingTypes, RoutedInv, InForce, ~chip.pn547
             PROVE  PollingApplied /\ HostApplied /\ (~chip.quirks => NfceeApplied)
  BY DEF RoutingSettled
<1>1. /\ mState = "ON" /\ ~mOpenEe /\ pc = "idle" /\ executor = <<>> /\ ~commit
  BY DEF InForce, Settled
<1>2. Mirrored /\ UpToDate /\ ~Forced
  BY <1>1 DEF RoutedInv, Running, Forced
<1>3. QED
  BY <1>1, <1>2 DEF Mirrored, UpToDate, PollingApplied, HostApplied, NfceeApplied

(* At rest the adapter is on or off as the settings say, and the controller *)
(* polls and routes as the screen, the route and the AIDs say: in whatever  *)
(* order requests, broadcasts, tasks and commits came, and after aborts.    *)
THEOREM SettledCorrect == Spec => []SettledAsAsked
<1> DEFINE Types == TaskTypes /\ SettingTypes /\ InputTypes /\ RoutingTypes
           Inv == Types /\ StateInv /\ BootFirst /\ SettingsInv /\ RoutedInv
<1>1. Init => Inv
  BY TypesInit, StateInit, SettingsInit, RoutedInit
<1>2. Inv /\ [Next]_vars => Inv'
  <2> SUFFICES ASSUME Inv, [Next]_vars PROVE Inv'
    OBVIOUS
  <2>1. Types'
    BY TaskTypesStep, SettingTypesStep, InputTypesStep, RoutingTypesStep
  <2>2. StateInv'
    BY StateStep
  <2>3. BootFirst'
    BY BootFirstStep
  <2>4. SettingsInv'
    BY SettingsStep DEF RoutingTypes
  <2>5. RoutedInv'
    BY <2>1, RoutedStep
  <2>6. QED
    BY <2>1, <2>2, <2>3, <2>4, <2>5
<1>3. Inv => SettledAsAsked
  BY SettledEnds, SettledRouted DEF SettledAsAsked
<1>4. QED
  BY <1>1, <1>2, <1>3, PTL DEF Spec
===============================================================================
