# The NFC service of Android, specified in TLA+

A formal model of the NFC application of Android (`packages/apps/Nfc`): the
service that switches the NFC controller on and off, Android Beam and host card
emulation, and below them the native adapters for NCI controllers (tags, secure
elements, peer-to-peer, discovery, routing, power) and for the PN544. TLC checks the
modules on small instances, TLAPS proves the most important of what TLC checks
for every value of the constants. The modules are translated from the source; every definition that
stands for code is listed with its lines in `PROJECT.json` ("map").

Sections: [inventory](#1-the-system) - [modules](#2-the-modules) -
[runs](#3-the-runs-and-their-bounds) - [fairness](#4-fairness) -
[proofs](#5-proofs) - [findings](#6-findings-and-statements-the-code-does-not-keep) -
[not modelled](#7-what-is-not-modelled) - [plan](#8-plan).

## 1. The system

The Java service (`src/src/com/android/nfc`) runs in one process with a main
(UI) thread, a serial executor for its AsyncTasks, a pool of binder threads, and
threads of its own (the receive servers, watchdogs). Below it are two native
adapters: `src/nci` for NCI controllers, on a vendor stack that calls back on its
own thread, and `src/nxp` for the PN544, on libnfc-nxp. Most of the difficulty is that
each of these threads takes a lock for a short block, lets it go, and
continues with what it had read, and that the adapters turn the callbacks of their stacks into calls that block.

| component | state | operations | what makes it hard | what makes it correct |
|---|---|---|---|---|
| `NfcService`, adapter switch | `mState`, preferences, airplane setting, executor queue | enable, disable, reset, boot, wipe as tasks; airplane and SIM broadcasts; watchdog abort | requests save their preference at once and run later, in queue order; a task holds no lock between its blocks; a hang aborts the process | a task ends ON or OFF; NFC ends up as the settings say; OFF leaves nothing held |
| `NfcService`, routing | `mScreenState`, `mEeRoutingState`, polling, host, secure element and reader flags, `mOpenEe` | `applyRouting` from six callers; open and close of the secure element | flags cache what the controller does, which other calls change behind them; early returns while a secure element is open | polling and routes are what screen, route and AIDs ask for, once quiet |
| `P2pLinkManager` | link state, send state, tasks, three client sockets, message to send | activation, first packet, deactivation; connect and send tasks; debounce timeout; receive; confirmation; enable/disable | radio events are queued and late; tasks are cancelled while they run; a timer is removed in several places | the listener hears a legal story; no socket leaks; a message goes out once; debouncing ends |
| `HostEmulationManager` | APDU state, queued SELECT, two service connections, active service | activation, data, deactivation; connections up and lost; payment default; next tap; answers; off-host AID | connections come up when they like, on the main thread, while the reader sends on the stack's thread | bindings match Android's; one service believes it is selected; a wait ends; a choice is used once |
| NCI `PeerToPeer`, `SnepServer` | servers with five connection slots each, ten clients, link handles, events to wait on | register, accept, connect, send, receive, close on Java threads against the callbacks of the stack's task | lost wake-ups, handles the stack reuses, a server stopped and started under its own thread, two locks | a callback finds the connection it is about; nobody waits for what is not coming; slots and registrations have an owner |
| NCI manager (`NativeNfcManager.cpp`), `RoutingManager`, `Pn544Interop`, vendor commands | enabled, discovery and RF flags, dirty routes, payment state, the work-around's busy flag, protection timers, command status | initialize, deinitialize, enable and disable discovery, routing, reader mode; requests put off by a payment; stop and start of polling; reader over SWP; self-tests; transport error | seven threads meet on a few events; requests are put off to another thread; a mutex is held across a wait | the RF flag is true; discovery is what was asked for last; temporary states end; routes are set; a test passes because of its answer |
| NCI `SecureElement`, `DwpChannel`, `PowerSwitch` | cached modes, pipe and gate, active element, transceive flag and timer, power level and reasons | initialize, activate, deactivate, connect, disconnect, transceive, getAtr, reset, select, deselect | one event per kind of request, late answers, a timer that writes the same flag | no wake-up is lost; the cache is the controller's; a timeout is no answer; an open connection keeps the power on |
| NCI `NfcTag` | the arrays of technologies, the activation | discovery results, select, activation, deactivation | the arrays are filled and emptied at different events and bounded | what Java gets, and what is selected, is what was found in this round |
| NCI `NativeNfcTag` | RF interface, re-selection flags, waits and semaphores | connect, reconnect, transceive, NDEF read, write, check, format, read-only, presence | the tag leaves at any step; the end posts the same semaphores as answers; a timer reselects behind the caller | a waiter is released; success is real; the interface remembered is the one selected |
| NXP adapter (`nxp/jni`) | the one mutex, discovery configuration, listeners, link data, incoming connections, timeouts | initialize, discovery, secure element, tags, peers, sockets, timeouts | callbacks post to frames of calls; conditions shared by servers; last calls of a tag that is gone | answers come; polling is as asked; no dead listener; link data lives; timeouts are kept |
| `P2pEventManager`, `SendUi` | what the user sees | the listener callbacks | teardown races the callbacks | (planned) |
| `RegisteredAidCache`, `AidRoutingManager` | AIDs to services, routing table | resolve, invalidate, configure routing | prefix rules, defaults, a batch committed by a delayed message | (planned) resolution equals its definition; the table is the one configured |
| SNEP messages, NDEF push | connections, fragments | PUT, GET, fragmentation, continue | the link dies in the middle | (planned) an accepted message is whole |
| Handover | transfers, Bluetooth state machine | request, A2DP/HFP connect with timeouts | broadcasts, timeouts and retries of one device | (planned) a transfer ends once |
| `NfcDispatcher` and dispatch activities | foreground filters | dispatch of a tag | none: one sequential decision over the package manager | not planned |
| Access control, `SmartcardProxy` | cache of certificates | check a caller | none | not planned |

How they interact: broadcasts and binder calls enter `NfcService`; its enable and
disable tasks call the native manager (`initialize`, `deinitialize`), switch
`P2pLinkManager` (`enableDisable`) and tell the AID caches (`onNfcEnabled`,
`onNfcDisabled`), which post `MSG_COMMIT_ROUTING` back. The native adapter calls
back into `NfcService`, which posts LLCP events to its main-thread handler (whence
`P2pLinkManager`) and calls `HostEmulationManager` on the stack's thread. Inside the NCI adapter, the
manager's connection callback feeds `NfcTag`, `NativeNfcTag` and `PeerToPeer`, and its device callbacks feed
`SecureElement`, `RoutingManager` and `PowerSwitch`; all of them wait through `SyncEvent`.
The full list of hazards, each at its line, with the properties that would catch
it, is in `PROJECT.json`.

## 2. The modules

| module | contents |
|---|---|
| `P2pListener` | abstract: what a `P2pEventListener` may rely on |
| `P2pLink` | `P2pLinkManager.java`, with its radio, executor and UI queue |
| `HostEmulation` | `HostEmulationManager.java` and Android's service connections |
| `NfcService` | the adapter switch and the routing of `NfcService.java` |
| `PeerToPeer` | `nci/jni/PeerToPeer.cpp`, the `ServerThread` of `SnepServer.java`, the stack's callbacks |
| `SyncEvent` | guard, request, sleep and wake-up of `SyncEvent.h`; extended by the next two |
| `SecureElement` | `SecureElement.cpp`, `NativeSecureElement.cpp`, `DwpChannel.cpp`, `PowerSwitch.cpp` |
| `NativeManager` | `NativeNfcManager.cpp` with `RoutingManager.cpp`, `Pn544Interop.cpp`, `NativeNxpFeature.cpp`, the reader over SWP |
| `NfcTag` | `NfcTag.cpp` with the discovery events |
| `NativeTag` | `NativeNfcTag.cpp` with the tag events |
| `NxpCalls` | `nxp/jni`: the mutex, the steps of a call, requests and answers of libnfc |
| `NxpLlcp` | extends it: the link, the peers and the three kinds of sockets |
| `NxpAdapter` | extends it: the manager, tags, timeouts and the secure element; the specification |
| `MC...` | the instances of each |
| `...Proofs` | the theorems of each; `DiscoveryProofs` has those of `NfcTag` and of `NativeManager` |

One convention holds in all of them: a synchronized block, or a stretch of code under one guard, is one action; code
between two blocks is other actions, and anything can run between. Fields keep
their names. Definitions marked *Mutant* in a comment are wrong versions of the
definition after them; no specification uses them. They document which
bug each property would catch (`PROJECT.json`, "mutants").

**P2pLink.** The UI thread takes messages from `uiQueue` in order; a radio event is
one step when it happens (links die at once, `alive`) and another when the manager
handles it. AsyncTasks run one at a time in the order they were executed:
`executor` holds their positions in `tasks`, its head runs, one action for each block
of `doInBackground`. `Cancel` is `AsyncTask.cancel(true)`: a queued task never runs, a
running one goes on and is asked about it when it publishes. A connection attempt may
find any subset of the transports the code's fallbacks allow, or none.
The debounce timeout is a count of pending messages and the number of messages that
were in the queue before it (`ahead`): durations are not modelled, so
it may expire at any time after those, which includes the quick radio and the slow one.
Whether the first packet came quickly, which decides `mLlcpConnectDelayed`,
is a free choice for the same reason. `inRange`, `session`, `flagSession`,
`completed`, `received` and `calls` are history variables that no action reads, except that a
task copies `session` with the message. `completed` has the messages that a SendTask took for sent, `received`
those the remote device has got: an attempt that succeeds was received, one that fails may have been, because its
response may be what was lost.

**HostEmulation.** Android's connections are external: `conn` says for each of the two
connection objects and each service whether it was asked for, is up or has been
lost. `Unbind` forgets all of a connection, as `unbindService` does, and that
is why a bind that is still pending outlives a tap: the manager only unbinds what it knows as
bound. A Messenger is a service name with a number, so that the object a restarted service
hands out differs from the dead one that `mActiveService` may still hold. AID resolution is an
input: which service a SELECT is for, or that the user has to settle it. A service's answer
takes three actions (`AnswerArrives`, `AnswerReadsState`, `AnswerSent`), as
`MessageHandler` checks the sender, reads the state under a lock and sends without it.
`inSession` records who got a command and was not told of the end since.

**NfcService.** A task is a list of jobs (`Plan`), a job a sequence of steps (`After`): each call of
`enableInternal` and `disableInternal` that changes something is an action of its
own, and binder threads act in between. `device` is what the controller really
does, the flags are what the service believes. The controller starts with no discovery and
`deinitialize` stops everything, while the Java flags survive it. A request takes no lock, so each setting it reads or writes and each task it executes is
an action of its own: `requests` has the next step of each one under way. `enable()` saves the preference (`SavePreference`), reads airplane mode (`enable`),
writes the override (`overrideAirplaneMode`) and executes (`executeTask`); the receiver of the airplane broadcast compares the setting (`AirplaneBroadcast`), clears the
override (`clearOverride`), reads the preference (`readPreference`) and executes; `disable`, the SIM broadcast (`SimStateChanged`, `simReset`) and the loss of the modem
(`csmClientModemUnavailable`, which executes a disable and an enable, `modemReset`) likewise. The main thread does one broadcast at a time (`MainIsFree`).
Waiting for the modem is part of `enableInternal`: NFC is off meanwhile. `Abort` is the watchdog: it leaves the
preferences and starts the process again. `excused` marks runs in which the
controller did not start, a disable was asked for that is not to be saved, or a request to switch on was under way together with one
to switch off: in those the state may differ from the settings, the last in airplane mode too (`AirplaneModeWins`, section 6). It also
marks a reset executed when NFC is already meant to go off.

**PeerToPeer.** A connection is an `NfaConn` block. `user[c]` is where the thread that sends and receives on it stands, `closer[c]` where the
one in `disconnectConnOriented` stands, `thread[t]` where a `ServerThread` stands (`ServerThread.run`, and `P2pServer::accept` inside it).
A notification wakes whoever is asleep on the event at that moment and is lost otherwise. Calls that call the stack and wait under one
`SyncEventGuard` (`send`, the disconnect itself) are one action, because the callback needs the guard; `receive` and `accept` look first and take the guard later,
which is two (`Receive`, `ReceiveWait`; `Allocate`, `Block`). The stack's task is external: links come, get congested, and end, one callback at a time;
a disconnect callback is four actions (`DiscFind`, `DiscMark`, `DiscCong`, `DiscRead`) and holds `mDisconnectMutex` in between. A link handle is free
again as soon as its link ended. JNI handles are never reused in the code; a block is its own, and one that nobody refers to
(`Unused`) stands for a new one. `mServers` has one entry because one service name is modelled. Spurious wake-ups of the condition variable are left out:
with them, the calls that loop would look again and the lost wake-ups below could heal. `SnepServer`'s lock is the guard `JavaLockFree`. A request to
disconnect a link that has just ended is dropped by the stack.

**SyncEvent, SecureElement.** A thread "runs", "holds" the guard of an event after its request was made, "sleeps" on it, or is "woken" and needs the guard
once more to go on. The stack answers each request it accepted once, in any order; a request may be refused at once. A call of `SecureElement` is a walk over
named points (`pc`), each one request: `activate` > `connect` > `static` or `gates`, `alloc`, `create`, `open` > `connected`. `chip` is what the controller does, `se.ee`
the cached list `mEeInfo`. `None` as a handle is one that maps to no element, which `getEseHandleFromGenericId` makes of a real handle. The service makes one call at a time
under its lock, a client's transceive runs beside it; the operations of the card downloader are taken to run on the service's thread. `told` is history: the element has answered
since the transceive began. `power` is `PowerSwitch` with its reasons (`modes`) and the wait for the end of an RF link in `setLevel`. The build is the one of
`nci/jni/Android.mk` for the PN547; `Confs` are the `.conf` files, which choose a static pipe or none, a warm reset, and sleep with the screen off.

**NativeManager.** A call is a plan, the sequence of its steps; most steps make one request and sleep until its answer. The threads: `service`, `routes` (`AidRoutingManager`),
`payment` (`enableThread`, which takes up what a payment has put off), `tag` and `interop` (`Pn544Interop.cpp` from a tag that timed out, and from its timer), `swp` (the thread of an event of
the reader over SWP or of its protection timer), `factory` (self-tests). An instance has some of these: the sets of `MCRoleSets` are those that meet in the code, and the theorems hold for any. The callbacks run on the NFA task, which `task`
blocks when one of them waits for a mutex. `wanted` is history: what the service asked for last, and what excuses a difference: a refused request, two threads inside `startRfDiscovery` at once,
a request that a finished payment wiped. A request names its thread and is counted (`nth`), because a thread that another's answer woke may ask for the same again while its own is open. Guard and sleep of these calls are one step, for their requests are made under the guard. One thread of a kind exists at a time. Of the power
level only the wait in `setLevel(LOW)` is here, and `SecureElement.activate` inside `addAidRouting` is left to `SecureElement`. `SWPSelfTest` is never called by the Java code of the repository, only offered to it.

**NfcTag.** The arrays `mTechList`, `mTechHandles`, `mTechLibNfcTypes` and `mTechParams` are one array of records. `found` is what the stack has reported in this discovery round, `target` what it has selected or activated,
`nativeTag` what the Java object was filled with, `stale` history. Rounds may be cut short, targets repeat protocols and ids, and the array is full after four entries where the code has eleven.

**NativeTag.** The `app` thread makes one JNI call at a time, the `timer` thread switches back to ISO-DEP after a raw transceive, the stack's task answers. A semaphore is a member of `posted`, a thread
asleep on an event a `pc` with a flag `woken`. `Reconnect`, `CallReSelect` and `GoOn` are the calls of `doReconnect`, `reSelect` and `switchRfInterface` from several callers, with the continuation in `call.after`.
`stack` is the field: which tag is active in which interface and what has been asked. A callback that takes the guard of an event is two actions (`nfa` says what is left of it). `told` and `stack.missed` are history: that the stack answered this call, and that the
tag left while the callback ignored it, as a reSelect was reconnecting. An answer of a MIFARE tag that is an error is followed by a reconnection (`MifareReconnect`).

**NxpCalls, NxpLlcp, NxpAdapter.** A call is a plan here too: `lock`, steps, `unlock`, and each failure replaces the rest of the plan by what the `goto clean_and_return` leads to. Functions that only request and wait
share the steps "ask" and "llcp". A request stores who waits for it; an answer to a frame that is gone (`Alive`, `FrameOf`) is dropped or, where the code would write through it, is what a property forbids. `lib` is libnfc and the controller,
`svc` what `NfcService` has done, `nat` the adapter's own variables, `eps` what each tag, peer and socket is. `NfcService`'s calls are one thread, each tag with its presence-check watchdog is one.
An abort of the process is a restart to off. `hist` is history that excuses: `initFailed`, `gpioRefused`, `startFailed`, `registerRefused`, cleared by a restart.
Assumed of libnfc (also said in the modules): `NFC_DISCOVERY_RESUME` restores the last configuration of discovery; an answered disconnect releases the target;
the answer to `DeInitialize` comes last; a second `Initialize` is refused while one is pending; a failed reconnect keeps the connection; the client thread delivers messages in order;
nothing is discovered while a start, a stop or a deinitialization is not yet answered. The build is the default one (the files without `_1_3`).

**Refinement.** `P2pLink` implements `P2pListener`: `phase` is read off the link and send states
(`Phase`), `heard` is the callbacks of the last step. The abstract module says in 50
lines what the comments of `P2pEventListener` promise and more: after "in range" at most one of
sent, received and not supported ends a send, and the link may go and come back unnoticed.

## 3. The runs and their bounds

| run | instance | shows |
|---|---|---|
| `P2pLink` | 2 taps, 1 received message, 1 Beam switch, three kinds of phone | `DebounceTimerOwned`, `ClientsReleased`, `NoConnectOverlap`, `CompletedNotResent`, and the refinement `ImplementsListener` |
| `P2pLinkLive` | 2 taps, 1 switch, fair | `ConfirmedSendConnects`: a confirmed send connects; `DebounceEnds`: debouncing ends unless the send has completed |
| `HostEmulation` | 2 services, 2 taps, 2 commands, 1 change, 1 fault, fair | `BindingsConsistent`, `SessionIsActive`, `NextTapUsedOnce`, and that a wait ends (`WaitForServiceEnds`) |
| `NfcService` | PN544, NCI and PN547; 3 requests, broadcasts, changes or aborts of any kind | `TasksExitStable`, `OffReleasesAll`, `SettledAsAsked`: the adapter is on exactly when the settings say so, unless opposed requests overlapped, and polls and routes as screen, route and AIDs ask |
| `PeerToPeer` | 2 blocks, 1 handle, a server with 2 slots, 1 client, 1 ServerThread | `HandlesSound`, `WaitersWoken`, `SlotsOwned` |
| `PeerToPeerLive` | 1 block, 1 handle, 1 slot, 1 client, 2 ServerThreads, fair | `RegisteredHasOwner` across stop and start; `ClientCloseEnds` |
| `NfcTag` | 6 targets, 4 slots | `TagIsTheActiveTarget`, `SelectFollowsDiscovery` |
| `NativeTag` | 5 kinds of tag, 2 tags, 4 calls | `CheckReleased`, `WriteIsReal`, `InterfaceIsSelected` |
| `SecureElement` | 2 elements, 3 `.conf` files, 3 calls, 1 RF link | `NoLostWakeUp`, `CacheIsCurrent`, `ConnectionKeepsPower`, `SuccessIsAnswered` |
| `NativeManager` | 5 sets of threads, 2 or 3 calls and 1 or 2 events each | `RfFlagTrue`, `DiscoveryAsWanted`, `TemporaryStatesEnd`, `RoutesSet`, `SelfTestIsReal` |
| `NativeManagerLockedOut` | the same instance as `NativeManager` | `StackNotLockedOut` is violated: section 6 |
| `NxpAdapter` | 5 sets of threads, 3 to 5 calls, 1 to 3 targets found each | `AnswerComes`, `PollingAsWanted`, `ListenerAlive`, `ElementAlone`, `NoLostIncoming`, `LinkDataAlive`, `TimeoutKept` |

Every bound counts inputs from outside (taps, messages, toggles, commands, calls, requests, faults);
queues, tasks and steps of the code have no bound. Deadlock is not checked where the
bounds, a process that locks itself out, or a system nobody uses really stop.

*Why they are enough.* Two taps, tags or targets are what it takes for something of the first (a task, a timer, a
pending bind, a flag, an array entry) to be alive in the second; the defects that were found
need at most two. One toggle suffices because Beam starts off: it switches it on, a phone can
receive only then.
Two services are the least for one to be mistaken for the other. Three inputs of
the switch give a request, an event against it and a screen change. `PeerToPeer` has no input bound: links, threads and
sockets come and go for ever, over few blocks and handles. One handle that two blocks compete for is the hardest case of reuse; two slots let a
connected block stand beside one that waits; two `ServerThread`s are the old and the new one of a restart. `PeerToPeer.cfg` with two handles and no client,
and `PeerToPeerLive.cfg` with two `P2pServer` objects, pass too and take some minutes. Three calls of `SecureElement` open, do something and close; the calls of
`NativeManager` switch on, start discovery and stop it where a payment or the routing table comes between (two calls elsewhere), and one event (two for the work-around, whose second activation is the dangerous one) comes between.
A second self-test is the least that can take the late answer of the first for its own.
The stack refuses requests only in two of the five instances of `NativeManager` (`MCRefusing`; the theorems have it in all), and five calls of `NxpAdapter` are one link with two servers and two incoming connections.
`Timeouts` are the values around zero, one byte and 4900 ms where the code changes its mind. Dropping a bound
is what the proofs are for: none of them depends on one.

*Abstracted.* The device of `NfcService` asks for airplane mode to be respected, and provisioning mode is
off. A message is its existence, an APDU the service it was resolved to, a screen
state one of three values (the code's on-locked and on-unlocked as they compare with
`POLLING_MODE`), a frame to a tag its kind of request. Times are left out of every module: a timer may expire whenever it is set.

## 4. Fairness

`P2pLink!FairSpec`: weak fairness of the UI thread's messages (a Looper never drops
a message), of the timeout (a delayed message comes due) and of
the executor's running task (its native calls return: they have timeouts of their own or end
when the link does). None of the user, the radio, the remote device, or the settings.
`HostEmulation!FairSpec`: weak fairness of the main thread, which includes Android bringing up a service
it accepted to bind; a bind that is refused and a service that dies count as faults, and the
property excuses them. The weak fairness is of the disjunction in each case, because one thread serves all
its messages; the first-in-first-out queue makes that enough in `P2pLink`.
`PeerToPeer!FairSpec`: weak fairness of the callbacks (the stack's task finishes what it began) and of a thread inside `disconnectConnOriented`; strong
fairness of the end of a link that `NFA_P2pDisconnect` was called for, because the stack answers it between other events, and of `CloseRemove`, because
`mDisconnectMutex` is free again and again and a mutex is granted in the end. Nothing is assumed of peers, of users of a socket, or of the server threads.
`NfcService` and the modules of the native adapters have safety properties only. Most of their waits have no limit of time in the code and end with an answer that the vendor's stack owes: the safety
form (a sleeper has an answer to come, or a timer that is set: `NoLostWakeUp`, `AnswerComes`, `CheckReleased`, `TemporaryStatesEnd`) says what the adapter itself is answerable for, and needs no fairness of a stack that is not here.


## 5. Proofs

The theorems hold for every value of the constants (any number of taps, tags, services, requests and calls,
any subset of the kinds of phone, tag, controller and `.conf` file), under the named assumptions of the modules: the bounds are
naturals, the sets of kinds are not empty, a server has a slot, a controller with the work-arounds of PN544 has no host card emulation
(its device host leaves `routeAid` and `enableRoutingToHost` empty), the threads of `NativeManager` are the seven of section 2, `None` is none of the values it stands in for
(in `NativeManager`, of the calls and of the requests a payment puts off). All invariants are proved along the same
lines: they hold initially, every action keeps them, PTL concludes.

* `P2pLinkProofs`. `ListenerInv` ties link state, send state, timer and range together. The range and
  timer invariants are not inductive alone: a callback is legal only because a
  link that is down has nothing to send, and a timer belongs to someone only because every
  way out of DEBOUNCE stops it. From it follow `RangeCorrect`, `TimerCorrect` and
  the refinement `ListenerRefinement`, one step per action. `ResourceInv` says of each
  task which sockets it may hold at which program counter and that the
  manager references at most one live ConnectTask, by the order of the executor: the
  argument why a cancelled task cannot publish. From it follow `ClientsCorrect` and `ConnectsNeverOverlap`.
  `SentOnce` needs an order: the executor holds the last tasks in the order of their numbers and has begun only the first, and the reports come in
  that order too (`InOrder`, `ReportsInOrder`). After the ConnectTask referred to there is at most one SendTask, and that one only once the services are connected
  (`OneSendEach`); when it is added, all earlier tasks have ended and reported (`SendsLast`). So a message that a task copies while the manager is SENDING was not
  taken for sent yet: if it were, the send would be over or its report still in the queue (`Reported`), and that report is of an earlier task. Of a send that failed
  it says nothing: the remote device may have the message all the same, and it is sent again (`NeverSentTwice`, section 6).
* `HostEmulationProofs`. `BindingInv` adds to `BindingsConsistent` that messenger and bound flag
  change together, and the types the record updates need; `BindingsCorrect`. On top of it
  `SessionCorrect` (whoever becomes active takes the session from who had it) and
  `NextTapCorrect` (the flag that clears the choice is set exactly when it was used).
* `NfcServiceProofs`. `StateInv` binds `mState` to the step of the task; no binder thread can touch either
  (`ThreadsKeepState`), which gives `TasksStable`. `ReleaseInv` says which
  steps of the switch-off have already released Beam and the secure element, and
  that binder threads acquire them only in state ON; `OffIsClean`. `TypesCorrect` splits the
  type invariant into four parts so that each is inductive with those before it. `SettledCorrect` rests on two invariants. `Ends` is the state the executor
  comes to: the last task of its queue that says on or off counts (`Final`, a position instead of a recursion), then what is left of the running task, then its
  step. Every task leads where it was known to lead (`TasksKeepEnds`), and `SettingsInv` relates `Ends` to the settings also while requests and broadcasts are under
  way: a broadcast still to come, and the one the receiver is at, is about the setting as it is (`Announced`); what a request still has to execute is what the settings say, as long as
  none that switches on meets one that switches off; and in airplane mode without an override, or with NFC unset, `Ends` is OFF already unless the disable is still to be executed (`InStep`).
  `RoutedInv` says that the four flags mirror the controller and are what the inputs ask for, unless a commit, a forced task or an open secure element is in between.
* `PeerToPeerProofs`. `Core` is the conjunction of the parts of `HandlesSound` and `WaitersWoken` with what the callback in progress
  knows (`CallbackShape`) and the fact that a connecting client is not being closed. None is inductive alone: a request may give its handle to a block only because no
  block in the tables holds it, which is freshness; the disconnect callback reaches the right waiter only because its handle is unique.
  Most steps change nothing that `Core` speaks of (`QuietStep`, `NewConnStep`); the callbacks are the rest (`LinkCore`, `CallbackCore`).
  Theorems: `TypeCorrect`, `HandlesCorrect`, `WaitersCorrect`. `RegistrationOwned` has an invariant of its own: a thread
  that holds a server socket stands between creating it and the end of its `finally` block. `SlotsCorrect` is proved under `[]OneServerThread`, the hypothesis
  that the property itself names: two overlapping threads can share a leaked slot. A block of the server is that of a thread in accept or of a connection still
  to be closed, or the server's thread is about to close them all (`HasOwner`).
* `SecureElementProofs`. `ElementInv`: a cached mode is the controller's, and `mTransceiveWaitOk` is set only after the element has answered; the second is what
  keeps a timeout, which wakes the same wait, from passing for an answer. `CacheCorrect`, `SuccessCorrect`. For `PowerCorrect`, the lemmas `ThreadShape` and `StepEffect`
  say what a step does to the thread that takes it, whichever request or wake-up it is; `PowerInv` then needs one fact per point: an
  open call has the reason `SE_CONNECTED` from the point that sets it, a single point clears it, and the client's thread never stands there.
  `WakeUpCorrect` rests on `WaitInv`: only the client's thread waits for an exchange of data, and for nothing else, so that no event has two sleepers and
  the one that is notified is the right one; what wakes the service's thread has still to come (`StillToCome`).
* `DiscoveryProofs`, the tags. An activation fills the arrays from the start and reads only what it filled (`ActivationDescribes`), so that nothing of an earlier tag gets into
  the Java object, which is held only while a tag is active (`ObjectInv`); `ObjectCorrect`. `RoundInv`: the list holds exactly what was found since the
  round began, at most two entries for each result, and is empty at its start; with the choice the code makes among them, `SelectCorrect`, an action property.
* `DiscoveryProofs`, the manager. A plan is taken as the set of its steps (`Todo`, `Left`), for most arguments are about what is still to come and not in which order; where the order counts it
  is that a step is the last one (`Final`). `Home` says which thread can have which steps, `BaseStep` that each step takes one away and adds only what `Adds` names. `Sleeping`: whoever
  sleeps does so on the event of its step, so that an answer says which steps it can end (`Ground` is both). The five invariants are separate, because each concerns steps the others do not:
  * `SelfTestInv`. The answer to the test's own command is the one it sleeps on (`OwnSleeps`) as long as `wstatus` was not shared; without that a success could be an answer to an earlier command. `SelfTestCorrect`.
  * `RoutesInv` on `ServiceInv`. Lost routes are marked (`dirty`) or the service has still to mark or program them; a controller that starts has none, and
    the only answer that enables it is the one the service sleeps on (`EnableSleeps`), so that nobody finds NFC enabled with routes lost and the service elsewhere. `RoutesCorrect`.
  * `RfInv`. At most one thread is inside `startRfDiscovery` unless that is excused; the one that is there has asked the controller for what its step says, and from the start of the
    stack until `setListenMode` has switched it the RF may differ from a flag that outlives the stack (`Initialising`). `RfCorrect`.
  * `BusyInv`, `ReaderInv`. Not that a thread works, as the property says, but that it has the very step still to do that ends the state or sets the timer. For the reader the
    answer to "give the controller back" must be the one its thread sleeps on (`MapSleeps`), or the last step would come too early. `TemporaryCorrect`.
  * `DiscoveryInv`. What discovery and `last_request` will be once everything under way is done (`Agrees`): what the service and `enableThread` have ahead does not contradict what is
    wanted, and if discovery is not yet what is wanted, something ahead changes it. It needs that a call changes discovery in its last step only (`DiscoveryPlans`), and that who waits for polling
    has set the flag before (`AsleepPolling`). `WantedCorrect`.
* `NativeTagProofs`. `WaitInv` has two parts that are inductive only with the points at which a call may stand. A write waits with `sWriteOk` cleared unless
  its own answer has set it: the request is made before the flag is cleared, so that an answer that comes in between is lost, never invented. A check that has
  looked at the tag finds its semaphore posted once the tag is gone: the semaphore is made before the look, so the end of the tag is either seen or posted. Every other
  call is shown to stand elsewhere, through the continuations (`Reconnects`, `GoesOn`) that the reconnection shares among its callers. `WriteCorrect`. For `CheckCorrect` the host has to know what the stack knows: `Agreed` ties the field of the
  stack to the state of `NfcTag`, so that a tag that is gone is either one that `NfcTag` takes for gone, one whose end is still in the callback, or one whose end was ignored (`missed`).
  `SelectionCorrect`: the lock is that of the one thread inside reSelect (`Owned`), so that a selection still under way, late or not, is of the interface the waiting thread wants
  (`Pending`), and what it is told of is that selection (`Chosen`); before the first tag nothing is selected (`NoTagYet`), so that with one tag no activation is another's.
* `NxpAdapterProofs`. A call carries its plan, so the first half is about plans: they never go back (`Rank`, `Ordered`), and what a failure leaves of a plan is
  again one (`FailedPlan`, `CleanupPlan`). `Shape` is the type invariant with the order of every plan; one lemma for each kind of step says what it does to the thread that takes it
  (`Moves`, `Sleeps`, `Posts`), so that the invariants after it need not look at plans. `IncomingCorrect`. `Asked`: an answer still to come finds its call asleep on
  the request it answers, not yet answered; with it `LinkInv`, by which a check is under way only where there is no link, gives `LinkDataCorrect`.
  `ClientInv` counts the client threads with the phase the service is in (`Phases`, `LinkOn`, `Driven`): libnfc is on only with a driver, and the driver only ends when nothing is pending; a sleeper has its
  answer pending (`Pending`, `Notification`); `AnswerCorrect`. `Switch` says what the service's thread has still to do while it polls, while the element is open and while it is off; with what a stop leaves (`StopLeft`, `Quiet`: no
  polling loop wanted and no stop left means that the controller does not poll), `ElementCorrect`. `Late`: an answer of an abandoned initialisation finds the service off and no way left to end that
  initialisation well; `Listens` follows the registration past it; `ListenerCorrect`.
  `PollingCorrect` has two halves. The loop: with it on, the controller polls or the service has still to ask for a start (`Polls`); with it off, `Quiet`. The device that libnfc
  holds (`TargetInv`, one `DeviceInv` for each device): its call fits what became of it (`CallFits`), it is connected once its thread has gone past the request
  (`Connects`), and a call that ends with it has a disconnect or a restart still to be answered (`LetsGo`, `FreeLeft`), so that no device is done with while libnfc holds it.
  `TimeoutCorrect`: `TimeoutInv`; a register holds the logarithm of the least power of two that is enough. That such a power exists for all that a caller
  may ask for (`Log2Bounds`) follows from a table of the powers (`Powers`), and with it that what the controller then waits is not below what was asked (`CalcEnough`).

Only model-checked: `ConfirmedSendConnects`, `DebounceEnds`, `WaitForServiceEnds` and `ClientCloseEnds`: liveness is out of the
prover's reach. Every safety property of the passing runs, invariant or action property, is a theorem. The type invariants are proved for `NfcService` and `PeerToPeer` and serve as documentation in the other modules.

## 6. Findings, and statements the code does not keep

**The finding** (run `NativeManagerLockedOut`). The work-around in `Pn544Interop.cpp` takes `gMutex` and, still holding it, stops polling: `stopPolling_rfDiscoveryDisabled` sleeps until the stack says
that discovery has stopped (`NativeNfcManager.cpp:2972`, "wait for NFA_RF_DISCOVERY_xxxx_EVT"). The stack's task is the only one that can say so. If a tag is activated between the request and its answer, that
task calls `pn544InteropIsBusy` (`NativeNfcManager.cpp:529`), which takes `gMutex`: the waiter holds what the task wants, the task has what the waiter waits for. It takes a tag that times out, the timer, and a second activation.

### Statements the code does not keep

Sixteen statements of comments are definitions that TLC refutes when the configuration named has them as its only property; no run is spent on
them. They stand at the end of their modules with the comment they quote.

| definition, configuration | what happens |
|---|---|
| `P2pLink!DebounceAlwaysEnds`, `P2pLinkLive.cfg` | A send completes, the link breaks, and the break is handled before the completion. `MSG_SEND_COMPLETE` removes the debounce timeout without looking at the link state: the manager stays in DEBOUNCE until the next tap. |
| `P2pLink!CallbacksOnUiThread`, `P2pLink.cfg` with two toggles | Switching Beam off calls the listener on the caller's thread. |
| `P2pLink!WaivedByThisMessage`, `P2pLink.cfg` | `mSendFlags` is set by an application's callback and never reset: a waived confirmation stays waived. |
| `P2pLink!SuccessIsOfThisMessage`, `P2pLink.cfg` | `MSG_SEND_COMPLETE` says nothing of its message: the late completion of a tap that is over, handled while the next one is SENDING, is told to the listener as the success of the new message, which may then never be sent. |
| `P2pLink!NeverSentTwice`, `P2pLink.cfg` | A `put` or a handover throws although the message arrived and only the response was lost. The manager stays SENDING, and when the devices find each other within the debounce time the same message goes out again. |
| `HostEmulation!SelectReachesItsService`, `HostEmulation.cfg` | A bind that is pending when a tap ends is not undone. When it comes up during the next tap it receives the SELECT queued for another service. |
| `HostEmulation!OffHostForgetsNobody`, `HostEmulation.cfg` | An off-host selection while a second service is being bound drops the first without MSG_DEACTIVATED. |
| `NfcService!ResetKeepsSettings`, `NfcService.cfg` | The SIM broadcast looks at `mState` and queues a reset behind the disable that is still waiting: NFC ends up on against the settings. |
| `NfcService!AirplaneModeWins`, `NfcService.cfg` | `enable()` reads that airplane mode is off, airplane mode is switched on and its broadcast executes the disable, and only then `enable()` executes its task: NFC is on in airplane mode, without an override. |
| `NfcService!NfceeRoutingApplied`, `NfcService.cfg` | `setCardEmulationRoute(OFF)` before the queued screen-off task leaves the element of a PN544 selected: both look at what the route has become. |
| `NfcService!PollingLoopStarted`, `NfcService.cfg` | On PN547, opening the secure element between the switch to ON and the first `applyRouting` makes that return early, and the flag left from the session before keeps the later call from starting discovery. |
| `PeerToPeer!RequestToWaiter`, `PeerToPeer.cfg` | A connection just taken down has an invalid handle, which is how `CONN_REQ_EVT` recognises a block that waits in `accept`: the new link goes to the old connection's thread, and the `accept` that is woken fails. |
| `PeerToPeer!ReceiveUnblocked`, `PeerToPeer.cfg` | `receive` finds no data and goes to sleep after the disconnect callback notified it. Its connection has no handle any more: only closing the socket ends the call. A `ConnectionThread` closes its own socket, after the call. |
| `PeerToPeer!AcceptUnblocked`, `PeerToPeer.cfg` | A request that comes between `allocateConnection` and the wait gives the handle and notifies nobody: `accept` sleeps on a connection that is there. |
| `NativeTag!GoneTagReleasesCheck`, `NativeTag.cfg` | While a reSelect reconnects, `NFA_DEACTIVATED_EVT` is ignored (`NativeNfcManager.cpp:547`). When the tag leaves in that time nobody calls `abortWaits`, and a `doCheckNdef` that waits, or begins to, sleeps for ever. |
| `SecureElement!CloseTurnsOff`, `SecureElement.cfg` | Closing the connection passes the real handle of the element to `deactivate`, which takes it for a generic id, finds no element, and leaves it on. |

Also met in the models, without a property of their own:

* `switchRfInterface` assigns `sCurrentRfInterface` once more after `reSelect` has released its lock (`nci/jni/NativeNfcTag.cpp:924`). The timer may do so after
  the next transceive has selected the frame interface: what is remembered is then ISO-DEP, what is selected the frame interface. It takes four calls on one tag, and
  turned up when the proof of `InterfaceIsSelected` did not go through with the lock merely held: the property is about the steps that release it.
* The status of a vendor command (`wstatus`) is one variable for all of them: the late answer to a self-test that gave up may let the next one pass.
* The answer to `getAtr` that comes before the thread takes `mGetAtrRspwait` is lost (`SecureElement.cpp:2418`); the wait then ends with its time.
* `doSetTimeout` with a value of zero or less returns with the adapter's mutex held (`nxp/jni/com_android_nfc_NativeNfcManager.cpp:1563`): every later call of another thread stops there.
* After a failed initialization of the PN544 the client thread is gone but `driverConfigured` is not reset: the next initialization waits for ever (`:583`). A refused GPIO read waits for ever too.

The passing properties are stated around these, never by leaving the step out. `SettledAsAsked` excuses the late reset, opposed requests that overlap, the routes of PN547 and the secure element of
PN544; `CheckReleased` excuses a tag whose end the callback ignored; `CompletedNotResent` speaks of messages taken for sent only; `DebounceEnds` excuses a completed send; `SessionIsActive` the services in `forgotten`; `SlotsOwned` more than one `ServerThread`
(a restart can hand the server of a failed `accept`, leaked slot and all, to the new thread); `WaitersWoken` connections that left the tables (a server that is closed takes them along);
`RfFlagTrue` and `DiscoveryAsWanted` what `wanted` says of refused requests, overlapping starts and a payment; `SelfTestIsReal` a test during which a command of another thread, or of an earlier test, may be answered;
`InterfaceIsSelected` an interface assigned without the lock, and another tag that answers a selection; `AnswerComes` what `hist` records.

## 7. What is not modelled

In the modelled components:

* `P2pLinkManager`: the echo server, user switches, the restriction to one application, the dump.
* `HostEmulationManager`: user switches, the dialogs, the encoding of APDUs.
* `NfcService`: provisioning mode, tags and `mObjectMap`, `transceive`, permissions and sounds.
* `PeerToPeer`: `handleNfcOnOff`, `enableP2pListening`, the activation handlers, maximum units and windows.
* `SecureElement`: `setUiccIdleTimeout`, the RF field flag, `setEseListenTechMask`, `getListOfEeHandles`, `getSeVerInfo`, `routeToSecureElement`, the notifications to Java, `setRouting` without
  host card emulation, `DwpChannel::transceive`, the inner mutex of `PowerSwitch` (no wait happens under it but the one in `setLevel`).
* `NativeManager`: the early return of `disableRoutingToHost` at low power, data and activation events of `RoutingManager`, `cleanRouting`, start-up configuration and card download (not in this build).
* `NfcTag`, `NativeTag`: parameters and poll bytes, key tables, the Felica helpers.
* NXP adapter: an end of a link that libnfc tells twice; the list of incoming connections being emptied while another thread walks it (the
  end of a link empties it without its mutex, in `linkStatus` in one step); failures of `nfc_cb_data_init`, the NDEF buffer, `storedHandle`, the modes of peers, the tree of technologies, `transaction_callback`, getters, `releaseAll`; the `_1_3` files, a near copy
  for another version of the library that `BOARD_HAVE_NXP_PN544PC` selects.

Left out because they forward calls and data: the JNI wrappers of the LLCP sockets in `nci/jni`, `HciRFParams`, `DataQueue`, the device host classes (`dhimpl`), whose order of calls the native modules take as given. Left out because they are sequential decisions
over the package manager, user interface, test aids, or wrappers of a library that is not part of the repository: the components listed as not planned in section 1. Everything else is in the plan.

## 8. Plan

Done, in this order: `P2pLink` over `P2pListener`, `HostEmulation`, `NfcService`, `PeerToPeer`; then the native adapters: `SyncEvent` and `SecureElement`, `NfcTag`, `NativeTag`, `NativeManager`, `NxpCalls`, `NxpLlcp` and `NxpAdapter`.
What is left, most important first:

1. `AidRouting` (`AidRoutingManager`, `AidRoutingCache`) with the commit in `NfcService`: after the commit the controller's table is the configured one. Composed with `NfcService`, whose
   `aids` and `commit` it refines. `AidResolution` (`RegisteredAidCache`): the resolution as operators, against a reference definition over small AID sets; proofs of what it returns.
2. `Snep`: fragmentation and the client-server exchange on a link that may die: an accepted message is whole, no client waits for ever. `NdefPush` with it.
3. `P2pEventManager` with `SendUi` as the listener of `P2pLink`, composed with it: the renderer is never used after teardown.
4. `Handover`: `BluetoothHeadsetHandover` and `HandoverTransfer` with their timeouts.
5. `PeerToPeer` further: `handleNfcOnOff` with `unblockAll`. `NfcService` over `NativeManager`: the abstract `device` refined by the manager.
6. Proofs: the refinements of the new modules.
