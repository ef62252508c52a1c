----------------------------- MODULE HostEmulation -----------------------------
(***************************************************************************)
(* Host card emulation (HostEmulationManager.java): the command APDUs of a *)
(* remote reader go to an Android service, whose answers go back.  Actors: *)
(*   - the NFC stack's thread, which calls the three notify... methods,    *)
(*   - the main thread: service connections, the settings observer, the    *)
(*     answers of the services, the selection of an off-host AID,          *)
(*   - binder threads, through which the user picks a service for the next *)
(*     tap.                                                                *)
(* Every block under mLock is one step.  Android's service connections are *)
(* external: conn is what the system holds for mConnection ("regular") and *)
(* for mPaymentConnection ("payment").  A Messenger is a service's name    *)
(* and an id that tells apart the ones the manager refers to.  A SELECT    *)
(* APDU is represented by the service its AID was resolved to.             *)
(***************************************************************************)
EXTENDS Naturals, Sequences

CONSTANTS
    Services,     \* names of the host APDU services
    None,         \* null
    MaxTaps,      \* bound: activations by a reader
    MaxApdus,     \* bound: command APDUs, over all taps
    MaxChanges,   \* bound: changes of the payment default and next-tap choices
    MaxFaults     \* bound: binds that fail and services that die

ASSUME NoneAssumption == None \notin Services /\ None \notin [name : Services, id : 0 .. 3]
ASSUME BoundsAssumption ==
    MaxTaps \in Nat /\ MaxApdus \in Nat /\ MaxChanges \in Nat /\ MaxFaults \in Nat

States     == {"IDLE", "W4_SELECT", "W4_SERVICE", "W4_DEACTIVATE", "XFER"}
Messengers == [name : Services, id : 0 .. 3]
Kinds      == {"regular", "payment"}

VARIABLES
    mState, mSelectApdu, mClearNextTapDefault,
    mService, mServiceBound, mServiceName,
    mPaymentService, mPaymentServiceBound, mPaymentServiceName,
    mActiveService, mActiveServiceName,
    nextTap,            \* RegisteredAidCache.mNextTapComponent
    paymentDefault,     \* the setting NFC_PAYMENT_DEFAULT_COMPONENT
    onChangePending,    \* the SettingsObserver is posted
    choosing,           \* <<pick>> once setDefaultForNextTap has bound, until the cache knows
    conn,               \* [kind -> [service -> none, binding, up or lost]]
    dead,               \* messengers whose process died
    owed,               \* services that have a command to answer
    reply,              \* the answer the main thread is handling
    link,               \* a reader is there
    inSession,          \* services that got a command and no MSG_DEACTIVATED since
    forgotten,          \* services dropped by notifyOffHostAidSelected, untold
    usedNextTap,        \* the last tap began with a next-tap choice not renewed since
    count               \* the bounded inputs so far

regular == <<mService, mServiceBound, mServiceName>>
payment == <<mPaymentService, mPaymentServiceBound, mPaymentServiceName>>
active  == <<mActiveService, mActiveServiceName, inSession, forgotten, owed>>
choice  == <<nextTap, choosing, usedNextTap>>
setting == <<paymentDefault, onChangePending>>
vars == <<mState, mSelectApdu, mClearNextTapDefault, regular, payment, active, choice,
          setting, conn, dead, reply, link, count>>

Count(input) == count' = [count EXCEPT ![input] = @ + 1]

-----------------------------------------------------------------------------
(* Android's service connections. *)

(* A Messenger object none of the references of the manager points to. *)
NewMessenger(s) ==
    LET used == {mService, mPaymentService, mActiveService}
    IN  [name |-> s, id |-> CHOOSE i \in 0 .. 3 :
                                /\ [name |-> s, id |-> i] \notin used
                                /\ \A j \in 0 .. (i - 1) : [name |-> s, id |-> j] \in used]

(* Binding again a service the connection already has calls nothing back. *)
Bind(c, kind, s) == IF c[kind][s] = "none" THEN [c EXCEPT ![kind][s] = "binding"] ELSE c

(* Mutant: a state of its own. *)
UnbindMarks(c, kind) == [c EXCEPT ![kind] = [s \in Services |-> "unbound"]]
(* unbindService forgets every binding made with the connection. *)
Unbind(c, kind) == [c EXCEPT ![kind] = [s \in Services |-> "none"]]

(* bindServiceAsUser(...), which may return false, caused by an input. *)
BindOrFail(c, kind, s, input) ==
    \/ conn' = Bind(c, kind, s) /\ Count(input)
    \/ /\ count.faults < MaxFaults
       /\ conn' = c /\ count' = [count EXCEPT ![input] = @ + 1, !.faults = @ + 1]

-----------------------------------------------------------------------------
(* Mutant: nobody is told. *)
NobodyTold == inSession
(* sendDeactivateToActiveServiceLocked: who remains in session.          *)
WithoutActive == IF mActiveService = None THEN inSession ELSE inSession \ {mActiveService.name}

(* sendDataToServiceLocked; the fields of the two services are those of the *)
(* new state, because onServiceConnected assigns them first.                *)
sendDataToService(m) ==
    /\ IF m # mActiveService
       THEN /\ mActiveService' = m
            /\ mActiveServiceName' = IF mPaymentService' # None /\ mPaymentService'.name = m.name
                                     THEN mPaymentServiceName' ELSE mServiceName'
            /\ inSession' = WithoutActive \cup (IF m \in dead' THEN {} ELSE {m.name})
       ELSE /\ UNCHANGED <<mActiveService, mActiveServiceName>>
            /\ inSession' = inSession \cup (IF m \in dead' THEN {} ELSE {m.name})
    /\ owed' = owed \cup (IF m \in dead' THEN {} ELSE {m.name})
    /\ forgotten' = forgotten \ {m.name}

(* Mutant: the flag stays. *)
ClearAllButBound ==
    mService' = None /\ UNCHANGED mServiceBound /\ mServiceName' = None
(* The fields of mConnection, reset. *)
ClearRegular ==
    mService' = None /\ mServiceBound' = FALSE /\ mServiceName' = None

(* Mutant: even when not bound. *)
UnbindAnyway == ClearRegular /\ conn' = Unbind(conn, "regular")
(* unbindServiceIfNeededLocked *)
unbindServiceIfNeeded ==
    IF mServiceBound
    THEN ClearRegular /\ conn' = Unbind(conn, "regular")
    ELSE UNCHANGED <<regular, conn>>

(* bindServiceIfNeededLocked: the messenger at hand, or None and a new bind. *)
ExistingService(s) ==
    IF mPaymentServiceBound /\ mPaymentServiceName = s THEN mPaymentService
    ELSE IF mServiceBound /\ mServiceName = s THEN mService
    ELSE None

(* Mutant: the old service is unbound after the new one is bound. *)
BindThenUnbind(s, input) ==
    IF mServiceBound
    THEN ClearRegular /\ conn' = Unbind(Bind(conn, "regular", s), "regular") /\ Count(input)
    ELSE UNCHANGED regular /\ BindOrFail(conn, "regular", s, input)
BindNewService(s, input) ==
    IF mServiceBound
    THEN ClearRegular /\ BindOrFail(Unbind(conn, "regular"), "regular", s, input)
    ELSE UNCHANGED regular /\ BindOrFail(conn, "regular", s, input)

-----------------------------------------------------------------------------
Init ==
    /\ mState = "IDLE" /\ mSelectApdu = None /\ mClearNextTapDefault = FALSE
    /\ mService = None /\ mServiceBound = FALSE /\ mServiceName = None
    /\ mPaymentService = None /\ mPaymentServiceBound = FALSE /\ mPaymentServiceName = None
    /\ mActiveService = None /\ mActiveServiceName = None
    /\ nextTap = None /\ choosing = <<>> /\ usedNextTap = FALSE
    /\ paymentDefault \in Services \cup {None} /\ onChangePending = FALSE
    /\ conn = [k \in Kinds |-> [s \in Services |->
                  IF k = "payment" /\ s = paymentDefault THEN "binding" ELSE "none"]]
    /\ dead = {} /\ owed = {} /\ reply = [stage |-> "idle", from |-> None]
    /\ link = FALSE /\ inSession = {} /\ forgotten = {}
    /\ count = [taps |-> 0, apdus |-> 0, changes |-> 0, faults |-> 0]

-----------------------------------------------------------------------------
(* The thread of the NFC stack. *)

notifyHostEmulationActivated ==
    /\ ~link /\ count.taps < MaxTaps
    /\ link' = TRUE /\ Count("taps")
    /\ mClearNextTapDefault' = (nextTap # None)
    /\ usedNextTap' = (nextTap # None)
    /\ mState' = "W4_SELECT"
    /\ UNCHANGED <<mSelectApdu, regular, payment, active, nextTap, choosing, setting,
                   conn, dead, reply>>

DataUntouched ==
    UNCHANGED <<mClearNextTapDefault, payment, choice, setting, dead, reply, link>>

(* A SELECT for an AID whose service is s, the default one or, when there   *)
(* is none, the active one.  It is dropped while another waits.             *)
SelectService(s) ==
    /\ mState \in {"W4_SELECT", "XFER"}
    /\ DataUntouched
    /\ IF ExistingService(s) # None
       THEN /\ UNCHANGED <<regular, mSelectApdu, conn>>
            /\ sendDataToService(ExistingService(s))
            /\ mState' = "XFER"
            /\ Count("apdus")
       ELSE /\ BindNewService(s, "apdus")
            /\ mSelectApdu' = s
            /\ mState' = "W4_SERVICE"
            /\ UNCHANGED active

(* A SELECT the user has to settle first: several services and no default, *)
(* a partial match, or a default service that requires an unlock.          *)
SelectNeedsUser ==
    /\ mState \in {"W4_SELECT", "W4_SERVICE", "XFER"}
    /\ Count("apdus")
    /\ mState' = "W4_DEACTIVATE"
    /\ UNCHANGED <<mSelectApdu, regular, active, conn>>
    /\ DataUntouched

(* Any other APDU.  An APDU answered on the spot (unknown AID, screen off), *)
(* or dropped because of the state, changes nothing and is not a step.      *)
OtherApdu ==
    /\ mState = "XFER" /\ mActiveService # None
    /\ Count("apdus")
    /\ DataUntouched
    /\ UNCHANGED <<regular, mState, mSelectApdu, conn>>
    /\ sendDataToService(mActiveService)

notifyHostEmulationData ==
    /\ link /\ count.apdus < MaxApdus
    /\ SelectNeedsUser \/ OtherApdu \/ \E s \in Services : SelectService(s)

(* Mutant: only a tap that reached a service uses the choice up. *)
NextTapAfterService ==
    IF mClearNextTapDefault /\ mActiveService # None THEN None ELSE nextTap
NextTapAfter == IF mClearNextTapDefault THEN None ELSE nextTap

(* notifyNostEmulationDeactivated; the choice for the next tap is cleared   *)
(* when the tap began with one.                                             *)
notifyHostEmulationDeactivated ==
    /\ link /\ link' = FALSE
    /\ nextTap' = NextTapAfter
    /\ inSession' = WithoutActive
    /\ mActiveService' = None /\ mActiveServiceName' = None
    /\ unbindServiceIfNeeded
    /\ mState' = "IDLE"
    /\ UNCHANGED <<mSelectApdu, mClearNextTapDefault, payment, forgotten, owed, choosing,
                   usedNextTap, setting, dead, reply, count>>

(* NfcService.onSeListenDeactivated: an access to a secure element ends the *)
(* validity of the choice.                                                  *)
onSeListenDeactivated ==
    /\ nextTap # None /\ nextTap' = None
    /\ UNCHANGED <<mState, mSelectApdu, mClearNextTapDefault, regular, payment, active,
                   choosing, usedNextTap, setting, conn, dead, reply, link, count>>

-----------------------------------------------------------------------------
(* Binder threads: the user picks the service of the next tap, or withdraws *)
(* the pick.  First the manager binds it, then the AID cache learns it.     *)

setDefaultForNextTap(pick) ==
    /\ choosing = <<>> /\ count.changes < MaxChanges
    /\ choosing' = <<pick>>
    /\ IF pick = None
       THEN unbindServiceIfNeeded /\ Count("changes")
       ELSE IF ExistingService(pick) # None
       THEN UNCHANGED <<regular, conn>> /\ Count("changes")
       ELSE BindNewService(pick, "changes")
    /\ UNCHANGED <<mState, mSelectApdu, mClearNextTapDefault, payment, active, nextTap,
                   usedNextTap, setting, dead, reply, link>>

CacheNextTap ==
    /\ choosing # <<>> /\ choosing' = <<>>
    /\ nextTap' = Head(choosing)
    /\ usedNextTap' = FALSE
    /\ UNCHANGED <<mState, mSelectApdu, mClearNextTapDefault, regular, payment, active,
                   setting, conn, dead, reply, link, count>>

-----------------------------------------------------------------------------
(* The main thread.  It handles an answer in three steps, without mLock in  *)
(* between, and nothing else meanwhile.                                     *)
MainIdle == reply.stage = "idle"

notifyOffHostAidSelected ==
    /\ MainIdle /\ link
    /\ IF mState # "XFER" \/ mActiveService = None
       THEN /\ UNCHANGED inSession
            /\ forgotten' = forgotten \cup (inSession \ WithoutActive)
       ELSE inSession' = WithoutActive /\ UNCHANGED forgotten
    /\ mActiveService' = None /\ mActiveServiceName' = None
    /\ unbindServiceIfNeeded
    /\ mState' = "W4_SELECT"
    /\ UNCHANGED <<mSelectApdu, mClearNextTapDefault, payment, owed, choice, setting,
                   dead, reply, link, count>>

(* mConnection.onServiceConnected: the SELECT that waits goes out. *)
onServiceConnected(s) ==
    /\ MainIdle /\ conn["regular"][s] = "binding"
    /\ conn' = [conn EXCEPT !["regular"][s] = "up"]
    /\ mService' = NewMessenger(s) /\ mServiceBound' = TRUE /\ mServiceName' = s
    /\ dead' = dead \ {NewMessenger(s)}
    /\ mState' = "XFER"
    /\ UNCHANGED payment
    /\ IF mSelectApdu # None THEN sendDataToService(NewMessenger(s)) ELSE UNCHANGED active
    /\ mSelectApdu' = None
    /\ UNCHANGED <<mClearNextTapDefault, choice, setting, reply, link, count>>

onServiceDisconnected(s) ==
    /\ MainIdle /\ conn["regular"][s] = "lost"
    /\ conn' = [conn EXCEPT !["regular"][s] = "binding"]
    /\ mService' = None /\ mServiceBound' = FALSE
    /\ UNCHANGED <<mState, mSelectApdu, mClearNextTapDefault, mServiceName, payment, active,
                   choice, setting, dead, reply, link, count>>

(* mPaymentConnection *)
onPaymentServiceConnected(s) ==
    /\ MainIdle /\ conn["payment"][s] = "binding"
    /\ conn' = [conn EXCEPT !["payment"][s] = "up"]
    /\ mPaymentService' = NewMessenger(s)
    /\ mPaymentServiceBound' = TRUE /\ mPaymentServiceName' = s
    /\ dead' = dead \ {NewMessenger(s)}
    /\ UNCHANGED <<mState, mSelectApdu, mClearNextTapDefault, regular, active, choice,
                   setting, reply, link, count>>

ClearPayment ==
    mPaymentService' = None /\ mPaymentServiceBound' = FALSE /\ mPaymentServiceName' = None

onPaymentServiceDisconnected(s) ==
    /\ MainIdle /\ conn["payment"][s] = "lost"
    /\ conn' = [conn EXCEPT !["payment"][s] = "binding"]
    /\ ClearPayment
    /\ UNCHANGED <<mState, mSelectApdu, mClearNextTapDefault, regular, active, choice,
                   setting, dead, reply, link, count>>

(* SettingsObserver.onChange: unbindPaymentServiceLocked, then, when there  *)
(* is a default, a new bind.                                                *)
onChange ==
    /\ MainIdle /\ onChangePending /\ onChangePending' = FALSE
    /\ IF mPaymentServiceBound THEN ClearPayment ELSE UNCHANGED payment
    /\ LET c == IF mPaymentServiceBound THEN Unbind(conn, "payment") ELSE conn
       IN  IF paymentDefault = None
           THEN conn' = c /\ UNCHANGED count
           ELSE \/ conn' = Bind(c, "payment", paymentDefault) /\ UNCHANGED count
                \/ count.faults < MaxFaults /\ conn' = c /\ Count("faults")
    /\ UNCHANGED <<mState, mSelectApdu, mClearNextTapDefault, regular, active, choice,
                   paymentDefault, dead, reply, link>>

(* MessageHandler: is the service that answers the active one? *)
AnswerArrives(s) ==
    /\ MainIdle /\ s \in owed
    /\ owed' = owed \ {s}
    /\ reply' = IF mActiveService # None /\ mActiveService.name = s
                THEN [stage |-> "checked", from |-> s] ELSE reply
    /\ UNCHANGED <<mState, mSelectApdu, mClearNextTapDefault, regular, payment,
                   mActiveService, mActiveServiceName, inSession, forgotten, choice,
                   setting, conn, dead, link, count>>

(* The state is read under the lock; then the answer is sent or dropped. *)
AnswerReadsState ==
    /\ reply.stage = "checked"
    /\ reply' = IF mState = "XFER" THEN [reply EXCEPT !.stage = "send"]
                ELSE [stage |-> "idle", from |-> None]
    /\ UNCHANGED <<mState, mSelectApdu, mClearNextTapDefault, regular, payment, active,
                   choice, setting, conn, dead, link, count>>

AnswerSent ==
    /\ reply.stage = "send"
    /\ reply' = [stage |-> "idle", from |-> None]
    /\ UNCHANGED <<mState, mSelectApdu, mClearNextTapDefault, regular, payment, active,
                   choice, setting, conn, dead, link, count>>

-----------------------------------------------------------------------------
(* The system: the user changes the payment default; a service dies. *)

PaymentDefaultChanges ==
    /\ count.changes < MaxChanges /\ Count("changes")
    /\ paymentDefault' \in (Services \cup {None}) \ {paymentDefault}
    /\ onChangePending' = TRUE
    /\ UNCHANGED <<mState, mSelectApdu, mClearNextTapDefault, regular, payment, active,
                   choice, conn, dead, reply, link>>

ServiceDies(s) ==
    /\ count.faults < MaxFaults /\ Count("faults")
    /\ \E k \in Kinds : conn[k][s] = "up"
    /\ conn' = [k \in Kinds |-> [conn[k] EXCEPT ![s] = IF @ = "up" THEN "lost" ELSE @]]
    /\ dead' = dead \cup {m \in Messengers :
                            m.name = s /\ m \in {mService, mPaymentService, mActiveService}}
    /\ inSession' = inSession \ {s} /\ owed' = owed \ {s} /\ forgotten' = forgotten \ {s}
    /\ UNCHANGED <<mState, mSelectApdu, mClearNextTapDefault, regular, payment,
                   mActiveService, mActiveServiceName, choice, setting, reply, link>>

-----------------------------------------------------------------------------
NfcThread ==
    \/ notifyHostEmulationActivated \/ notifyHostEmulationData
    \/ notifyHostEmulationDeactivated \/ onSeListenDeactivated

MainThread ==
    \/ \E s \in Services :
          \/ onServiceConnected(s) \/ onServiceDisconnected(s)
          \/ onPaymentServiceConnected(s) \/ onPaymentServiceDisconnected(s)
          \/ AnswerArrives(s)
    \/ onChange \/ AnswerReadsState \/ AnswerSent

System ==
    \/ \E pick \in Services \cup {None} : setDefaultForNextTap(pick)
    \/ CacheNextTap
    \/ PaymentDefaultChanges
    \/ \E s \in Services : ServiceDies(s)

Next == NfcThread \/ MainThread \/ notifyOffHostAidSelected \/ System

(* Android starts a service it binds, and the main thread keeps handling    *)
(* what is posted to it.  Nothing is assumed of the reader or of the user.  *)
Spec == Init /\ [][Next]_vars
FairSpec == Spec /\ WF_vars(MainThread)

-----------------------------------------------------------------------------
(* Properties. *)

(* Every variable has its type. *)
TypeOK ==
    /\ mState \in States /\ mSelectApdu \in Services \cup {None}
    /\ mClearNextTapDefault \in BOOLEAN /\ usedNextTap \in BOOLEAN
    /\ mServiceBound \in BOOLEAN /\ mPaymentServiceBound \in BOOLEAN
    /\ {mService, mPaymentService, mActiveService} \subseteq Messengers \cup {None}
    /\ {mServiceName, mPaymentServiceName, mActiveServiceName, nextTap, paymentDefault,
         reply.from} \subseteq Services \cup {None}
    /\ choosing = <<>> \/ Head(choosing) \in Services \cup {None}
    /\ onChangePending \in BOOLEAN /\ link \in BOOLEAN
    /\ conn \in [Kinds -> [Services -> {"none", "binding", "up", "lost"}]]
    /\ dead \subseteq Messengers
    /\ owed \subseteq Services /\ inSession \subseteq Services /\ forgotten \subseteq Services
    /\ reply.stage \in {"idle", "checked", "send"}
    /\ count \in [{"taps", "apdus", "changes", "faults"} -> Nat]

(* What the manager believes of its connections is what Android holds, in   *)
(* whatever order connections come up, die and are dropped: no unbind of a  *)
(* connection that is not registered (an exception), no null dereference in *)
(* bindServiceIfNeededLocked, and names that belong to their messengers.    *)
BindingsConsistent ==
    /\ mServiceBound =>
          /\ mService # None /\ mService.name = mServiceName
          /\ conn["regular"][mServiceName] \in {"up", "lost"}
    /\ mPaymentServiceBound =>
          /\ mPaymentService # None /\ mPaymentService.name = mPaymentServiceName
          /\ conn["payment"][mPaymentServiceName] \in {"up", "lost"}
    /\ mActiveService # None => mActiveService.name = mActiveServiceName

(* While the manager waits for a service the SELECT is queued and Android   *)
(* was asked for that service, unless a bind failed or a service died.      *)
SelectAwaitsItsService ==
    mState = "W4_SERVICE" =>
        /\ mSelectApdu # None /\ ~mServiceBound
        /\ count.faults = 0 => conn["regular"][mSelectApdu] = "binding"

(* A service that got a command is the active one or has been told that it  *)
(* no longer is, but for those an off-host selection dropped: no two        *)
(* services believe that they talk to the reader.                           *)
SessionIsActive ==
    \A s \in inSession \ forgotten : mActiveService # None /\ mActiveService.name = s

(* A next-tap choice is gone once a tap that began with it has ended.       *)
NextTapUsedOnce == usedNextTap /\ ~link => nextTap = None

(* "Waiting for service to be bound": the wait ends, with the SELECT sent   *)
(* or the tap over, unless a bind failed or a service died.                 *)
WaitForServiceEnds == mState = "W4_SERVICE" ~> mState # "W4_SERVICE" \/ count.faults > 0

-----------------------------------------------------------------------------
(* What the comments say and the code does not do. *)

(* "mActiveService denotes the service interface that is the current active *)
(* one, until a new SELECT AID comes in that may be resolved to a different *)
(* service": the queued SELECT makes active the service it resolved to.     *)
SelectReachesItsService ==
    [][mSelectApdu # None /\ mSelectApdu' = None => mActiveService'.name = mSelectApdu]_vars

(* "Don't bother telling, we're not bound to any service yet": when an      *)
(* off-host AID is selected no service is left believing it is selected.    *)
OffHostForgetsNobody == forgotten = {}
=============================================================================
