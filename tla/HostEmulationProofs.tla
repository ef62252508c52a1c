-------------------------- MODULE HostEmulationProofs --------------------------
(***************************************************************************)
(* Proofs about HostEmulation, for any services and any bounds.            *)
(***************************************************************************)
EXTENDS HostEmulation, TLAPS

-----------------------------------------------------------------------------
(* Bindings. *)

(* What BindingsConsistent needs to be inductive: a messenger is held only  *)
(* while its service is bound.                                              *)
ConnTypes ==
    /\ conn \in [Kinds -> [Services -> {"none", "binding", "up", "lost"}]]
    /\ mServiceBound => mServiceName \in Services
    /\ mPaymentServiceBound => mPaymentServiceName \in Services
    /\ mServiceBound \in BOOLEAN /\ mPaymentServiceBound \in BOOLEAN
BindingInv ==
    /\ ConnTypes
    /\ BindingsConsistent
    /\ mPaymentService # None => mPaymentServiceBound
    /\ mService # None => mServiceBound

(* There is always an id for a new messenger: at most three are referred to. *)
LEMMA NewIsSome ==
    ASSUME NEW s \in Services
    PROVE  NewMessenger(s) \in Messengers /\ NewMessenger(s) # None /\ NewMessenger(s).name = s
<1> DEFINE used == {mService, mPaymentService, mActiveService}
           m(i) == [name |-> s, id |-> i]
           free(i) == m(i) \notin used /\ \A j \in 0 .. (i - 1) : m(j) \in used
<1>1. m(0) \notin used \/ m(1) \notin used \/ m(2) \notin used \/ m(3) \notin used
  <2>1. \A i, j \in 0 .. 3 : i # j => m(i) # m(j)
    OBVIOUS
  <2>2. 0 \in 0 .. 3 /\ 1 \in 0 .. 3 /\ 2 \in 0 .. 3 /\ 3 \in 0 .. 3
    OBVIOUS
  <2>3. m(0) # m(1) /\ m(0) # m(2) /\ m(0) # m(3) /\ m(1) # m(2) /\ m(1) # m(3) /\ m(2) # m(3)
    BY <2>1, <2>2
  <2> HIDE DEF m
  <2>4. QED
    BY <2>3
<1>2. \E i \in 0 .. 3 : free(i)
  <2> HIDE DEF m, used
  <2>1. CASE m(0) \notin used
    <3>1. free(0)
      BY <2>1
    <3>2. QED
      BY <3>1
  <2>2. CASE m(0) \in used /\ m(1) \notin used
    <3>1. free(1)
      BY <2>2
    <3>2. QED
      BY <3>1
  <2>3. CASE m(0) \in used /\ m(1) \in used /\ m(2) \notin used
    <3>1. free(2)
      BY <2>3
    <3>2. QED
      BY <3>1
  <2>4. CASE m(0) \in used /\ m(1) \in used /\ m(2) \in used /\ m(3) \notin used
    <3>1. free(3)
      BY <2>4
    <3>2. QED
      BY <3>1
  <2>5. QED
    BY <1>1, <2>1, <2>2, <2>3, <2>4
<1>3. (CHOOSE i \in 0 .. 3 : free(i)) \in 0 .. 3
  BY <1>2
<1>4. NewMessenger(s) = [name |-> s, id |-> CHOOSE i \in 0 .. 3 : free(i)]
  BY DEF NewMessenger
<1>5. NewMessenger(s) \in Messengers /\ NewMessenger(s).name = s
  BY <1>3, <1>4 DEF Messengers
<1>6. QED
  BY <1>5, NoneAssumption DEF Messengers

(* Only the active service's fields are at stake when a command is sent.    *)
LEMMA SendKeepsNames ==
    ASSUME BindingInv, NEW m, m # None, sendDataToService(m),
           m = mActiveService \/ m = mService' \/ m = mPaymentService',
           mService' # None => mService'.name = mServiceName',
           mPaymentService' # None => mPaymentService'.name = mPaymentServiceName'
    PROVE  mActiveService' # None => mActiveService'.name = mActiveServiceName'
BY DEF sendDataToService, BindingInv, BindingsConsistent

(* Dropping the bindings of one connection, or adding one, keeps the type.  *)
LEMMA ConnChanges ==
    ASSUME NEW c \in [Kinds -> [Services -> {"none", "binding", "up", "lost"}]],
           NEW k \in Kinds, NEW s \in Services
    PROVE  /\ Unbind(c, k) \in [Kinds -> [Services -> {"none", "binding", "up", "lost"}]]
           /\ Bind(c, k, s) \in [Kinds -> [Services -> {"none", "binding", "up", "lost"}]]
           /\ \A j \in Kinds : j # k => Unbind(c, k)[j] = c[j] /\ Bind(c, k, s)[j] = c[j]
           /\ \A t \in Services : c[k][t] # "none" => Bind(c, k, s)[k][t] = c[k][t]
BY DEF Unbind, Bind

(* What unbindServiceIfNeededLocked and a new bind leave of the bindings.   *)
LEMMA RegularChanges ==
    ASSUME BindingInv, UNCHANGED payment,
           \/ unbindServiceIfNeeded
           \/ \E s \in Services, i \in {"apdus", "changes"} : BindNewService(s, i)
    PROVE  /\ ConnTypes' /\ ~mServiceBound' /\ mService' = None
           /\ conn'["payment"] = conn["payment"]
<1> USE DEF BindingInv, ConnTypes, BindingsConsistent, payment, regular, ClearRegular, Kinds
<1>1. CASE unbindServiceIfNeeded
  <2>1. CASE mServiceBound
    BY <1>1, <2>1, ConnChanges DEF unbindServiceIfNeeded
  <2>2. CASE ~mServiceBound
    BY <1>1, <2>2 DEF unbindServiceIfNeeded
  <2>3. QED
    BY <2>1, <2>2
<1>2. ASSUME NEW s \in Services, NEW i \in {"apdus", "changes"}, BindNewService(s, i)
      PROVE  /\ ConnTypes' /\ ~mServiceBound' /\ mService' = None
             /\ conn'["payment"] = conn["payment"]
  <2>1. CASE mServiceBound
    <3>1. /\ Unbind(conn, "regular") \in [Kinds -> [Services -> {"none", "binding", "up", "lost"}]]
          /\ Unbind(conn, "regular")["payment"] = conn["payment"]
      BY ConnChanges
    <3>2. \/ conn' = Bind(Unbind(conn, "regular"), "regular", s)
          \/ conn' = Unbind(conn, "regular")
      BY <1>2, <2>1 DEF BindNewService, BindOrFail
    <3>3. /\ conn' \in [Kinds -> [Services -> {"none", "binding", "up", "lost"}]]
          /\ conn'["payment"] = conn["payment"]
      <4> DEFINE c == Unbind(conn, "regular")
      <4>1. CASE conn' = c
        BY <3>1, <4>1
      <4>2. CASE conn' = Bind(c, "regular", s)
        <5>1. c \in [Kinds -> [Services -> {"none", "binding", "up", "lost"}]]
              /\ c["payment"] = conn["payment"]
          BY <3>1
        <5> HIDE DEF c
        <5>2. QED
          BY <4>2, <5>1, ConnChanges
      <4>3. QED
        BY <3>2, <4>1, <4>2
    <3>4. mService' = None /\ mServiceBound' = FALSE
      BY <1>2, <2>1 DEF BindNewService
    <3>5. QED
      BY <3>3, <3>4
  <2>2. CASE ~mServiceBound
    <3>1. conn' = Bind(conn, "regular", s) \/ conn' = conn
      BY <1>2, <2>2 DEF BindNewService, BindOrFail
    <3>2. QED
      BY <1>2, <2>2, <3>1, ConnChanges DEF BindNewService
  <2>3. QED
    BY <2>1, <2>2
<1>3. QED
  BY <1>1, <1>2

(* The setting is null or a service.                                        *)
DefaultTyped == paymentDefault \in Services \cup {None}

(* No step makes it anything else.                                          *)
LEMMA DefaultStep == DefaultTyped /\ [Next]_vars => DefaultTyped'
BY DEF DefaultTyped, Next, vars, setting, NfcThread, MainThread, System,
   notifyHostEmulationActivated, notifyHostEmulationData, SelectNeedsUser, OtherApdu,
   SelectService, DataUntouched, notifyHostEmulationDeactivated, onSeListenDeactivated,
   notifyOffHostAidSelected,
   setDefaultForNextTap, CacheNextTap, PaymentDefaultChanges, AnswerReadsState, AnswerSent,
   AnswerArrives, onServiceConnected, onServiceDisconnected, onPaymentServiceConnected,
   onPaymentServiceDisconnected, onChange, ServiceDies

(* The bindings stay consistent whatever the next step is.                  *)
LEMMA BindingStep == BindingInv /\ DefaultTyped /\ [Next]_vars => BindingInv'
<1> SUFFICES ASSUME BindingInv, DefaultTyped, [Next]_vars PROVE BindingInv'
  OBVIOUS
<1> USE DEF BindingInv, BindingsConsistent
<1> DEFINE Named == mActiveService' # None => mActiveService'.name = mActiveServiceName'
<1>a. ASSUME UNCHANGED <<regular, payment, conn>>, Named PROVE BindingInv'
  BY <1>a DEF ConnTypes, regular, payment
<1>b. ASSUME UNCHANGED payment, Named,
             \/ unbindServiceIfNeeded
             \/ \E s \in Services, i \in {"apdus", "changes"} : BindNewService(s, i)
      PROVE  BindingInv'
  BY <1>b, RegularChanges DEF payment
<1>0. CASE UNCHANGED vars
  BY <1>0, <1>a DEF vars, active
<1>1. CASE notifyHostEmulationActivated
  BY <1>1, <1>a DEF notifyHostEmulationActivated, active
<1>2. CASE notifyHostEmulationData
  <2>1. CASE SelectNeedsUser
    BY <2>1, <1>a DEF SelectNeedsUser, DataUntouched, active
  <2>2. CASE OtherApdu
    <3>1. Named
      BY <2>2, SendKeepsNames DEF OtherApdu, DataUntouched, regular, payment
    <3>2. QED
      BY <2>2, <3>1, <1>a DEF OtherApdu, DataUntouched
  <2>3. ASSUME NEW s \in Services, SelectService(s) PROVE BindingInv'
    <3>1. CASE ExistingService(s) # None
      <4>1. Named
        BY <2>3, <3>1, SendKeepsNames
           DEF SelectService, ExistingService, DataUntouched, regular, payment
      <4>2. QED
        BY <2>3, <3>1, <4>1, <1>a DEF SelectService, DataUntouched
    <3>2. CASE ExistingService(s) = None
      BY <2>3, <3>2, <1>b DEF SelectService, DataUntouched, active
    <3>3. QED
      BY <3>1, <3>2
  <2>4. QED
    BY <1>2, <2>1, <2>2, <2>3 DEF notifyHostEmulationData
<1>3. CASE notifyHostEmulationDeactivated
  BY <1>3, <1>b DEF notifyHostEmulationDeactivated
<1>15. CASE onSeListenDeactivated
  BY <1>15, <1>a DEF onSeListenDeactivated, active
<1>4. CASE notifyOffHostAidSelected
  BY <1>4, <1>b DEF notifyOffHostAidSelected
<1>5. ASSUME NEW pick \in Services \cup {None}, setDefaultForNextTap(pick) PROVE BindingInv'
  <2>1. Named
    BY <1>5 DEF setDefaultForNextTap, active
  <2>2. CASE pick = None
    BY <1>5, <2>1, <2>2, <1>b DEF setDefaultForNextTap
  <2>3. CASE pick # None /\ ExistingService(pick) # None
    BY <1>5, <2>1, <2>3, <1>a DEF setDefaultForNextTap
  <2>4. CASE pick # None /\ ExistingService(pick) = None
    BY <1>5, <2>1, <2>4, <1>b DEF setDefaultForNextTap
  <2>5. QED
    BY <2>2, <2>3, <2>4
<1>6. CASE CacheNextTap \/ PaymentDefaultChanges \/ AnswerReadsState \/ AnswerSent
  BY <1>6, <1>a DEF CacheNextTap, PaymentDefaultChanges, AnswerReadsState, AnswerSent, active
<1>7. ASSUME NEW s \in Services, AnswerArrives(s) PROVE BindingInv'
  BY <1>7, <1>a DEF AnswerArrives
<1>8. ASSUME NEW s \in Services, onServiceConnected(s) PROVE BindingInv'
  <2>1. /\ mService' = NewMessenger(s) /\ mServiceBound' = TRUE /\ mServiceName' = s
        /\ conn' = [conn EXCEPT !["regular"][s] = "up"] /\ UNCHANGED payment
    BY <1>8 DEF onServiceConnected
  <2>2. NewMessenger(s).name = s /\ NewMessenger(s) # None
    BY NewIsSome
  <2>3. ConnTypes' /\ conn'["payment"] = conn["payment"] /\ conn'["regular"][s] = "up"
    BY <2>1 DEF ConnTypes, Kinds, payment
  <2>4. Named
    <3>1. CASE mSelectApdu = None
      BY <1>8, <3>1 DEF onServiceConnected, active
    <3>2. CASE mSelectApdu # None
      BY <1>8, <2>1, <2>2, <3>2, SendKeepsNames DEF onServiceConnected, payment
    <3>3. QED
      BY <3>1, <3>2
  <2>5. QED
    BY <2>1, <2>2, <2>3, <2>4 DEF payment, ConnTypes
<1>9. ASSUME NEW s \in Services, onServiceDisconnected(s) PROVE BindingInv'
  <2>1. /\ mService' = None /\ ~mServiceBound' /\ UNCHANGED <<payment, active>>
        /\ conn' = [conn EXCEPT !["regular"][s] = "binding"]
    BY <1>9 DEF onServiceDisconnected
  <2>2. ConnTypes' /\ conn'["payment"] = conn["payment"]
    <3>1. conn' \in [Kinds -> [Services -> {"none", "binding", "up", "lost"}]]
      BY <2>1 DEF ConnTypes, Kinds
    <3>2. mServiceBound' = FALSE
      BY <1>9 DEF onServiceDisconnected
    <3>3. conn'["payment"] = conn["payment"]
      BY <2>1 DEF ConnTypes, Kinds
    <3>4. QED
      BY <2>1, <3>1, <3>2, <3>3 DEF ConnTypes, payment
  <2>3. QED
    BY <2>1, <2>2 DEF payment, active
<1>10. ASSUME NEW s \in Services, onPaymentServiceConnected(s) PROVE BindingInv'
  <2>1. /\ mPaymentService' = NewMessenger(s) /\ mPaymentServiceBound' = TRUE
        /\ mPaymentServiceName' = s /\ UNCHANGED <<regular, active>>
        /\ conn' = [conn EXCEPT !["payment"][s] = "up"]
    BY <1>10 DEF onPaymentServiceConnected
  <2>2. ConnTypes' /\ conn'["regular"] = conn["regular"] /\ conn'["payment"][s] = "up"
    BY <2>1 DEF ConnTypes, Kinds, regular
  <2>3. NewMessenger(s).name = s /\ NewMessenger(s) # None
    BY NewIsSome
  <2>4. QED
    BY <2>1, <2>2, <2>3 DEF regular, active, ConnTypes
<1>11. ASSUME NEW s \in Services, onPaymentServiceDisconnected(s) PROVE BindingInv'
  <2>1. /\ ClearPayment /\ UNCHANGED <<regular, active>>
        /\ conn' = [conn EXCEPT !["payment"][s] = "binding"]
    BY <1>11 DEF onPaymentServiceDisconnected
  <2>2. ConnTypes' /\ conn'["regular"] = conn["regular"]
    BY <2>1 DEF ConnTypes, Kinds, regular, ClearPayment
  <2>3. QED
    BY <2>1, <2>2 DEF regular, active, ClearPayment
<1>12. CASE onChange
  <2>1. UNCHANGED <<regular, active>>
    BY <1>12 DEF onChange
  <2>2. CASE mPaymentServiceBound
    <3> DEFINE c == Unbind(conn, "payment")
    <3>1. /\ c \in [Kinds -> [Services -> {"none", "binding", "up", "lost"}]]
          /\ c["regular"] = conn["regular"]
      BY DEF ConnTypes, Kinds, Unbind
    <3>2. conn' = c \/ (paymentDefault \in Services /\ conn' = Bind(c, "payment", paymentDefault))
      BY <1>12, <2>2 DEF onChange, DefaultTyped
    <3> HIDE DEF c
    <3>3. /\ conn' \in [Kinds -> [Services -> {"none", "binding", "up", "lost"}]]
          /\ conn'["regular"] = conn["regular"]
      BY <3>1, <3>2, ConnChanges DEF Kinds
    <3>4. ClearPayment
      BY <1>12, <2>2 DEF onChange
    <3>5. QED
      BY <2>1, <3>3, <3>4 DEF ClearPayment, ConnTypes, regular, active
  <2>3. CASE ~mPaymentServiceBound
    <3>1. conn' = conn \/ (paymentDefault \in Services /\ conn' = Bind(conn, "payment", paymentDefault))
      BY <1>12, <2>3 DEF onChange, DefaultTyped
    <3>2. /\ conn' \in [Kinds -> [Services -> {"none", "binding", "up", "lost"}]]
          /\ conn'["regular"] = conn["regular"]
      BY <3>1, ConnChanges DEF ConnTypes, Kinds
    <3>3. UNCHANGED payment
      BY <1>12, <2>3 DEF onChange
    <3>4. QED
      BY <2>1, <2>3, <3>2, <3>3 DEF payment, ConnTypes, regular, active
  <2>4. QED
    BY <2>2, <2>3
<1>13. ASSUME NEW s \in Services, ServiceDies(s) PROVE BindingInv'
  <2>1. /\ UNCHANGED <<regular, payment, mActiveService, mActiveServiceName>>
        /\ conn' = [k \in Kinds |-> [conn[k] EXCEPT ![s] = IF @ = "up" THEN "lost" ELSE @]]
    BY <1>13 DEF ServiceDies
  <2>2. \A k \in Kinds : conn'[k] = [conn[k] EXCEPT ![s] = IF @ = "up" THEN "lost" ELSE @]
    BY <2>1
  <2>3. \A k \in Kinds, t \in Services :
            conn[k][t] \in {"up", "lost"} => conn'[k][t] \in {"up", "lost"}
    BY <2>2 DEF ConnTypes
  <2>4. conn' \in [Kinds -> [Services -> {"none", "binding", "up", "lost"}]]
    BY <2>1, <2>2 DEF ConnTypes
  <2>5. QED
    BY <2>1, <2>3, <2>4 DEF ConnTypes, Kinds, regular, payment
<1>14. QED
  BY <1>0, <1>1, <1>2, <1>3, <1>4, <1>5, <1>6, <1>7, <1>8, <1>9, <1>10, <1>11, <1>12, <1>13,
     <1>15
     DEF Next, NfcThread, MainThread, System

(* The bindings of the first state are consistent.                          *)
LEMMA BindingInit == Init => BindingInv /\ DefaultTyped
<1> SUFFICES ASSUME Init PROVE BindingInv /\ DefaultTyped
  OBVIOUS
<1>1. conn \in [Kinds -> [Services -> {"none", "binding", "up", "lost"}]]
  BY DEF Init
<1>2. ~mServiceBound /\ ~mPaymentServiceBound /\ mService = None /\ mPaymentService = None
  BY DEF Init
<1>3. mServiceBound \in BOOLEAN /\ mPaymentServiceBound \in BOOLEAN
  BY DEF Init
<1>4. mActiveService = None /\ DefaultTyped
  BY DEF Init, DefaultTyped
<1>5. QED
  BY <1>1, <1>2, <1>3, <1>4 DEF BindingInv, ConnTypes, BindingsConsistent

(* What the manager believes of its connections is always what Android      *)
(* holds, for any number of services, taps, changes and deaths.             *)
THEOREM BindingsCorrect == Spec => []BindingsConsistent
<1>1. BindingInv => BindingsConsistent
  BY DEF BindingInv
<1>2. QED
  BY <1>1, BindingInit, BindingStep, DefaultStep, PTL DEF Spec

-----------------------------------------------------------------------------
(* Sessions. *)

(* Who is in session after a command is sent: the receiver alone, and those *)
(* an off-host selection dropped.                                           *)
LEMMA SendKeepsSession ==
    ASSUME SessionIsActive, NEW m, m # None, sendDataToService(m)
    PROVE  SessionIsActive'
<1> USE DEF SessionIsActive, sendDataToService, WithoutActive
<1>1. CASE m = mActiveService
  BY <1>1
<1>2. CASE m # mActiveService
  <2>1. mActiveService' = m
    BY <1>2
  <2>2. \A s \in inSession' \ forgotten' : s = m.name
    BY <1>2
  <2>3. QED
    BY <2>1, <2>2
<1>3. QED
  BY <1>1, <1>2

(* The active one and the untold ones are all there is, after every step.   *)
LEMMA SessionStep == BindingInv /\ SessionIsActive /\ [Next]_vars => SessionIsActive'
<1> SUFFICES ASSUME BindingInv, SessionIsActive, [Next]_vars PROVE SessionIsActive'
  OBVIOUS
<1>a. ASSUME UNCHANGED active PROVE SessionIsActive'
  BY <1>a DEF active, SessionIsActive
<1>1. CASE UNCHANGED vars
  BY <1>1, <1>a DEF vars
<1>2. CASE notifyHostEmulationActivated
  BY <1>2, <1>a DEF notifyHostEmulationActivated
<1>3. CASE notifyHostEmulationData
  <2>1. CASE SelectNeedsUser
    BY <2>1, <1>a DEF SelectNeedsUser
  <2>2. CASE OtherApdu
    BY <2>2, SendKeepsSession DEF OtherApdu
  <2>3. ASSUME NEW s \in Services, SelectService(s) PROVE SessionIsActive'
    BY <2>3, <1>a, SendKeepsSession DEF SelectService
  <2>4. QED
    BY <1>3, <2>1, <2>2, <2>3 DEF notifyHostEmulationData
<1>4. CASE notifyHostEmulationDeactivated
  BY <1>4 DEF notifyHostEmulationDeactivated, SessionIsActive, WithoutActive
<1>5. CASE notifyOffHostAidSelected
  BY <1>5 DEF notifyOffHostAidSelected, SessionIsActive, WithoutActive
<1>6. ASSUME NEW s \in Services, onServiceConnected(s) PROVE SessionIsActive'
  BY <1>6, <1>a, SendKeepsSession, NewIsSome DEF onServiceConnected
<1>7. ASSUME NEW s \in Services,
             onServiceDisconnected(s) \/ onPaymentServiceConnected(s)
                \/ onPaymentServiceDisconnected(s)
      PROVE  SessionIsActive'
  BY <1>7, <1>a DEF onServiceDisconnected, onPaymentServiceConnected, onPaymentServiceDisconnected
<1>8. ASSUME NEW s \in Services, AnswerArrives(s) \/ ServiceDies(s) PROVE SessionIsActive'
  BY <1>8 DEF AnswerArrives, ServiceDies, SessionIsActive
<1>9. CASE onChange \/ AnswerReadsState \/ AnswerSent \/ CacheNextTap \/ PaymentDefaultChanges
  BY <1>9, <1>a DEF onChange, AnswerReadsState, AnswerSent, CacheNextTap, PaymentDefaultChanges
<1>12. CASE onSeListenDeactivated
  BY <1>12, <1>a DEF onSeListenDeactivated
<1>10. ASSUME NEW pick \in Services \cup {None}, setDefaultForNextTap(pick)
       PROVE  SessionIsActive'
  BY <1>10, <1>a DEF setDefaultForNextTap
<1>11. QED
  BY <1>1, <1>2, <1>3, <1>4, <1>5, <1>6, <1>7, <1>8, <1>9, <1>10, <1>12
     DEF Next, NfcThread, MainThread, System

(* No two services believe that they talk to the reader, but for those that *)
(* an off-host selection dropped without a word.                            *)
THEOREM SessionCorrect == Spec => []SessionIsActive
<1>1. Init => SessionIsActive
  BY DEF Init, SessionIsActive
<1>2. QED
  BY <1>1, BindingInit, BindingStep, DefaultStep, SessionStep, PTL DEF Spec

-----------------------------------------------------------------------------
(* The next-tap choice. *)

(* A choice the tap began with is marked for clearing until the tap ends.   *)
NextTapInv == usedNextTap => IF link THEN mClearNextTapDefault ELSE nextTap = None

(* A next-tap choice serves one tap, however the user picks meanwhile.      *)
THEOREM NextTapCorrect == Spec => []NextTapUsedOnce
<1>1. Init => NextTapInv
  BY DEF Init, NextTapInv
<1>2. NextTapInv /\ [Next]_vars => NextTapInv'
  <2> SUFFICES ASSUME NextTapInv, [Next]_vars PROVE NextTapInv'
    OBVIOUS
  <2>1. CASE notifyHostEmulationActivated
    BY <2>1 DEF NextTapInv, notifyHostEmulationActivated
  <2>2. CASE notifyHostEmulationDeactivated
    BY <2>2 DEF NextTapInv, notifyHostEmulationDeactivated, NextTapAfter
  <2>3. CASE CacheNextTap
    BY <2>3 DEF NextTapInv, CacheNextTap
  <2>6. CASE onSeListenDeactivated
    BY <2>6 DEF NextTapInv, onSeListenDeactivated
  <2>4. UNCHANGED <<usedNextTap, link, mClearNextTapDefault, nextTap>>
           => NextTapInv'
    BY DEF NextTapInv
  <2>5. QED
    BY <2>1, <2>2, <2>3, <2>4, <2>6 DEF Next, vars, choice, NfcThread, MainThread, System,
     notifyHostEmulationData, SelectNeedsUser, OtherApdu,
     SelectService, DataUntouched, notifyHostEmulationDeactivated, onSeListenDeactivated,
   notifyOffHostAidSelected,
     setDefaultForNextTap, CacheNextTap, PaymentDefaultChanges, AnswerReadsState, AnswerSent,
     AnswerArrives, onServiceConnected, onServiceDisconnected, onPaymentServiceConnected,
     onPaymentServiceDisconnected, onChange, ServiceDies
<1>3. NextTapInv => NextTapUsedOnce
  BY DEF NextTapInv, NextTapUsedOnce
<1>4. QED
  BY <1>1, <1>2, <1>3, PTL DEF Spec
=============================================================================
