-------------------------- MODULE NxpAdapterProofs --------------------------
(***************************************************************************)
(* Proofs about NxpAdapter, for any threads, calls and targets.            *)
(***************************************************************************)
EXTENDS NxpAdapter, WellFoundedInduction, TLAPS

-----------------------------------------------------------------------------
(* The steps that each role may have in its plans *)

InitLabels == {"configure", "init", "fwDeinit", "fwLoad", "fwInit", "eeprom", "seOff", "llcpConfig",
               "seListen", "enabled", "fwFailed", "initFails"}
BootLabels == {"configure", "bootLoad", "unconfigure"}
RouteLabels == {"register", "seMode", "start", "stop"}
OpenLabels == {"seCheck", "seField", "seRegister", "seWired", "seNotified", "seConnect", "gpioGet", "gpioSet",
               "seOpened", "seFailed"}
CloseLabels == {"seDisconnect", "gpioBack", "gpioClear", "seClosed", "seAsk"}
ServiceLabels == InitLabels \cup BootLabels \cup RouteLabels \cup OpenLabels \cup CloseLabels \cup {"deinit"}
TagLabels == {"connect", "connected", "reconnect", "ask", "tagDisconnect", "restart", "released"}
PeerLabels == {"p2pConnect", "p2pDisconnect", "restart", "check", "activate", "released", "ignored", "ask"}
OtherLabels == {"accept", "accepting", "llcp", "setTimeout", "resetTimeouts"}

RoleLabels(t) ==
    CASE t = "service" -> ServiceLabels
      [] t \in {"tag1", "tag2"} -> TagLabels
      [] t = "peer" -> PeerLabels
      [] OTHER -> OtherLabels

Mutex == {"idle", "lock", "unlock"}
Words == ServiceLabels \cup TagLabels \cup PeerLabels \cup OtherLabels \cup {"lock", "unlock"}
Plan == Seq(Words)

\* But for the mutex, the steps of a plan, and those that a thread has to do.
Names(p) == {p[i] : i \in DOMAIN p} \ Mutex
Todo(c) == ({c.pc} \ Mutex) \cup Names(c.rest)

(* A plan never goes back: its steps come in the order of their ranks.      *)
Rank(l) ==
    CASE l \in {"configure", "register", "seMode", "deinit", "p2pConnect", "fwFailed", "initFails", "ask",
                "reconnect", "accept", "llcp", "setTimeout", "resetTimeouts", "seAsk"} -> 1
      [] l \in {"init", "bootLoad", "start", "stop", "tagDisconnect", "p2pDisconnect", "restart", "check",
                "accepting"} -> 2
      [] l \in {"fwDeinit", "unconfigure", "released", "ignored", "activate", "seCheck", "seDisconnect"} -> 3
      [] l \in {"fwLoad", "connect", "seField", "gpioBack"} -> 4
      [] l \in {"fwInit", "connected", "seRegister", "gpioClear"} -> 5
      [] l \in {"eeprom", "seWired"} -> 6
      [] l \in {"seOff", "seNotified"} -> 7
      [] l \in {"llcpConfig", "seConnect"} -> 8
      [] l \in {"seListen", "gpioGet"} -> 9
      [] l = "gpioSet" -> 10
      [] l \in {"enabled", "seOpened", "seFailed", "seClosed"} -> 11
      [] OTHER -> 0

Fits(a, b) ==
    a \in Mutex \/ b \in Mutex \/ Rank(a) < Rank(b) \/ {a, b} \subseteq {"register", "seMode"}
Joins(a, b) ==
    (b = "lock" => a = "unlock") /\ (b = "stop" => a = "lock") /\ (b = "seNotified" => a = "seWired")
Ordered(p) ==
    /\ \A i, j \in DOMAIN p : i < j => Fits(p[i], p[j])
    /\ \A i \in DOMAIN p : i + 1 \in DOMAIN p => Joins(p[i], p[i + 1])
GoodPlan(p) == p \in Plan /\ Ordered(p)

Contexts ==
    [pc : Words \cup {"idle"}, st : {"runs", "waits", "cond"}, rest : Plan, id : Nat, tries : Nat,
     frame : [Frames -> [sem : BOOLEAN, ok : BOOLEAN]]]
Orderly(c) ==
    /\ Ordered(c.rest)
    /\ \A b \in Names(c.rest) : Fits(c.pc, b)
    /\ c.rest # <<>> => Joins(c.pc, c.rest[1])

-----------------------------------------------------------------------------
(* Plans *)

LEMMA PlanFacts ==
    ASSUME NEW p \in Plan
    PROVE  /\ Len(p) \in Nat /\ DOMAIN p = 1..Len(p) /\ (p = <<>> <=> Len(p) = 0)
           /\ \A i \in DOMAIN p : p[i] \in Words
           /\ p # <<>> => /\ Head(p) = p[1] /\ Tail(p) \in Plan /\ Len(Tail(p)) = Len(p) - 1
                          /\ \A i \in 1..(Len(p) - 1) : Tail(p)[i] = p[i + 1]
BY DEF Plan

LEMMA MutexWords == "idle" \notin Words /\ {"lock", "unlock"} \subseteq Words
BY DEF Words, ServiceLabels, InitLabels, BootLabels, RouteLabels, OpenLabels, CloseLabels, TagLabels, PeerLabels,
       OtherLabels

LEMMA NamesInWords == ASSUME NEW p \in Plan PROVE Names(p) \subseteq Words \ Mutex
BY PlanFacts DEF Names

LEMMA EmptyPlan == GoodPlan(<<>>) /\ Names(<<>>) = {}
BY DEF GoodPlan, Plan, Ordered, Names

LEMMA OneStep ==
    ASSUME NEW a \in Words
    PROVE  GoodPlan(<<a>>) /\ Names(<<a>>) = {a} \ Mutex
BY DEF GoodPlan, Plan, Ordered, Names

(* One plan after another. *)
LEMMA Joined ==
    ASSUME NEW p, GoodPlan(p), NEW q, GoodPlan(q),
           \A a \in Names(p), b \in Names(q) : Fits(a, b),
           p # <<>> /\ q # <<>> => Joins(p[Len(p)], q[1])
    PROVE  /\ GoodPlan(p \o q) /\ Names(p \o q) = Names(p) \cup Names(q)
           /\ p = <<>> => p \o q = q
           /\ q = <<>> => p \o q = p
           /\ p # <<>> => p \o q # <<>> /\ (p \o q)[1] = p[1]
           /\ q # <<>> => p \o q # <<>> /\ (p \o q)[Len(p \o q)] = q[Len(q)]
<1>1. p \in Plan /\ q \in Plan
  BY DEF GoodPlan
<1>2. /\ Len(p) \in Nat /\ DOMAIN p = 1..Len(p) /\ Len(q) \in Nat /\ DOMAIN q = 1..Len(q)
      /\ (p = <<>> <=> Len(p) = 0) /\ (q = <<>> <=> Len(q) = 0)
  BY <1>1, PlanFacts
<1> DEFINE r == p \o q
<1>3. r \in Plan /\ Len(r) = Len(p) + Len(q)
  BY <1>1 DEF Plan
<1>4. DOMAIN r = 1..(Len(p) + Len(q)) /\ (r = <<>> <=> Len(r) = 0)
  BY <1>3, PlanFacts
<1>5. \A i \in 1..Len(p) : r[i] = p[i]
  BY <1>1, <1>2 DEF Plan
<1>6. \A i \in 1..Len(q) : r[Len(p) + i] = q[i]
  BY <1>1, <1>2 DEF Plan
<1>7. p = <<>> => r = q
  BY <1>1 DEF Plan
<1>8. q = <<>> => r = p
  BY <1>1 DEF Plan
<1> HIDE DEF r
<1>9. \A i \in DOMAIN r : (i \in 1..Len(p) /\ r[i] = p[i])
                          \/ (i - Len(p) \in 1..Len(q) /\ r[i] = q[i - Len(p)] /\ i > Len(p))
  <2> TAKE i \in DOMAIN r
  <2>1. CASE i <= Len(p)
    BY <1>2, <1>4, <1>5, <2>1
  <2>2. CASE i > Len(p)
    <3>1. i - Len(p) \in 1..Len(q) /\ Len(p) + (i - Len(p)) = i
      BY <1>2, <1>4, <2>2
    <3>2. QED
      BY <1>6, <2>2, <3>1
  <2>3. QED
    BY <1>2, <1>4, <2>1, <2>2
<1>10. Names(r) = Names(p) \cup Names(q)
  <2>1. Names(r) \subseteq Names(p) \cup Names(q)
    BY <1>2, <1>9 DEF Names
  <2>2. Names(p) \subseteq Names(r)
    BY <1>2, <1>4, <1>5 DEF Names
  <2>3. ASSUME NEW i \in 1..Len(q) PROVE Len(p) + i \in DOMAIN r
    BY <1>2, <1>4
  <2>4. Names(q) \subseteq Names(r)
    BY <1>2, <1>6, <2>3 DEF Names
  <2>5. QED
    BY <2>1, <2>2, <2>4
<1>11. ASSUME NEW i \in DOMAIN r, NEW j \in DOMAIN r, i < j PROVE Fits(r[i], r[j])
  <2>1. CASE i \in 1..Len(p) /\ r[i] = p[i] /\ j \in 1..Len(p) /\ r[j] = p[j]
    BY <1>2, <1>11, <2>1 DEF GoodPlan, Ordered
  <2>2. CASE i > Len(p) /\ j > Len(p)
    <3>1. /\ i - Len(p) \in 1..Len(q) /\ r[i] = q[i - Len(p)]
          /\ j - Len(p) \in 1..Len(q) /\ r[j] = q[j - Len(p)] /\ i - Len(p) < j - Len(p)
      BY <1>2, <1>4, <1>9, <1>11, <2>2
    <3>2. QED
      BY <1>2, <3>1 DEF GoodPlan, Ordered
  <2>3. CASE i \in 1..Len(p) /\ r[i] = p[i] /\ j - Len(p) \in 1..Len(q) /\ r[j] = q[j - Len(p)]
    <3>1. r[i] \in Mutex \/ r[i] \in Names(p)
      BY <1>2, <2>3 DEF Names
    <3>2. r[j] \in Mutex \/ r[j] \in Names(q)
      BY <1>2, <2>3 DEF Names
    <3>3. QED
      BY <3>1, <3>2 DEF Fits
  <2>4. QED
    BY <1>2, <1>4, <1>9, <1>11, <2>1, <2>2, <2>3
<1>12. ASSUME NEW i \in DOMAIN r, i + 1 \in DOMAIN r PROVE Joins(r[i], r[i + 1])
  <2>1. CASE i + 1 <= Len(p)
    <3>1. i \in DOMAIN p /\ i + 1 \in DOMAIN p /\ r[i] = p[i] /\ r[i + 1] = p[i + 1]
      BY <1>2, <1>4, <1>5, <2>1
    <3>2. QED
      BY <3>1 DEF GoodPlan, Ordered
  <2>2. CASE i = Len(p)
    <3>1. r[i] = p[Len(p)] /\ r[i + 1] = q[1] /\ p # <<>> /\ q # <<>>
      BY <1>2, <1>4, <1>5, <1>6, <1>12, <2>2
    <3>2. QED
      BY <3>1
  <2>3. CASE i > Len(p)
    <3> DEFINE k == i - Len(p)
    <3>0. i \in Nat /\ i + 1 <= Len(p) + Len(q) /\ Len(p) < i
      BY <1>2, <1>4, <1>12, <2>3
    <3>1. k \in DOMAIN q /\ k + 1 \in DOMAIN q /\ Len(p) + k = i /\ Len(p) + (k + 1) = i + 1
      BY <1>2, <3>0
    <3>2. r[i] = q[k] /\ r[i + 1] = q[k + 1]
      BY <1>2, <1>6, <3>1
    <3> HIDE DEF k
    <3>3. QED
      BY <3>1, <3>2 DEF GoodPlan, Ordered
  <2>4. QED
    BY <1>2, <1>4, <2>1, <2>2, <2>3
<1>13. GoodPlan(r)
  BY <1>3, <1>11, <1>12 DEF GoodPlan, Ordered
<1>14. p # <<>> => r # <<>> /\ r[1] = p[1]
  BY <1>2, <1>3, <1>4, <1>5
<1>15. q # <<>> => r # <<>> /\ r[Len(r)] = q[Len(q)]
  BY <1>2, <1>3, <1>4, <1>6
<1>16. QED
  BY <1>7, <1>8, <1>10, <1>13, <1>14, <1>15 DEF r

\* A plan that takes the mutex first and gives it back last.
Block(p) == GoodPlan(p) /\ p # <<>> /\ p[1] = "lock" /\ p[Len(p)] = "unlock"

LEMMA LockedPlan ==
    ASSUME NEW p, GoodPlan(p), p # <<>>, p[1] \notin {"lock", "seNotified"}
    PROVE  Block(Locked(p)) /\ Names(Locked(p)) = Names(p)
<1> DEFINE l == <<"lock">>
           u == <<"unlock">>
           h == l \o p
<1>1. /\ GoodPlan(l) /\ Names(l) = {} /\ l # <<>> /\ l[1] = "lock" /\ l[Len(l)] = "lock"
      /\ GoodPlan(u) /\ Names(u) = {} /\ u # <<>> /\ u[1] = "unlock" /\ u[Len(u)] = "unlock"
  BY OneStep, MutexWords DEF Mutex
<1>2. Locked(p) = h \o u
  BY DEF Locked
<1> HIDE DEF l, u
<1>3. GoodPlan(h) /\ Names(h) = Names(p) /\ h # <<>> /\ h[1] = "lock"
  <2>1. Joins(l[Len(l)], p[1])
    BY <1>1 DEF Joins
  <2>2. \A a \in Names(l), b \in Names(p) : Fits(a, b)
    BY <1>1
  <2>3. GoodPlan(h) /\ Names(h) = Names(l) \cup Names(p) /\ h # <<>> /\ h[1] = l[1]
    BY <1>1, <2>1, <2>2, Joined
  <2>4. QED
    BY <1>1, <2>3
<1> HIDE DEF h
<1>4. Joins(h[Len(h)], u[1]) /\ \A a \in Names(h), b \in Names(u) : Fits(a, b)
  BY <1>1 DEF Joins
<1>5. /\ GoodPlan(h \o u) /\ Names(h \o u) = Names(h) \cup Names(u) /\ h \o u # <<>>
      /\ (h \o u)[1] = h[1] /\ (h \o u)[Len(h \o u)] = u[Len(u)]
  BY <1>1, <1>3, <1>4, Joined
<1>6. QED
  BY <1>1, <1>2, <1>3, <1>5 DEF Block

LEMMA LockedStep ==
    ASSUME NEW a \in Words \ Mutex, a # "seNotified"
    PROVE  Block(Locked(<<a>>)) /\ Names(Locked(<<a>>)) = {a}
BY OneStep, LockedPlan DEF Mutex

LEMMA Blocks ==
    ASSUME NEW p, Block(p), NEW q, Block(q), \A a \in Names(p), b \in Names(q) : Fits(a, b)
    PROVE  Block(p \o q) /\ Names(p \o q) = Names(p) \cup Names(q)
<1>1. Joins(p[Len(p)], q[1])
  BY DEF Joins, Block
<1>2. QED
  BY <1>1, Joined DEF Block

\* The plans of the service.
LEMMA TailPlan ==
    /\ GoodPlan(initializeTail) /\ initializeTail[1] = "eeprom" /\ initializeTail # <<>>
    /\ Names(initializeTail) = {"eeprom", "seOff", "llcpConfig", "seListen", "enabled"}
<1>1. initializeTail \in Plan
  BY DEF initializeTail, Plan, Words, ServiceLabels, InitLabels
<1>2. Ordered(initializeTail)
  BY DEF initializeTail, Ordered, Fits, Joins, Rank, Mutex
<1>3. QED
  BY <1>1, <1>2 DEF initializeTail, GoodPlan, Names, Mutex

LEMMA DownloadPlan ==
    ASSUME NEW update \in BOOLEAN
    PROVE  LET p == download_locked(update) \o initializeTail
           IN  /\ GoodPlan(p) /\ p # <<>> /\ p[1] = (IF update THEN "fwDeinit" ELSE "fwLoad")
               /\ Names(p) = (IF update THEN {"fwDeinit"} ELSE {})
                               \cup {"fwLoad", "fwInit", "eeprom", "seOff", "llcpConfig", "seListen", "enabled"}
<1> DEFINE f == <<"fwLoad">> \o <<"fwInit">>
           d == IF update THEN <<"fwDeinit">> ELSE <<>>
           e == d \o <<"fwLoad">>
<1>1. {"fwDeinit", "fwLoad", "fwInit"} \subseteq Words \ Mutex
  BY DEF Words, ServiceLabels, InitLabels, Mutex
<1>2. GoodPlan(d) /\ Names(d) = (IF update THEN {"fwDeinit"} ELSE {}) /\ (update => d # <<>> /\ d[1] = "fwDeinit")
      /\ (~update => d = <<>>)
  <2>1. CASE update
    <3>1. d = <<"fwDeinit">>
      BY <2>1
    <3>2. GoodPlan(<<"fwDeinit">>) /\ Names(<<"fwDeinit">>) = {"fwDeinit"}
      BY <1>1, OneStep
    <3>3. QED
      BY <2>1, <3>1, <3>2
  <2>2. CASE ~update
    BY <2>2, EmptyPlan
  <2>3. QED
    BY <2>1, <2>2
<1>3. GoodPlan(<<"fwLoad">>) /\ Names(<<"fwLoad">>) = {"fwLoad"} /\ GoodPlan(<<"fwInit">>) /\ Names(<<"fwInit">>) = {"fwInit"}
  BY <1>1, OneStep
<1>4. /\ GoodPlan(e) /\ Names(e) = Names(d) \cup {"fwLoad"} /\ e # <<>>
      /\ e[1] = (IF update THEN "fwDeinit" ELSE "fwLoad")
  <2>1. \A a \in Names(d) : Fits(a, "fwLoad")
    BY <1>2 DEF Fits, Rank
  <2>2. Joins(d[Len(d)], "fwLoad")
    BY DEF Joins
  <2> HIDE DEF d
  <2>3. QED
    BY <1>2, <1>3, <2>1, <2>2, Joined
<1> DEFINE g == e \o <<"fwInit">>
<1> HIDE DEF e
<1>5. GoodPlan(g) /\ Names(g) = Names(d) \cup {"fwLoad", "fwInit"} /\ g # <<>> /\ g[1] = e[1]
  <2>1. \A a \in Names(e) : Fits(a, "fwInit")
    BY <1>2, <1>4 DEF Fits, Rank
  <2>2. Joins(e[Len(e)], "fwInit")
    BY DEF Joins
  <2> HIDE DEF d
  <2>3. QED
    BY <1>3, <1>4, <2>1, <2>2, Joined
<1>6. g = download_locked(update)
  BY DEF g, e, d, download_locked, performDownload
<1> HIDE DEF g
<1>7. /\ GoodPlan(g \o initializeTail) /\ Names(g \o initializeTail) = Names(g) \cup Names(initializeTail)
      /\ g \o initializeTail # <<>> /\ (g \o initializeTail)[1] = g[1]
  <2>1. \A a \in Names(g), b \in Names(initializeTail) : Fits(a, b)
    BY <1>2, <1>5, TailPlan DEF Fits, Rank
  <2>2. Joins(g[Len(g)], initializeTail[1])
    BY TailPlan DEF Joins
  <2>3. QED
    BY <1>5, <2>1, <2>2, Joined, TailPlan
<1>8. QED
  BY <1>2, <1>4, <1>5, <1>6, <1>7, TailPlan
LEMMA Appended ==
    ASSUME NEW p, GoodPlan(p), NEW a \in Words \ Mutex, a \notin {"stop", "seNotified"}, \A x \in Names(p) : Fits(x, a)
    PROVE  /\ GoodPlan(p \o <<a>>) /\ Names(p \o <<a>>) = Names(p) \cup {a} /\ p \o <<a>> # <<>>
           /\ p # <<>> => (p \o <<a>>)[1] = p[1]
<1> DEFINE q == <<a>>
<1>1. GoodPlan(q) /\ Names(q) = {a} /\ q # <<>> /\ q[1] = a
  BY OneStep DEF Mutex
<1> HIDE DEF q
<1>2. \A x \in Names(p), y \in Names(q) : Fits(x, y)
  BY <1>1
<1>3. Joins(p[Len(p)], q[1])
  BY <1>1 DEF Joins, Mutex
<1>4. /\ GoodPlan(p \o q) /\ Names(p \o q) = Names(p) \cup Names(q) /\ p \o q # <<>>
      /\ p # <<>> => (p \o q)[1] = p[1]
  BY <1>1, <1>2, <1>3, Joined
<1>5. QED
  BY <1>1, <1>4 DEF q

LEMMA Prepended ==
    ASSUME NEW p, GoodPlan(p), NEW a \in Words, p # <<>> => Joins(a, p[1]), \A x \in Names(p) : Fits(a, x)
    PROVE  /\ GoodPlan(<<a>> \o p) /\ Names(<<a>> \o p) = ({a} \ Mutex) \cup Names(p) /\ <<a>> \o p # <<>>
           /\ (<<a>> \o p)[1] = a
<1> DEFINE q == <<a>>
<1>1. GoodPlan(q) /\ Names(q) = {a} \ Mutex /\ q # <<>> /\ q[1] = a /\ q[Len(q)] = a
  BY OneStep
<1> HIDE DEF q
<1>2. \A x \in Names(q), y \in Names(p) : Fits(x, y)
  BY <1>1
<1>3. p # <<>> => Joins(q[Len(q)], p[1])
  BY <1>1
<1>4. /\ GoodPlan(q \o p) /\ Names(q \o p) = Names(q) \cup Names(p) /\ q \o p # <<>>
      /\ (q \o p)[1] = q[1]
  BY <1>1, <1>2, <1>3, Joined
<1>5. QED
  BY <1>1, <1>4 DEF q

LEMMA InitializePlan ==
    /\ GoodPlan(initialize) /\ initialize # <<>>
    /\ Names(initialize) = {"configure", "init", "eeprom", "seOff", "llcpConfig", "seListen", "enabled"}
<1> DEFINE h == <<"lock">> \o initializeHead
<1>1. GoodPlan(initializeHead) /\ Names(initializeHead) = {"configure", "init"} /\ initializeHead # <<>>
      /\ initializeHead[1] = "configure"
  <2>1. initializeHead \in Plan
    BY DEF initializeHead, Plan, Words, ServiceLabels, InitLabels
  <2>2. Ordered(initializeHead)
    BY DEF initializeHead, Ordered, Fits, Joins, Rank, Mutex
  <2>3. QED
    BY <2>1, <2>2 DEF initializeHead, GoodPlan, Names, Mutex
<1>2. GoodPlan(h) /\ Names(h) = ({"lock"} \ Mutex) \cup Names(initializeHead) /\ h # <<>>
  <2>1. \A x \in Names(initializeHead) : Fits("lock", x)
    BY DEF Fits, Mutex
  <2>2. Joins("lock", initializeHead[1]) /\ "lock" \in Words
    BY <1>1, MutexWords DEF Joins
  <2>3. QED
    BY <1>1, <2>1, <2>2, Prepended
<1>3. Names(h) = {"configure", "init"}
  BY <1>1, <1>2 DEF Mutex
<1>4. initialize = h \o initializeTail
  BY DEF initialize
<1> HIDE DEF h
<1>5. /\ GoodPlan(h \o initializeTail) /\ Names(h \o initializeTail) = Names(h) \cup Names(initializeTail)
      /\ h \o initializeTail # <<>>
  <2>1. \A a \in Names(h), b \in Names(initializeTail) : Fits(a, b)
    BY <1>3, TailPlan DEF Fits, Rank
  <2>2. Joins(h[Len(h)], initializeTail[1])
    BY TailPlan DEF Joins
  <2>3. QED
    BY <1>2, <2>1, <2>2, Joined, TailPlan
<1>6. QED
  BY <1>3, <1>4, <1>5, TailPlan

LEMMA BootPlan ==
    GoodPlan(doDownload) /\ doDownload # <<>> /\ Names(doDownload) = {"configure", "bootLoad", "unconfigure"}
<1> DEFINE c == <<"configure">>
           d == c \o <<"bootLoad">>
           e == d \o <<"unconfigure">>
<1>1. {"configure", "bootLoad", "unconfigure"} \subseteq Words \ Mutex
  BY DEF Words, ServiceLabels, InitLabels, BootLabels, Mutex
<1>2. GoodPlan(c) /\ Names(c) = {"configure"} /\ c # <<>> /\ c[1] = "configure"
  BY <1>1, OneStep
<1> HIDE DEF c
<1>3. GoodPlan(d) /\ Names(d) = Names(c) \cup {"bootLoad"} /\ d # <<>> /\ d[1] = c[1]
  <2>1. \A x \in Names(c) : Fits(x, "bootLoad")
    BY <1>2 DEF Fits, Rank
  <2>2. QED
    BY <1>1, <1>2, <2>1, Appended
<1> HIDE DEF d
<1>4. GoodPlan(e) /\ Names(e) = Names(d) \cup {"unconfigure"} /\ e # <<>> /\ e[1] = d[1]
  <2>1. \A x \in Names(d) : Fits(x, "unconfigure")
    BY <1>2, <1>3 DEF Fits, Rank
  <2>2. QED
    BY <1>1, <1>3, <2>1, Appended
<1>5. doDownload = Locked(e)
  BY DEF doDownload, performDownload, e, d, c
<1> HIDE DEF e
<1>6. QED
  BY <1>2, <1>3, <1>4, <1>5, LockedPlan DEF Block

\* The routes, and the polling loop.
LEMMA RoutePlans ==
    /\ Block(doSelectSecureElement) /\ Names(doSelectSecureElement) = {"register", "seMode"}
    /\ Block(doDeselectSecureElement) /\ Names(doDeselectSecureElement) = {"register", "seMode"}
    /\ Block(enableDiscovery) /\ Names(enableDiscovery) = {"register", "start"}
    /\ Block(disableDiscovery) /\ Names(disableDiscovery) = {"stop"}
    /\ Block(doEnableReaderMode) /\ Names(doEnableReaderMode) = {"start"}
    /\ Block(doDisableReaderMode) /\ Names(doDisableReaderMode) = {"start"}
<1> DEFINE s == <<"register", "seMode">>
           r == <<"register">>
           e == r \o <<"start">>
<1>1. {"register", "seMode", "start", "stop"} \subseteq Words \ Mutex
  BY DEF Words, ServiceLabels, RouteLabels, Mutex
<1>2. GoodPlan(s) /\ Names(s) = {"register", "seMode"} /\ s # <<>> /\ s[1] = "register"
  <2>1. s \in Plan
    BY <1>1 DEF Plan
  <2>2. Ordered(s)
    BY DEF Ordered, Fits, Joins, Rank, Mutex
  <2>3. QED
    BY <2>1, <2>2 DEF GoodPlan, Names, Mutex
<1>3. GoodPlan(r) /\ Names(r) = {"register"} /\ r # <<>> /\ r[1] = "register"
  BY <1>1, OneStep
<1>4. doSelectSecureElement = Locked(s) /\ doDeselectSecureElement = Locked(s) /\ enableDiscovery = Locked(e)
  BY DEF doSelectSecureElement, doDeselectSecureElement, enableDiscovery, start_discovery_locked
<1> HIDE DEF r, s
<1>5. GoodPlan(e) /\ Names(e) = Names(r) \cup {"start"} /\ e # <<>> /\ e[1] = r[1]
  <2>1. \A x \in Names(r) : Fits(x, "start")
    BY <1>3 DEF Fits, Rank
  <2>2. QED
    BY <1>1, <1>3, <2>1, Appended
<1> HIDE DEF e
<1>6. Block(Locked(s)) /\ Names(Locked(s)) = Names(s) /\ Block(Locked(e)) /\ Names(Locked(e)) = Names(e)
  BY <1>2, <1>3, <1>5, LockedPlan
<1>7. /\ Block(Locked(<<"stop">>)) /\ Names(Locked(<<"stop">>)) = {"stop"}
      /\ Block(Locked(<<"start">>)) /\ Names(Locked(<<"start">>)) = {"start"}
  BY <1>1, LockedStep
<1>8. QED
  BY <1>2, <1>3, <1>4, <1>5, <1>6, <1>7
     DEF disableDiscovery, stop_discovery_locked, doEnableReaderMode, doDisableReaderMode, start_discovery_locked

LEMMA RoutingPlan ==
    ASSUME NEW polling \in BOOLEAN
    PROVE  /\ Block(applyRouting(polling))
           /\ Names(applyRouting(polling)) = {"register", "seMode", IF polling THEN "start" ELSE "stop"}
<1> DEFINE p == IF polling THEN doSelectSecureElement ELSE doDeselectSecureElement
           q == IF polling THEN enableDiscovery ELSE disableDiscovery
<1>1. Block(p) /\ Names(p) = {"register", "seMode"}
  BY RoutePlans
<1>2. Block(q) /\ Names(q) = (IF polling THEN {"register", "start"} ELSE {"stop"})
  BY RoutePlans
<1>3. applyRouting(polling) = p \o q
  BY DEF applyRouting
<1> HIDE DEF p, q
<1>4. \A a \in Names(p), b \in Names(q) : Fits(a, b)
  BY <1>1, <1>2 DEF Fits, Rank
<1>5. Block(p \o q) /\ Names(p \o q) = Names(p) \cup Names(q)
  BY <1>1, <1>2, <1>4, Blocks
<1>6. QED
  BY <1>1, <1>2, <1>3, <1>5

\* The secure element.
OpenNames == {"seCheck", "seField", "seRegister", "seWired", "seNotified", "seConnect", "gpioGet", "gpioSet", "seOpened"}

LEMMA ElementOpens ==
    /\ GoodPlan(doOpenSecureElementConnection) /\ Names(doOpenSecureElementConnection) = OpenNames
    /\ doOpenSecureElementConnection # <<>> /\ doOpenSecureElementConnection[1] = "lock"
<1> DEFINE f == <<"seCheck", "seField", "seRegister", "seWired", "seNotified">>
           c == <<"seConnect">>
           g == <<"gpioGet", "gpioSet">>
           p == Locked(c) \o Locked(g)
           q == Locked(f) \o p
<1>1. OpenNames \subseteq Words \ Mutex
  BY DEF OpenNames, Words, ServiceLabels, OpenLabels, Mutex
<1>2. /\ GoodPlan(f) /\ Names(f) = {"seCheck", "seField", "seRegister", "seWired", "seNotified"}
      /\ f # <<>> /\ f[1] = "seCheck"
  <2>1. f \in Plan
    BY <1>1 DEF Plan, OpenNames
  <2>2. Ordered(f)
    BY DEF Ordered, Fits, Joins, Rank, Mutex
  <2>3. QED
    BY <2>1, <2>2 DEF GoodPlan, Names, Mutex
<1>3. GoodPlan(g) /\ Names(g) = {"gpioGet", "gpioSet"} /\ g # <<>> /\ g[1] = "gpioGet"
  <2>1. g \in Plan
    BY <1>1 DEF Plan, OpenNames
  <2>2. Ordered(g)
    BY DEF Ordered, Fits, Joins, Rank, Mutex
  <2>3. QED
    BY <2>1, <2>2 DEF GoodPlan, Names, Mutex
<1>4. Block(Locked(c)) /\ Names(Locked(c)) = {"seConnect"}
  BY <1>1, LockedStep DEF OpenNames
<1>5. doOpenSecureElementConnection = q \o <<"seOpened">>
  <2>1. findElement = Locked(f) /\ connectElement = p
    BY DEF findElement, connectElement
  <2>2. QED
    BY <2>1 DEF doOpenSecureElementConnection
<1> HIDE DEF f, c, g
<1>6. Block(Locked(f)) /\ Names(Locked(f)) = Names(f) /\ Block(Locked(g)) /\ Names(Locked(g)) = Names(g)
  BY <1>2, <1>3, LockedPlan
<1>7. Block(p) /\ Names(p) = Names(Locked(c)) \cup Names(Locked(g))
  <2>1. \A a \in Names(Locked(c)), b \in Names(Locked(g)) : Fits(a, b)
    BY <1>3, <1>4, <1>6 DEF Fits, Rank
  <2>2. QED
    BY <1>4, <1>6, <2>1, Blocks
<1> HIDE DEF p
<1>8. Block(q) /\ Names(q) = Names(Locked(f)) \cup Names(p)
  <2>1. \A a \in Names(Locked(f)), b \in Names(p) : Fits(a, b)
    BY <1>2, <1>3, <1>4, <1>6, <1>7 DEF Fits, Rank
  <2>2. QED
    BY <1>6, <1>7, <2>1, Blocks
<1> HIDE DEF q
<1>9. /\ GoodPlan(q \o <<"seOpened">>) /\ Names(q \o <<"seOpened">>) = Names(q) \cup {"seOpened"}
      /\ q \o <<"seOpened">> # <<>> /\ (q \o <<"seOpened">>)[1] = q[1]
  <2>1. \A a \in Names(q) : Fits(a, "seOpened")
    BY <1>2, <1>3, <1>4, <1>6, <1>7, <1>8 DEF Fits, Rank
  <2>2. GoodPlan(q) /\ q # <<>> /\ "seOpened" \in Words \ Mutex
    BY <1>1, <1>8 DEF Block, OpenNames
  <2>3. QED
    BY <2>1, <2>2, Appended
<1>10. QED
  BY <1>2, <1>3, <1>4, <1>5, <1>6, <1>7, <1>8, <1>9 DEF OpenNames, Block

LEMMA OpenPlan ==
    ASSUME svc.polling \in BOOLEAN
    PROVE  GoodPlan(Open) /\ Open # <<>> /\ Names(Open) = OpenNames \cup (IF svc.polling THEN {"stop"} ELSE {})
<1> DEFINE o == doOpenSecureElementConnection
           d == IF svc.polling THEN disableDiscovery ELSE <<>>
<1>1. GoodPlan(o) /\ Names(o) = OpenNames /\ o # <<>> /\ o[1] = "lock"
  BY ElementOpens
<1>2. /\ GoodPlan(d) /\ Names(d) = (IF svc.polling THEN {"stop"} ELSE {})
      /\ d # <<>> => d[Len(d)] = "unlock"
  BY RoutePlans, EmptyPlan DEF Block
<1>3. Open = d \o o
  BY DEF Open
<1> HIDE DEF d, o
<1>4. \A a \in Names(d), b \in Names(o) : Fits(a, b)
  BY <1>1, <1>2 DEF Fits, Rank, OpenNames
<1>5. d # <<>> => Joins(d[Len(d)], o[1])
  BY <1>1, <1>2 DEF Joins
<1>6. GoodPlan(d \o o) /\ Names(d \o o) = Names(d) \cup Names(o) /\ d \o o # <<>>
  BY <1>1, <1>2, <1>4, <1>5, Joined
<1>7. QED
  BY <1>1, <1>2, <1>3, <1>6

LEMMA ClosePlan ==
    /\ GoodPlan(seDisconnect) /\ seDisconnect # <<>>
    /\ Names(seDisconnect) = {"seDisconnect", "gpioBack", "gpioClear", "seClosed"}
<1> DEFINE c == <<"seDisconnect">>
           g == <<"gpioBack", "gpioClear">>
           p == Locked(c) \o Locked(g)
<1>1. {"seDisconnect", "gpioBack", "gpioClear", "seClosed"} \subseteq Words \ Mutex
  BY DEF Words, ServiceLabels, CloseLabels, Mutex
<1>2. GoodPlan(g) /\ Names(g) = {"gpioBack", "gpioClear"} /\ g # <<>> /\ g[1] = "gpioBack"
  <2>1. g \in Plan
    BY <1>1 DEF Plan
  <2>2. Ordered(g)
    BY DEF Ordered, Fits, Joins, Rank, Mutex
  <2>3. QED
    BY <2>1, <2>2 DEF GoodPlan, Names, Mutex
<1>3. Block(Locked(c)) /\ Names(Locked(c)) = {"seDisconnect"}
  BY <1>1, LockedStep
<1>4. seDisconnect = p \o <<"seClosed">>
  BY DEF seDisconnect
<1> HIDE DEF c, g
<1>5. Block(Locked(g)) /\ Names(Locked(g)) = Names(g)
  BY <1>2, LockedPlan
<1>6. Block(p) /\ Names(p) = Names(Locked(c)) \cup Names(Locked(g))
  <2>1. \A a \in Names(Locked(c)), b \in Names(Locked(g)) : Fits(a, b)
    BY <1>2, <1>3, <1>5 DEF Fits, Rank
  <2>2. QED
    BY <1>3, <1>5, <2>1, Blocks
<1> HIDE DEF p
<1>7. /\ GoodPlan(p \o <<"seClosed">>) /\ Names(p \o <<"seClosed">>) = Names(p) \cup {"seClosed"}
      /\ p \o <<"seClosed">> # <<>>
  <2>1. \A a \in Names(p) : Fits(a, "seClosed")
    BY <1>2, <1>3, <1>5, <1>6 DEF Fits, Rank
  <2>2. QED
    BY <1>1, <1>6, <2>1, Appended DEF Block
<1>8. QED
  BY <1>2, <1>3, <1>4, <1>5, <1>6, <1>7

\* The plans of one step under the mutex, and what is left after a failure.
LEMMA ShortPlans ==
    /\ \A l \in {"deinit", "seAsk", "ask", "reconnect", "check", "p2pConnect", "resetTimeouts", "start"} :
         Block(Locked(<<l>>)) /\ Names(Locked(<<l>>)) = {l}
    /\ \A l \in {"fwFailed", "initFails", "accepting", "llcp", "activate", "ignored"} :
         GoodPlan(<<l>>) /\ Names(<<l>>) = {l}
    /\ \A l \in {"seFailed", "seClosed"} : GoodPlan(<<"unlock", l>>) /\ Names(<<"unlock", l>>) = {l}
    /\ \A l \in {"lock", "unlock"} : GoodPlan(<<l>>) /\ Names(<<l>>) = {}
    /\ GoodPlan(<<"restart", "unlock", "ignored">>) /\ Names(<<"restart", "unlock", "ignored">>) = {"restart", "ignored"}
    /\ GoodPlan(doAccept) /\ Names(doAccept) = {"accept", "accepting"} /\ doAccept # <<>>
    /\ GoodPlan(<<"lock", "setTimeout", "unlock">>) /\ Names(<<"lock", "setTimeout", "unlock">>) = {"setTimeout"}
<1>1. {"deinit", "seAsk", "ask", "reconnect", "check", "p2pConnect", "resetTimeouts", "start", "fwFailed", "initFails",
       "accept", "accepting", "llcp", "activate", "ignored", "seFailed", "seClosed", "restart", "setTimeout"} \subseteq Words \ Mutex
  BY DEF Words, ServiceLabels, InitLabels, RouteLabels, OpenLabels, CloseLabels, TagLabels, PeerLabels, OtherLabels, Mutex
<1>2. {"lock", "unlock"} \subseteq Words
  BY MutexWords
<1>3. \A l \in {"deinit", "seAsk", "ask", "reconnect", "check", "p2pConnect", "resetTimeouts", "start"} :
         Block(Locked(<<l>>)) /\ Names(Locked(<<l>>)) = {l}
  BY <1>1, LockedStep
<1>4. \A l \in {"fwFailed", "initFails", "accepting", "llcp", "activate", "ignored"} :
         GoodPlan(<<l>>) /\ Names(<<l>>) = {l}
  <2> TAKE l \in {"fwFailed", "initFails", "accepting", "llcp", "activate", "ignored"}
  <2>1. l \in Words /\ {l} \ Mutex = {l}
    BY <1>1
  <2>2. GoodPlan(<<l>>) /\ Names(<<l>>) = {l} \ Mutex
    BY <2>1, OneStep
  <2>3. QED
    BY <2>1, <2>2
<1>5. ASSUME NEW l \in {"seFailed", "seClosed"} PROVE GoodPlan(<<"unlock", l>>) /\ Names(<<"unlock", l>>) = {l}
  <2>1. <<"unlock", l>> \in Plan
    BY <1>1, <1>2 DEF Plan
  <2>2. Ordered(<<"unlock", l>>)
    BY DEF Ordered, Fits, Joins, Mutex
  <2>3. QED
    BY <2>1, <2>2 DEF GoodPlan, Names, Mutex
<1>6. \A l \in {"lock", "unlock"} : GoodPlan(<<l>>) /\ Names(<<l>>) = {}
  <2> TAKE l \in {"lock", "unlock"}
  <2>1. l \in Words /\ {l} \ Mutex = {}
    BY <1>2 DEF Mutex
  <2>2. QED
    BY <2>1, OneStep
<1>7. GoodPlan(<<"restart", "unlock", "ignored">>) /\ Names(<<"restart", "unlock", "ignored">>) = {"restart", "ignored"}
  <2>1. <<"restart", "unlock", "ignored">> \in Plan
    BY <1>1, <1>2 DEF Plan
  <2>2. Ordered(<<"restart", "unlock", "ignored">>)
    BY DEF Ordered, Fits, Joins, Mutex, Rank
  <2>3. QED
    BY <2>1, <2>2 DEF GoodPlan, Names, Mutex
<1>8. GoodPlan(doAccept) /\ Names(doAccept) = {"accept", "accepting"} /\ doAccept # <<>>
  <2>1. doAccept \in Plan
    BY <1>1 DEF Plan, doAccept
  <2>2. Ordered(doAccept)
    BY DEF Ordered, Fits, Joins, Mutex, Rank, doAccept
  <2>3. QED
    BY <2>1, <2>2 DEF GoodPlan, Names, Mutex, doAccept
<1>9. GoodPlan(<<"lock", "setTimeout", "unlock">>) /\ Names(<<"lock", "setTimeout", "unlock">>) = {"setTimeout"}
  <2>1. <<"lock", "setTimeout", "unlock">> \in Plan
    BY <1>1, <1>2 DEF Plan
  <2>2. Ordered(<<"lock", "setTimeout", "unlock">>)
    BY DEF Ordered, Fits, Joins, Mutex, Rank
  <2>3. QED
    BY <2>1, <2>2 DEF GoodPlan, Names, Mutex
<1>10. QED
  BY <1>3, <1>4, <1>5, <1>6, <1>7, <1>8, <1>9

\* Tags and peers.
LEMMA TwoLocked ==
    ASSUME NEW a \in {"connect", "tagDisconnect", "restart", "p2pDisconnect"},
           NEW b \in {"connected", "released"}, b = "connected" <=> a = "connect"
    PROVE  Block(Locked(<<a, b>>)) /\ Names(Locked(<<a, b>>)) = {a, b}
<1> DEFINE s == <<a, b>>
<1>1. GoodPlan(s) /\ Names(s) = {a, b} /\ s # <<>> /\ s[1] = a
  <2>1. s \in Plan
    BY DEF Plan, Words, TagLabels, PeerLabels
  <2>2. Ordered(s)
    BY DEF Ordered, Fits, Joins, Rank, Mutex
  <2>3. QED
    BY <2>1, <2>2 DEF GoodPlan, Names, Mutex
<1> HIDE DEF s
<1>2. Block(Locked(s)) /\ Names(Locked(s)) = Names(s)
  BY <1>1, LockedPlan
<1>3. QED
  BY <1>1, <1>2 DEF s

LEMMA GivesUpPlan ==
    ASSUME NEW mode
    PROVE  /\ GoodPlan(GivesUp(mode)) /\ GivesUp(mode) # <<>>
           /\ Names(GivesUp(mode)) = (IF mode = "target" THEN {"p2pDisconnect", "released"} ELSE {"ignored"})
           /\ GoodPlan(<<"unlock">> \o GivesUp(mode)) /\ Names(<<"unlock">> \o GivesUp(mode)) = Names(GivesUp(mode))
           /\ <<"unlock">> \o GivesUp(mode) # <<>>
<1>1. CASE mode = "target"
  <2>1. GivesUp(mode) = p2pDisconnect
    BY <1>1 DEF GivesUp
  <2>2. Block(p2pDisconnect) /\ Names(p2pDisconnect) = {"p2pDisconnect", "released"}
    BY TwoLocked DEF p2pDisconnect
  <2>3. Joins("unlock", p2pDisconnect[1]) /\ \A x \in Names(p2pDisconnect) : Fits("unlock", x)
    BY <2>2 DEF Joins, Fits, Mutex, Block
  <2>4. /\ GoodPlan(<<"unlock">> \o p2pDisconnect) /\ <<"unlock">> \o p2pDisconnect # <<>>
        /\ Names(<<"unlock">> \o p2pDisconnect) = ({"unlock"} \ Mutex) \cup Names(p2pDisconnect)
    BY <2>2, <2>3, MutexWords, Prepended DEF Block
  <2>5. QED
    BY <1>1, <2>1, <2>2, <2>4 DEF Block, Mutex
<1>2. CASE mode # "target"
  <2> DEFINE p == <<"ignored">>
  <2>1. GivesUp(mode) = p
    BY <1>2 DEF GivesUp
  <2>2. GoodPlan(p) /\ Names(p) = {"ignored"} /\ p # <<>> /\ p[1] = "ignored"
    BY ShortPlans
  <2> HIDE DEF p
  <2>3. Joins("unlock", p[1]) /\ \A x \in Names(p) : Fits("unlock", x)
    BY <2>2 DEF Joins, Fits, Mutex
  <2>4. /\ GoodPlan(<<"unlock">> \o p) /\ <<"unlock">> \o p # <<>>
        /\ Names(<<"unlock">> \o p) = ({"unlock"} \ Mutex) \cup Names(p)
    BY <2>2, <2>3, MutexWords, Prepended
  <2>5. QED
    BY <1>2, <2>1, <2>2, <2>4 DEF Mutex
<1>3. QED
  BY <1>1, <1>2

LEMMA PeerPlan ==
    ASSUME NEW mode
    PROVE  /\ GoodPlan(llcpActivated(mode)) /\ llcpActivated(mode) # <<>>
           /\ Names(llcpActivated(mode)) = {"check", "activate"} \cup (IF mode = "target" THEN {"p2pConnect"} ELSE {})
<1> DEFINE c == IF mode = "target" THEN p2pConnect ELSE <<>>
           d == c \o doCheckLlcp
<1>1. /\ GoodPlan(c) /\ Names(c) = (IF mode = "target" THEN {"p2pConnect"} ELSE {})
      /\ c # <<>> => c[Len(c)] = "unlock"
  <2>1. Block(p2pConnect) /\ Names(p2pConnect) = {"p2pConnect"}
    BY ShortPlans DEF p2pConnect
  <2>2. QED
    BY <2>1, EmptyPlan DEF Block
<1>2. Block(doCheckLlcp) /\ Names(doCheckLlcp) = {"check"}
  BY ShortPlans DEF doCheckLlcp
<1>3. llcpActivated(mode) = d \o <<"activate">>
  BY DEF llcpActivated, doActivateLlcp
<1> HIDE DEF c
<1>4. GoodPlan(d) /\ Names(d) = Names(c) \cup Names(doCheckLlcp) /\ d # <<>>
  <2>1. \A a \in Names(c), b \in Names(doCheckLlcp) : Fits(a, b)
    BY <1>1, <1>2 DEF Fits, Rank
  <2>2. c # <<>> => Joins(c[Len(c)], doCheckLlcp[1])
    BY <1>1, <1>2 DEF Joins, Block
  <2>3. GoodPlan(doCheckLlcp) /\ doCheckLlcp # <<>>
    BY <1>2 DEF Block
  <2>4. GoodPlan(d) /\ Names(d) = Names(c) \cup Names(doCheckLlcp)
    BY <1>1, <2>1, <2>2, <2>3, Joined
  <2>5. d # <<>>
    BY <1>1, <2>1, <2>2, <2>3, Joined
  <2>6. QED
    BY <2>4, <2>5
<1> HIDE DEF d
<1>5. /\ GoodPlan(d \o <<"activate">>) /\ Names(d \o <<"activate">>) = Names(d) \cup {"activate"}
      /\ d \o <<"activate">> # <<>>
  <2>1. \A a \in Names(d) : Fits(a, "activate")
    BY <1>1, <1>2, <1>4 DEF Fits, Rank
  <2>2. "activate" \in Words \ Mutex
    BY DEF Words, PeerLabels, Mutex
  <2>3. QED
    BY <1>4, <2>1, <2>2, Appended
<1>6. QED
  BY <1>1, <1>2, <1>3, <1>4, <1>5

-----------------------------------------------------------------------------
(* Threads and their plans *)

LEMMA TailOf ==
    ASSUME NEW p, GoodPlan(p), p # <<>>
    PROVE  /\ GoodPlan(Tail(p)) /\ Head(p) \in Words /\ Head(p) = p[1]
           /\ Names(p) = ({Head(p)} \cup Names(Tail(p))) \ Mutex
           /\ \A b \in Names(Tail(p)) : Fits(Head(p), b)
           /\ Tail(p) # <<>> => Joins(Head(p), Tail(p)[1])
<1> DEFINE r == Tail(p)
<1>1. /\ p \in Plan /\ Len(p) \in Nat /\ DOMAIN p = 1..Len(p) /\ Len(p) # 0 /\ \A i \in DOMAIN p : p[i] \in Words
      /\ Head(p) = p[1] /\ r \in Plan /\ Len(r) = Len(p) - 1 /\ \A i \in 1..(Len(p) - 1) : r[i] = p[i + 1]
  BY PlanFacts DEF GoodPlan
<1>2. DOMAIN r = 1..(Len(p) - 1) /\ (r = <<>> <=> Len(p) - 1 = 0)
  BY <1>1, PlanFacts
<1> HIDE DEF r
<1>3. \A i \in DOMAIN r : i + 1 \in DOMAIN p /\ r[i] = p[i + 1] /\ i \in DOMAIN p /\ i \in Nat
  BY <1>1, <1>2
<1>4. Ordered(r)
  <2>1. ASSUME NEW i \in DOMAIN r, NEW j \in DOMAIN r, i < j PROVE Fits(r[i], r[j])
    <3>1. i + 1 < j + 1 /\ i + 1 \in DOMAIN p /\ j + 1 \in DOMAIN p
      BY <1>3, <2>1
    <3>2. QED
      BY <1>3, <3>1 DEF GoodPlan, Ordered
  <2>2. ASSUME NEW i \in DOMAIN r, i + 1 \in DOMAIN r PROVE Joins(r[i], r[i + 1])
    <3>1. i + 1 \in DOMAIN p /\ (i + 1) + 1 \in DOMAIN p /\ r[i] = p[i + 1] /\ r[i + 1] = p[(i + 1) + 1]
      BY <1>3, <2>2
    <3>2. QED
      BY <3>1 DEF GoodPlan, Ordered
  <2>3. QED
    BY <2>1, <2>2 DEF Ordered
<1>5. \A b \in Names(r) : Fits(p[1], b)
  <2>1. ASSUME NEW i \in DOMAIN r PROVE Fits(p[1], r[i])
    <3>1. 1 \in DOMAIN p /\ i + 1 \in DOMAIN p /\ 1 < i + 1 /\ r[i] = p[i + 1]
      BY <1>1, <1>2, <1>3
    <3>2. QED
      BY <3>1 DEF GoodPlan, Ordered
  <2>2. QED
    BY <2>1 DEF Names
<1>6. r # <<>> => Joins(p[1], r[1])
  <2>1. ASSUME r # <<>> PROVE 1 \in DOMAIN p /\ 1 + 1 \in DOMAIN p /\ r[1] = p[1 + 1]
    BY <1>1, <1>2, <1>3, <2>1
  <2>2. QED
    BY <2>1 DEF GoodPlan, Ordered
<1>7. Names(p) = ({p[1]} \cup Names(r)) \ Mutex
  <2>1. \A i \in DOMAIN p : i = 1 \/ (i - 1 \in DOMAIN r /\ r[i - 1] = p[i])
    BY <1>1, <1>2, <1>3
  <2>2. 1 \in DOMAIN p
    BY <1>1
  <2>3. QED
    BY <1>3, <2>1, <2>2 DEF Names
<1>8. QED
  BY <1>1, <1>4, <1>5, <1>6, <1>7 DEF GoodPlan, r

LEMMA IdleFacts ==
    /\ IdleThread \in Contexts /\ Orderly(IdleThread) /\ Todo(IdleThread) = {}
    /\ IdleThread.pc = "idle" /\ IdleThread.st = "runs" /\ IdleThread.rest = <<>>
    /\ \A f \in Frames : ~IdleThread.frame[f].sem
<1>1. IdleThread \in Contexts
  BY EmptyPlan DEF IdleThread, NewFrame, Contexts, GoodPlan, Frames
<1>2. QED
  BY <1>1, EmptyPlan DEF IdleThread, NewFrame, Orderly, Todo, GoodPlan, Mutex

(* A thread that goes on with plan p. *)
LEMMA PlannedContext ==
    ASSUME NEW c \in Contexts, NEW p, GoodPlan(p)
    PROVE  LET d == Planned(c, p)
           IN  /\ d \in Contexts /\ Orderly(d) /\ Todo(d) = Names(p) /\ d.st = "runs"
               /\ p = <<>> => d = IdleThread
               /\ p # <<>> => d.pc = p[1] /\ d.rest = Tail(p) /\ d.id = c.id /\ d.tries = c.tries /\ d.frame = c.frame
               /\ d.pc = "idle" => d = IdleThread
<1>1. CASE p = <<>>
  BY <1>1, IdleFacts, EmptyPlan DEF Planned
<1>2. CASE p # <<>>
  <2> DEFINE d == [c EXCEPT !.pc = Head(p), !.rest = Tail(p), !.st = "runs"]
  <2>1. Planned(c, p) = d
    BY <1>2 DEF Planned
  <2>2. /\ GoodPlan(Tail(p)) /\ Head(p) \in Words /\ Head(p) = p[1]
        /\ Names(p) = ({Head(p)} \cup Names(Tail(p))) \ Mutex
        /\ \A b \in Names(Tail(p)) : Fits(Head(p), b)
        /\ Tail(p) # <<>> => Joins(Head(p), Tail(p)[1])
    BY <1>2, TailOf
  <2>3. /\ d.pc = Head(p) /\ d.rest = Tail(p) /\ d.st = "runs" /\ d.id = c.id /\ d.tries = c.tries /\ d.frame = c.frame
        /\ d \in Contexts
    BY <2>2 DEF Contexts, GoodPlan
  <2> HIDE DEF d
  <2>4. Orderly(d) /\ Todo(d) = Names(p)
    <3>1. Names(Tail(p)) \cap Mutex = {}
      BY DEF Names
    <3>2. QED
      BY <2>2, <2>3, <3>1 DEF Orderly, Todo, GoodPlan
  <2>5. d.pc # "idle"
    BY <2>2, <2>3, MutexWords
  <2>6. QED
    BY <1>2, <2>1, <2>2, <2>3, <2>4, <2>5
<1>3. QED
  BY <1>1, <1>2

LEMMA ContextFacts ==
    ASSUME NEW c \in Contexts, Orderly(c)
    PROVE  /\ GoodPlan(c.rest) /\ Names(c.rest) \subseteq Todo(c)
           /\ Todo(c) = ({c.pc} \ Mutex) \cup Names(c.rest)
           /\ Todo(c) \subseteq Words \ Mutex
<1>1. GoodPlan(c.rest) /\ c.pc \in Words \cup {"idle"}
  BY DEF Contexts, Orderly, GoodPlan
<1>2. Names(c.rest) \subseteq Words \ Mutex
  BY <1>1, NamesInWords DEF GoodPlan
<1>3. QED
  BY <1>1, <1>2 DEF Todo, Mutex

LEMMA LeastExists ==
    ASSUME NEW S, S \subseteq Nat, S # {}
    PROVE  \E i \in S : \A j \in S : i <= j
<1>1. PICK n \in S : \A m \in S : ~(<<m, n>> \in OpToRel(<, Nat))
  BY WFMin, NatLessThanWellFounded
<1>2. ASSUME NEW j \in S PROVE n <= j
  <2>1. n \in Nat /\ j \in Nat /\ ~(<<j, n>> \in OpToRel(<, Nat))
    BY <1>1
  <2>2. ~(j < n)
    BY <2>1 DEF OpToRel
  <2>3. n \in Nat /\ j \in Nat
    BY <2>1
  <2>4. QED
    BY <2>2, <2>3
<1>3. QED
  BY <1>2

LEMMA SuffixFacts ==
    ASSUME NEW p \in Plan, NEW k \in 1..Len(p)
    PROVE  LET q == SubSeq(p, k, Len(p))
           IN  q \in Plan /\ Len(q) = Len(p) - k + 1 /\ \A i \in 1..Len(q) : q[i] = p[i + k - 1]
BY DEF Plan

(* goto clean_and_return skips steps, but never the one that turns the loop *)
(* off: it stands behind a mutex taken again.                               *)
LEMMA CleanupPlan ==
    ASSUME NEW t, thread[t] \in Contexts, Orderly(thread[t])
    PROVE  /\ GoodPlan(Cleanup(t)) /\ Names(Cleanup(t)) \subseteq Names(thread[t].rest)
           /\ thread[t].pc = "register" /\ "stop" \in Names(thread[t].rest) => "stop" \in Names(Cleanup(t))
           /\ \A a \in Names(Cleanup(t)), b \in Names(thread[t].rest) : Rank(a) < Rank(b) => b \in Names(Cleanup(t))
<1> DEFINE rest == thread[t].rest
           ends == {i \in DOMAIN rest : rest[i] = "unlock"}
<1>1. GoodPlan(rest) /\ rest \in Plan /\ Len(rest) \in Nat /\ DOMAIN rest = 1..Len(rest)
  BY ContextFacts, PlanFacts DEF GoodPlan
<1>2. CASE ends = {}
  <2>1. Cleanup(t) = rest
    BY <1>2 DEF Cleanup
  <2>2. QED
    BY <1>1, <2>1
<1>3. CASE ends # {}
  <2> DEFINE k == CHOOSE i \in ends : \A j \in ends : i <= j
             q == SubSeq(rest, k, Len(rest))
  <2>1. k \in ends /\ \A j \in ends : k <= j
    <3>1. \E i \in ends : \A j \in ends : i <= j
      <4>1. ends \subseteq Nat
        BY <1>1
      <4> HIDE DEF ends
      <4>2. QED
        BY <1>3, <4>1, LeastExists
    <3>2. QED
      BY <3>1
  <2>2. Cleanup(t) = q
    BY <1>3 DEF Cleanup
  <2>3. k \in 1..Len(rest) /\ rest[k] = "unlock"
    BY <1>1, <2>1
  <2> HIDE DEF k
  <2>4. q \in Plan /\ Len(q) = Len(rest) - k + 1 /\ \A i \in 1..Len(q) : q[i] = rest[i + k - 1]
    BY <1>1, <2>3, SuffixFacts
  <2>5. DOMAIN q = 1..(Len(rest) - k + 1) /\ \A i \in DOMAIN q : i + k - 1 \in DOMAIN rest /\ q[i] = rest[i + k - 1]
    BY <1>1, <2>3, <2>4, PlanFacts
  <2> HIDE DEF q
  <2>6. Ordered(q)
    <3>1. ASSUME NEW i \in DOMAIN q, NEW j \in DOMAIN q, i < j PROVE Fits(q[i], q[j])
      <4>1. i + k - 1 < j + k - 1
        BY <1>1, <2>3, <2>5, <3>1
      <4>2. QED
        BY <1>1, <2>5, <4>1 DEF GoodPlan, Ordered
    <3>2. ASSUME NEW i \in DOMAIN q, i + 1 \in DOMAIN q PROVE Joins(q[i], q[i + 1])
      <4>1. (i + k - 1) + 1 = (i + 1) + k - 1
        BY <2>3, <2>5
      <4>2. QED
        BY <1>1, <2>5, <3>2, <4>1 DEF GoodPlan, Ordered
    <3>3. QED
      BY <3>1, <3>2 DEF Ordered
  <2>7. Names(q) \subseteq Names(rest)
    BY <2>5 DEF Names
  <2>8. ASSUME thread[t].pc = "register", NEW s \in DOMAIN rest, rest[s] = "stop"
        PROVE  "stop" \in Names(q)
    <3>1. s > 1 /\ s - 1 \in DOMAIN rest /\ (s - 1) + 1 = s
      <4>1. s # 1
        BY <1>1, <2>8 DEF Orderly, Joins
      <4>2. QED
        BY <1>1, <4>1
    <3>2. rest[s - 1] = "lock"
      BY <1>1, <2>8, <3>1 DEF GoodPlan, Ordered, Joins
    <3>3. s - 1 > 1 /\ s - 2 \in DOMAIN rest /\ (s - 2) + 1 = s - 1
      <4>1. s - 1 # 1
        <5>1. rest # <<>>
          BY <1>1, <3>1
        <5>2. QED
          BY <2>8, <3>2, <5>1 DEF Orderly, Joins
      <4>2. QED
        BY <1>1, <3>1, <4>1
    <3>4. rest[s - 2] = "unlock"
      BY <1>1, <3>2, <3>3 DEF GoodPlan, Ordered, Joins
    <3>5. k <= s - 2
      BY <2>1, <3>3, <3>4
    <3>6. s - k + 1 \in DOMAIN q /\ (s - k + 1) + k - 1 = s
      <4>1. s \in Nat /\ s <= Len(rest) /\ k \in Nat /\ k <= s - 2
        BY <1>1, <2>3, <3>5
      <4>2. s - k + 1 \in 1..(Len(rest) - k + 1) /\ (s - k + 1) + k - 1 = s
        BY <1>1, <4>1
      <4>3. QED
        BY <2>5, <4>2
    <3>7. q[s - k + 1] = "stop"
      BY <2>5, <2>8, <3>6
    <3>8. QED
      BY <3>6, <3>7 DEF Names, Mutex
  <2>9. ASSUME NEW a \in Names(q), NEW b \in Names(rest), Rank(a) < Rank(b)
        PROVE  b \in Names(q)
    <3>1. PICK i \in DOMAIN q : a = q[i]
      BY DEF Names
    <3>2. PICK j \in DOMAIN rest : b = rest[j]
      BY DEF Names
    <3>3. i + k - 1 \in DOMAIN rest /\ a = rest[i + k - 1] /\ i >= 1 /\ i \in Nat /\ j \in Nat /\ j <= Len(rest)
      BY <1>1, <2>5, <3>1, <3>2
    <3>4. ~(j < i + k - 1)
      <4>1. j < i + k - 1 => Fits(b, a)
        BY <1>1, <3>2, <3>3 DEF GoodPlan, Ordered
      <4>2. ~Fits(b, a)
        <5>1. Rank(a) \in Nat /\ Rank(b) \in Nat
          BY DEF Rank
        <5>2. ~(Rank(b) < Rank(a))
          BY <2>9, <5>1
        <5>3. ~({b, a} \subseteq {"register", "seMode"})
          BY <2>9 DEF Rank
        <5>4. a \notin Mutex /\ b \notin Mutex
          BY DEF Names
        <5>5. QED
          BY <5>2, <5>3, <5>4 DEF Fits
      <4>3. QED
        BY <4>1, <4>2
    <3>5. j - k + 1 \in DOMAIN q /\ (j - k + 1) + k - 1 = j
      <4>1. k \in Nat /\ j >= k
        BY <2>3, <3>3, <3>4, <1>1
      <4>2. j - k + 1 \in 1..(Len(rest) - k + 1) /\ (j - k + 1) + k - 1 = j
        BY <1>1, <3>3, <4>1
      <4>3. QED
        BY <2>5, <4>2
    <3>6. q[j - k + 1] = b
      BY <2>5, <3>2, <3>5
    <3>7. QED
      BY <3>5, <3>6 DEF Names
  <2>10. QED
    BY <2>2, <2>4, <2>6, <2>7, <2>8, <2>9 DEF GoodPlan, Names
<1>4. QED
  BY <1>2, <1>3

(* What a call still does after a failure, by the request that failed. *)
FailNames(t, refused) ==
    LET l == thread[t].pc
        R == Names(thread[t].rest)
    IN CASE l = "init" -> {"fwLoad", "fwInit", "eeprom", "seOff", "llcpConfig", "seListen", "enabled"}
         [] l \in {"fwLoad", "fwInit"} -> {"fwFailed"}
         [] l = "eeprom" \/ (l \in {"seOff", "llcpConfig"} /\ refused) -> {"initFails"}
         [] l \in OpenAsks -> {"seFailed"}
         [] l \in CloseAsks -> {"seClosed"}
         [] l = "p2pConnect" -> {"restart", "ignored"}
         [] l = "check" -> IF eps[t] = "target" THEN {"p2pDisconnect", "released"} ELSE {"ignored"}
         [] l = "accepting" -> {"accept", "accepting"}
         [] l \in {"tagDisconnect", "p2pDisconnect"} /\ refused /\ (lib.on => lib.conn) -> {"restart"} \cup R
         [] OTHER -> R

LEMMA RestartFirst ==
    ASSUME NEW t, thread[t] \in Contexts, Orderly(thread[t]), thread[t].pc \in {"tagDisconnect", "p2pDisconnect"}
    PROVE  LET p == <<"restart">> \o thread[t].rest
           IN  GoodPlan(p) /\ Names(p) = {"restart"} \cup Names(thread[t].rest)
<1> DEFINE rest == thread[t].rest
<1>1. GoodPlan(rest) /\ Names(rest) \subseteq Words \ Mutex
  BY ContextFacts, NamesInWords DEF GoodPlan
<1>2. rest # <<>> => Joins("restart", rest[1])
  BY DEF Orderly, Joins
<1>3. \A x \in Names(rest) : Fits("restart", x)
  <2>1. Rank("restart") = 2 /\ Rank("tagDisconnect") = 2 /\ Rank("p2pDisconnect") = 2
    BY DEF Rank
  <2>2. QED
    BY <1>1, <2>1 DEF Orderly, Fits, Mutex
<1>4. "restart" \in Words /\ {"restart"} \ Mutex = {"restart"}
  BY DEF Words, TagLabels, Mutex
<1> HIDE DEF rest
<1>5. GoodPlan(<<"restart">> \o rest) /\ Names(<<"restart">> \o rest) = ({"restart"} \ Mutex) \cup Names(rest)
  BY <1>1, <1>2, <1>3, <1>4, Prepended
<1>6. QED
  BY <1>4, <1>5 DEF rest

LEMMA FailedPlan ==
    ASSUME NEW t, thread[t] \in Contexts, Orderly(thread[t]), thread[t].pc \in Requests, NEW refused \in BOOLEAN
    PROVE  /\ GoodPlan(Failed(t, refused))
           /\ thread[t].pc # "connect" => Names(Failed(t, refused)) = FailNames(t, refused)
           /\ thread[t].pc = "connect" => Names(Failed(t, refused)) \subseteq Names(thread[t].rest)
<1> DEFINE l == thread[t].pc
           rest == thread[t].rest
           F == Failed(t, refused)
<1>1. GoodPlan(rest)
  BY ContextFacts
<1>2. CASE l = "init"
  <2>1. F = download_locked(FALSE) \o initializeTail
    BY <1>2 DEF Failed, ManagerAsks, OpenAsks, CloseAsks, ManagerFails
  <2>2. FailNames(t, refused) = {"fwLoad", "fwInit", "eeprom", "seOff", "llcpConfig", "seListen", "enabled"}
    BY <1>2 DEF FailNames, OpenAsks, CloseAsks
  <2>3. /\ GoodPlan(download_locked(FALSE) \o initializeTail)
        /\ Names(download_locked(FALSE) \o initializeTail)
             = {"fwLoad", "fwInit", "eeprom", "seOff", "llcpConfig", "seListen", "enabled"}
    BY DownloadPlan
  <2>4. QED
    BY <1>2, <2>1, <2>2, <2>3
<1>3. CASE l \in {"fwLoad", "fwInit"}
  <2>1. F = <<"fwFailed">>
    BY <1>3 DEF Failed, ManagerAsks, OpenAsks, CloseAsks, ManagerFails
  <2>2. QED
    BY <1>3, <2>1, ShortPlans DEF FailNames, OpenAsks, CloseAsks
<1>4. CASE l = "eeprom" \/ (l \in {"seOff", "llcpConfig"} /\ refused)
  <2>1. F = <<"initFails">>
    BY <1>4 DEF Failed, ManagerAsks, OpenAsks, CloseAsks, ManagerFails
  <2>2. QED
    BY <1>4, <2>1, ShortPlans DEF FailNames, OpenAsks, CloseAsks
<1>5. CASE l \in OpenAsks
  <2>1. F = <<"unlock", "seFailed">>
    BY <1>5 DEF Failed, ManagerAsks, ElementFails, OpenAsks, CloseAsks
  <2>2. QED
    BY <1>5, <2>1, ShortPlans DEF FailNames, OpenAsks, CloseAsks
<1>6. CASE l \in CloseAsks
  <2>1. F = <<"unlock", "seClosed">>
    BY <1>6 DEF Failed, ManagerAsks, ElementFails, OpenAsks, CloseAsks
  <2>2. QED
    BY <1>6, <2>1, ShortPlans DEF FailNames, OpenAsks, CloseAsks
<1>7. CASE l = "p2pConnect"
  <2>1. F = <<"restart", "unlock", "ignored">>
    BY <1>7 DEF Failed, ManagerAsks, OpenAsks, CloseAsks, PeerFails
  <2>2. QED
    BY <1>7, <2>1, ShortPlans DEF FailNames, OpenAsks, CloseAsks
<1>8. CASE l = "check"
  <2>1. F = <<"unlock">> \o GivesUp(eps[t])
    BY <1>8 DEF Failed, ManagerAsks, OpenAsks, CloseAsks, PeerFails
  <2>2. FailNames(t, refused) = IF eps[t] = "target" THEN {"p2pDisconnect", "released"} ELSE {"ignored"}
    BY <1>8 DEF FailNames, OpenAsks, CloseAsks
  <2>3. /\ GoodPlan(<<"unlock">> \o GivesUp(eps[t]))
        /\ Names(<<"unlock">> \o GivesUp(eps[t])) = IF eps[t] = "target" THEN {"p2pDisconnect", "released"} ELSE {"ignored"}
    BY GivesUpPlan
  <2>4. QED
    BY <1>8, <2>1, <2>2, <2>3
<1>9. CASE l = "accepting"
  <2>1. F = doAccept
    BY <1>9 DEF Failed, ManagerAsks, OpenAsks, CloseAsks, SocketFails
  <2>2. QED
    BY <1>9, <2>1, ShortPlans DEF FailNames, OpenAsks, CloseAsks
<1>10. CASE l \in {"tagDisconnect", "p2pDisconnect"} /\ refused /\ (lib.on => lib.conn)
  <2>1. F = <<"restart">> \o rest
    BY <1>10 DEF Failed, ManagerAsks, OpenAsks, CloseAsks, TagFails, PeerFails
  <2>2. FailNames(t, refused) = {"restart"} \cup Names(rest)
    BY <1>10 DEF FailNames, OpenAsks, CloseAsks
  <2>3. QED
    BY <1>10, <2>1, <2>2, RestartFirst
<1>11. CASE l = "connect"
  <2>1. F = Cleanup(t)
    BY <1>11 DEF Failed, ManagerAsks, OpenAsks, CloseAsks, TagFails
  <2>2. QED
    BY <1>11, <2>1, CleanupPlan
<1>12. CASE \/ l \in {"start", "restart", "stop", "seMode", "fwDeinit", "bootLoad", "deinit", "seAsk", "reconnect",
                     "ask", "llcp"}
            \/ l \in {"seOff", "llcpConfig"} /\ ~refused
            \/ l \in {"tagDisconnect", "p2pDisconnect"} /\ ~(refused /\ (lib.on => lib.conn))
  <2>1. F = rest
    BY <1>12 DEF Failed, ManagerAsks, OpenAsks, CloseAsks, TagFails, PeerFails, SocketFails, ElementFails, ManagerFails
  <2>2. FailNames(t, refused) = Names(rest) /\ l # "connect"
    BY <1>12 DEF FailNames, OpenAsks, CloseAsks
  <2>3. QED
    BY <1>1, <2>1, <2>2
<1>13. QED
  BY <1>2, <1>3, <1>4, <1>5, <1>6, <1>7, <1>8, <1>9, <1>10, <1>11, <1>12 DEF Requests, ManagerAsks


-----------------------------------------------------------------------------
(* Types *)

EpStates == {"free", "found", "target", "initiator", "connected", "upTarget", "upInitiator", "lost", "done"}

ThreadOK(t) ==
    /\ Orderly(thread[t])
    /\ Todo(thread[t]) \subseteq RoleLabels(t)
    /\ thread[t].pc = "idle" \/ t \notin roles => thread[t] = IdleThread
    /\ thread[t].pc # "idle" => thread[t].id \in 1..calls
    /\ thread[t].st = "waits" => thread[t].pc \in Requests
    /\ thread[t].st = "cond" => thread[t].pc = "accept"

ContextInv ==
    /\ roles \in RoleSets /\ calls \in Nat
    /\ thread \in [Threads -> Contexts]
    /\ \A t \in Threads : ThreadOK(t)

MsgType ==
    \A m \in msgs :
      /\ m \in [to : roles, id : 1..calls, tries : Nat, what : Requests]
      /\ m.what \in RoleLabels(m.to)

NatOK ==
    /\ DOMAIN nat = {"driver", "clients", "kill", "flag", "data", "timeouts", "asked"}
    /\ nat.driver \in BOOLEAN /\ nat.clients \in Nat /\ nat.kill \in BOOLEAN /\ nat.flag \in BOOLEAN
    /\ nat.data \in {"none", "alive", "freed"}
LibOK ==
    lib \in [on : BOOLEAN, cfg : BOOLEAN, listener : {"none", "se", "discovery"}, target : Threads \cup {None},
             passive : BOOLEAN, conn : BOOLEAN, wired : BOOLEAN,
             link : {"none", "checked", "activating", "up", "lost"}]
SvcOK == svc \in [on : BOOLEAN, polling : BOOLEAN, ee : BOOLEAN, restore : BOOLEAN]
TypeInv == NatOK /\ LibOK /\ SvcOK /\ eps \in [Threads -> EpStates]

Shape == ContextInv /\ MsgType /\ TypeInv

-----------------------------------------------------------------------------
(* What a step does to the thread that takes it *)

\* The answer has come that the thread waits for.
Answered(c) == c.st = "waits" /\ c.frame[FrameOf(c.pc)].sem

\* The thread goes on with plan p: a status seen is not seen again.
Moves(t, p) ==
    LET c == thread[t]
        d == thread'[t]
    IN  /\ \A u \in Threads : u # t => thread'[u] = thread[u]
        /\ d.st = "runs" /\ Todo(d) = Names(p)
        /\ p = <<>> => d = IdleThread
        /\ p # <<>> =>
             /\ d.pc = p[1] /\ d.rest = Tail(p) /\ d.id = c.id
             /\ c.pc # "fwFailed" => d.tries = c.tries
             /\ \A f \in {"call", "notified"} :
                  d.frame[f].sem = (c.frame[f].sem /\ ~(Answered(c) /\ f = FrameOf(c.pc)))

(* The same plan, asleep. *)
Sleeps(t, st) ==
    LET c == thread[t]
        d == thread'[t]
    IN  /\ \A u \in Threads : u # t => thread'[u] = thread[u]
        /\ d.st = st /\ d.pc = c.pc /\ d.rest = c.rest /\ d.id = c.id /\ d.tries = c.tries /\ d.frame = c.frame

LEMMA ThreadsOfRoles == ASSUME ContextInv PROVE roles \subseteq Threads
BY RolesAssumption DEF ContextInv

(* A thread that works on, as d. *)
LEMMA WorksOn ==
    ASSUME ContextInv, NEW t \in roles, thread[t].pc # "idle", UNCHANGED <<roles, calls>>,
           NEW d \in Contexts, thread' = [thread EXCEPT ![t] = d],
           Orderly(d), Todo(d) \subseteq RoleLabels(t), d.pc = "idle" => d = IdleThread,
           d.pc # "idle" => d.id = thread[t].id,
           d.st = "waits" => d.pc \in Requests, d.st = "cond" => d.pc = "accept"
    PROVE  ContextInv' /\ thread'[t] = d /\ \A u \in Threads : u # t => thread'[u] = thread[u]
<1>1. t \in Threads
  BY ThreadsOfRoles
<1>2. thread' \in [Threads -> Contexts] /\ thread'[t] = d /\ \A u \in Threads : u # t => thread'[u] = thread[u]
  BY <1>1 DEF ContextInv
<1>3. d.pc # "idle" => d.id \in 1..calls
  BY <1>1 DEF ContextInv, ThreadOK
<1>4. ASSUME NEW u \in Threads PROVE ThreadOK(u)'
  <2>1. CASE u = t
    BY <1>2, <1>3, <2>1 DEF ThreadOK
  <2>2. CASE u # t
    BY <1>2, <2>2 DEF ThreadOK, ContextInv
  <2>3. QED
    BY <2>1, <2>2
<1>5. QED
  BY <1>2, <1>4 DEF ContextInv

LEMMA LeaveMoves ==
    ASSUME ContextInv, NEW t \in roles, ~Answered(thread[t]), NEW p, GoodPlan(p), Names(p) \subseteq RoleLabels(t),
           thread[t].pc # "idle", Leave(t, p), UNCHANGED <<roles, calls>>
    PROVE  ContextInv' /\ Moves(t, p)
<1> DEFINE c == thread[t]
           d == Planned(c, p)
<1>1. t \in Threads /\ c \in Contexts
  BY ThreadsOfRoles DEF ContextInv
<1>2. /\ d \in Contexts /\ Orderly(d) /\ Todo(d) = Names(p) /\ d.st = "runs"
      /\ p = <<>> => d = IdleThread
      /\ p # <<>> => d.pc = p[1] /\ d.rest = Tail(p) /\ d.id = c.id /\ d.tries = c.tries /\ d.frame = c.frame
      /\ d.pc = "idle" => d = IdleThread
  BY <1>1, PlannedContext
<1>3. thread' = [thread EXCEPT ![t] = d]
  BY DEF Leave
<1>4. p = <<>> => d.pc = "idle"
  BY <1>2, IdleFacts
<1> HIDE DEF d
<1>5. ContextInv' /\ thread'[t] = d /\ \A u \in Threads : u # t => thread'[u] = thread[u]
  BY <1>1, <1>2, <1>3, <1>4, WorksOn
<1>6. c.frame["call"].sem \in BOOLEAN /\ c.frame["notified"].sem \in BOOLEAN
  BY <1>1 DEF Contexts, Frames
<1>7. Moves(t, p)
  BY <1>2, <1>5, <1>6 DEF Moves
<1>8. QED
  BY <1>5, <1>7

LEMMA GoesMoves ==
    ASSUME ContextInv, NEW t \in roles, Woken(t), NEW p, GoodPlan(p), Names(p) \subseteq RoleLabels(t), Goes(t, p)
    PROVE  ContextInv' /\ Moves(t, p) /\ thread[t].pc \in Requests
<1> DEFINE c == thread[t]
           e == [c EXCEPT !.frame[FrameOf(c.pc)].sem = FALSE]
           d == Planned(e, p)
<1>1. t \in Threads /\ c \in Contexts /\ FrameOf(c.pc) \in Frames /\ Answered(c)
  BY ThreadsOfRoles DEF ContextInv, FrameOf, Frames, Woken, Answered
<1>2. /\ e \in Contexts /\ e.id = c.id /\ e.tries = c.tries
      /\ \A f \in Frames : e.frame[f].sem = (c.frame[f].sem /\ f # FrameOf(c.pc))
  BY <1>1 DEF Contexts
<1>3. c.pc \in Requests /\ c.pc # "idle"
  BY <1>1 DEF ContextInv, ThreadOK, Woken, Requests, ManagerAsks, OpenAsks, CloseAsks
<1>4. thread' = [thread EXCEPT ![t] = d] /\ UNCHANGED <<roles, calls>>
  BY DEF Goes, Silent, bounds
<1> HIDE DEF e
<1>5. /\ d \in Contexts /\ Orderly(d) /\ Todo(d) = Names(p) /\ d.st = "runs"
      /\ p = <<>> => d = IdleThread
      /\ p # <<>> => d.pc = p[1] /\ d.rest = Tail(p) /\ d.id = e.id /\ d.tries = e.tries /\ d.frame = e.frame
      /\ d.pc = "idle" => d = IdleThread
  BY <1>2, PlannedContext
<1>6. p = <<>> => d.pc = "idle"
  BY <1>5, IdleFacts
<1> HIDE DEF d
<1>7. ContextInv' /\ thread'[t] = d /\ \A u \in Threads : u # t => thread'[u] = thread[u]
  BY <1>1, <1>2, <1>3, <1>4, <1>5, <1>6, WorksOn
<1>8. \A f \in {"call", "notified"} : e.frame[f].sem = (c.frame[f].sem /\ ~(Answered(c) /\ f = FrameOf(c.pc)))
  BY <1>1, <1>2 DEF Frames
<1>9. Moves(t, p)
  BY <1>2, <1>5, <1>7, <1>8 DEF Moves
<1>10. QED
  BY <1>3, <1>7, <1>9

LEMMA SleepsOn ==
    ASSUME ContextInv, NEW t \in roles, NEW st \in {"waits", "cond"}, thread[t].pc # "idle",
           thread' = [thread EXCEPT ![t].st = st], UNCHANGED <<roles, calls>>,
           st = "waits" => thread[t].pc \in Requests, st = "cond" => thread[t].pc = "accept"
    PROVE  ContextInv' /\ Sleeps(t, st)
<1> DEFINE c == thread[t]
           d == [c EXCEPT !.st = st]
<1>1. t \in Threads /\ c \in Contexts /\ Orderly(c) /\ Todo(c) \subseteq RoleLabels(t)
  BY ThreadsOfRoles DEF ContextInv, ThreadOK
<1>2. /\ d \in Contexts /\ d.st = st /\ d.pc = c.pc /\ d.rest = c.rest /\ d.id = c.id /\ d.tries = c.tries
      /\ d.frame = c.frame
  BY <1>1 DEF Contexts
<1>3. thread' = [thread EXCEPT ![t] = d]
  BY <1>1 DEF ContextInv
<1> HIDE DEF d
<1>4. Orderly(d) /\ Todo(d) = Todo(c)
  BY <1>1, <1>2 DEF Orderly, Todo
<1>5. ContextInv' /\ thread'[t] = d /\ \A u \in Threads : u # t => thread'[u] = thread[u]
  BY <1>1, <1>2, <1>3, <1>4, WorksOn
<1>6. QED
  BY <1>2, <1>5 DEF Sleeps

\* A call begins.
Starts(t, p) ==
    LET d == thread'[t]
    IN  /\ thread[t] = IdleThread /\ calls' = calls + 1 /\ UNCHANGED <<roles, msgs>>
        /\ \A u \in Threads : u # t => thread'[u] = thread[u]
        /\ d.st = "runs" /\ Todo(d) = Names(p) /\ d.pc = p[1] /\ d.rest = Tail(p) /\ d.id = calls + 1 /\ d.tries = 0
        /\ \A f \in Frames : ~d.frame[f].sem

\* An answer comes.
Posts(m, good) ==
    LET c == thread[m.to]
        d == thread'[m.to]
    IN  /\ \A u \in Threads : u # m.to => thread'[u] = thread[u]
        /\ ~Alive(m) => d = c
        /\ Alive(m) =>
             /\ d.pc = c.pc /\ d.st = c.st /\ d.rest = c.rest /\ d.id = c.id /\ d.tries = c.tries
             /\ \A f \in Frames :
                  d.frame[f] = IF f = FrameOf(m.what) THEN [sem |-> TRUE, ok |-> good] ELSE c.frame[f]

\* The threads that sleep on the condition of the incoming sockets run.
Stirs ==
    \A u \in Threads :
      /\ thread[u].st # "cond" => thread'[u] = thread[u]
      /\ thread[u].st = "cond" =>
           LET c == thread[u]
               d == thread'[u]
           IN  d.st = "runs" /\ d.pc = c.pc /\ d.rest = c.rest /\ d.id = c.id /\ d.tries = c.tries /\ d.frame = c.frame

LEMMA BeginStarts ==
    ASSUME ContextInv, NEW t, NEW p, GoodPlan(p), p # <<>>, Names(p) \subseteq RoleLabels(t), Begin(t, p)
    PROVE  ContextInv' /\ Starts(t, p) /\ t \in roles
<1> DEFINE e == [IdleThread EXCEPT !.id = calls + 1]
           d == Planned(e, p)
<1>1. t \in roles /\ t \in Threads /\ thread[t] = IdleThread /\ calls \in Nat
  BY ThreadsOfRoles DEF Begin, Working, ContextInv, ThreadOK
<1>2. /\ e \in Contexts /\ e.id = calls + 1 /\ e.tries = 0 /\ \A f \in Frames : ~e.frame[f].sem
  <2>1. e \in Contexts /\ e.id = calls + 1 /\ e.frame = IdleThread.frame /\ e.tries = IdleThread.tries
    BY <1>1, IdleFacts DEF Contexts
  <2>2. IdleThread.tries = 0
    BY DEF IdleThread
  <2>3. QED
    BY <2>1, <2>2, IdleFacts
<1>3. thread' = [thread EXCEPT ![t] = d] /\ calls' = calls + 1 /\ UNCHANGED <<roles, msgs>>
  BY DEF Begin
<1> HIDE DEF e
<1>4. /\ d \in Contexts /\ Orderly(d) /\ Todo(d) = Names(p) /\ d.st = "runs"
      /\ d.pc = p[1] /\ d.rest = Tail(p) /\ d.id = e.id /\ d.tries = e.tries /\ d.frame = e.frame
      /\ d.pc = "idle" => d = IdleThread
  BY <1>2, PlannedContext
<1> HIDE DEF d
<1>5. thread' \in [Threads -> Contexts] /\ thread'[t] = d /\ \A u \in Threads : u # t => thread'[u] = thread[u]
  BY <1>1, <1>3, <1>4 DEF ContextInv
<1>6. ASSUME NEW u \in Threads PROVE ThreadOK(u)'
  <2>1. CASE u = t
    BY <1>1, <1>2, <1>3, <1>4, <1>5, <2>1 DEF ThreadOK
  <2>2. CASE u # t
    <3>1. ThreadOK(u) /\ thread'[u] = thread[u]
      BY <1>5, <2>2 DEF ContextInv
    <3>2. thread[u].pc # "idle" => thread[u].id \in 1..calls'
      BY <1>1, <1>3, <3>1 DEF ThreadOK
    <3>3. QED
      BY <1>3, <3>1, <3>2 DEF ThreadOK
  <2>3. QED
    BY <2>1, <2>2
<1>7. ContextInv'
  BY <1>1, <1>3, <1>5, <1>6 DEF ContextInv
<1>8. Starts(t, p)
  BY <1>1, <1>2, <1>3, <1>4, <1>5 DEF Starts
<1>9. QED
  BY <1>1, <1>7, <1>8

LEMMA MessageFacts ==
    ASSUME Shape, NEW m \in msgs
    PROVE  /\ m.to \in roles /\ m.to \in Threads /\ m.id \in 1..calls /\ m.what \in Requests /\ m.tries \in Nat
           /\ FrameOf(m.what) \in Frames
           /\ Alive(m) => thread[m.to].pc # "idle"
<1>1. m.to \in roles /\ m.to \in Threads /\ m.id \in 1..calls /\ m.what \in Requests /\ m.tries \in Nat
  BY ThreadsOfRoles DEF Shape, MsgType
<1>2. IdleThread.id = 0
  BY DEF IdleThread
<1>3. Alive(m) => thread[m.to].pc # "idle"
  BY <1>1, <1>2 DEF Alive, Shape, ContextInv, ThreadOK
<1>4. QED
  BY <1>1, <1>3 DEF FrameOf, Frames

LEMMA PostPosts ==
    ASSUME Shape, NEW m \in msgs, NEW good \in BOOLEAN, Post(m, good)
    PROVE  ContextInv' /\ Posts(m, good)
<1> DEFINE t == m.to
           c == thread[t]
           d == [c EXCEPT !.frame[FrameOf(m.what)] = [sem |-> TRUE, ok |-> good]]
<1>1. t \in roles /\ t \in Threads /\ c \in Contexts /\ FrameOf(m.what) \in Frames /\ (Alive(m) => c.pc # "idle")
  BY MessageFacts DEF Shape, ContextInv
<1>2. UNCHANGED <<roles, calls>> /\ (~Alive(m) => UNCHANGED thread)
  BY DEF Post, bounds
<1>3. CASE ~Alive(m)
  <2>1. ContextInv'
    BY <1>2, <1>3 DEF Shape, ContextInv, ThreadOK
  <2>2. QED
    BY <1>2, <1>3, <2>1 DEF Posts
<1>4. CASE Alive(m)
  <2>1. /\ d \in Contexts /\ d.pc = c.pc /\ d.st = c.st /\ d.rest = c.rest /\ d.id = c.id /\ d.tries = c.tries
        /\ \A f \in Frames :
             d.frame[f] = IF f = FrameOf(m.what) THEN [sem |-> TRUE, ok |-> good] ELSE c.frame[f]
    BY <1>1 DEF Contexts
  <2>2. thread' = [thread EXCEPT ![t] = d]
    BY <1>1, <1>4 DEF Post, Shape, ContextInv
  <2> HIDE DEF d
  <2>3. Orderly(d) /\ Todo(d) = Todo(c) /\ ThreadOK(t)
    BY <1>1, <2>1 DEF Orderly, Todo, Shape, ContextInv, ThreadOK
  <2>4. ContextInv' /\ thread'[t] = d /\ \A u \in Threads : u # t => thread'[u] = thread[u]
    <3>1. Todo(d) \subseteq RoleLabels(t) /\ d.pc # "idle" /\ (d.st = "waits" => d.pc \in Requests)
          /\ (d.st = "cond" => d.pc = "accept")
      BY <1>1, <1>4, <2>1, <2>3 DEF ThreadOK
    <3>2. QED
      BY <1>1, <1>2, <1>4, <2>1, <2>2, <2>3, <3>1, WorksOn DEF Shape
  <2>5. QED
    BY <1>4, <2>1, <2>4 DEF Posts
<1>5. QED
  BY <1>3, <1>4

LEMMA BroadcastStirs ==
    ASSUME ContextInv, Broadcast, UNCHANGED <<roles, calls>>
    PROVE  ContextInv' /\ Stirs /\ \A u \in Threads : thread'[u].st # "cond"
<1>1. ASSUME NEW u \in Threads
      PROVE  /\ thread'[u] \in Contexts /\ ThreadOK(u)'
             /\ thread[u].st # "cond" => thread'[u] = thread[u]
             /\ thread[u].st = "cond" =>
                  LET c == thread[u]
                      d == thread'[u]
                  IN  d.st = "runs" /\ d.pc = c.pc /\ d.rest = c.rest /\ d.id = c.id /\ d.tries = c.tries /\ d.frame = c.frame
             /\ thread'[u].st # "cond"
  <2> DEFINE c == thread[u]
             d == [c EXCEPT !.st = "runs"]
  <2>1. c \in Contexts /\ ThreadOK(u)
    BY DEF ContextInv
  <2>2. thread'[u] = IF c.st = "cond" THEN d ELSE c
    BY DEF Broadcast
  <2>3. d \in Contexts /\ d.st = "runs" /\ d.pc = c.pc /\ d.rest = c.rest /\ d.id = c.id /\ d.tries = c.tries /\ d.frame = c.frame
    BY <2>1 DEF Contexts
  <2> HIDE DEF d
  <2>4. CASE c.st = "cond"
    <3>1. thread'[u] = d /\ c.pc = "accept"
      BY <2>1, <2>2, <2>4 DEF ThreadOK
    <3>2. Orderly(d) /\ Todo(d) = Todo(c)
      BY <2>1, <2>3 DEF Orderly, Todo, ThreadOK
    <3>3. c.pc # "idle" /\ u \in roles
      <4>1. IdleThread.st = "runs"
        BY IdleFacts
      <4>2. QED
        BY <2>1, <2>4, <4>1 DEF ThreadOK
    <3>4. ThreadOK(u)'
      BY <2>1, <2>3, <3>1, <3>2, <3>3 DEF ThreadOK
    <3>5. QED
      BY <2>3, <2>4, <3>1, <3>4
  <2>5. CASE c.st # "cond"
    BY <2>1, <2>2, <2>5 DEF ThreadOK
  <2>6. QED
    BY <2>4, <2>5
<1>2. thread' = [t \in Threads |-> thread'[t]]
  BY DEF Broadcast
<1>3. thread' \in [Threads -> Contexts]
  BY <1>1, <1>2
<1>4. ContextInv'
  BY <1>1, <1>3 DEF ContextInv
<1>5. QED
  BY <1>1, <1>4 DEF Stirs

LEMMA FailedAgain ==
    ASSUME ContextInv, NEW t \in roles, fwFailed(t), "service" = t
    PROVE  /\ ContextInv' /\ UNCHANGED <<msgs, adapter, roles, calls>>
           /\ \E p : /\ Moves(t, p) /\ GoodPlan(p) /\ p # <<>>
                     /\ \/ Names(p) = {"initFails"}
                        \/ Names(p) = {"fwLoad", "fwInit", "eeprom", "seOff", "llcpConfig", "seListen", "enabled"}
<1> DEFINE c == thread[t]
           e == [c EXCEPT !.tries = c.tries + 1, !.frame["download"] = NewFrame]
           q == download_locked(FALSE) \o initializeTail
<1>1. t \in Threads /\ c \in Contexts /\ c.pc = "fwFailed" /\ c.st = "runs" /\ UNCHANGED <<msgs, adapter, roles, calls>>
  BY ThreadsOfRoles DEF ContextInv, fwFailed, At, Silent, bounds
<1>2. {"initFails", "fwLoad", "fwInit", "eeprom", "seOff", "llcpConfig", "seListen", "enabled"} \subseteq RoleLabels(t)
  BY DEF RoleLabels, ServiceLabels, InitLabels
<1>3. CASE c.tries < 2
  <2>1. /\ e \in Contexts /\ e.id = c.id /\ e.frame["call"] = c.frame["call"] /\ e.frame["notified"] = c.frame["notified"]
    <3> DEFINE frame == [c.frame EXCEPT !["download"] = NewFrame]
    <3>1. NewFrame \in [sem : BOOLEAN, ok : BOOLEAN]
      BY DEF NewFrame
    <3>2. frame \in [Frames -> [sem : BOOLEAN, ok : BOOLEAN]]
          /\ frame["call"] = c.frame["call"] /\ frame["notified"] = c.frame["notified"]
      BY <1>1, <3>1 DEF Contexts, Frames
    <3>3. e = [c EXCEPT !.tries = c.tries + 1, !.frame = frame]
      BY <1>1 DEF Contexts
    <3> HIDE DEF e, frame
    <3>4. /\ c \in [pc : Words \cup {"idle"}, st : {"runs", "waits", "cond"}, rest : Plan, id : Nat, tries : Nat,
                   frame : [Frames -> [sem : BOOLEAN, ok : BOOLEAN]]]
          /\ c.tries + 1 \in Nat
      BY <1>1 DEF Contexts
    <3> HIDE DEF c
    <3>5. e \in Contexts /\ e.id = c.id /\ e.frame = frame
      BY <3>2, <3>3, <3>4 DEF Contexts
    <3>6. QED
      BY <3>2, <3>5
  <2>2. /\ GoodPlan(q) /\ q # <<>>
        /\ Names(q) = {"fwLoad", "fwInit", "eeprom", "seOff", "llcpConfig", "seListen", "enabled"}
    BY DownloadPlan
  <2>3. thread' = [thread EXCEPT ![t] = Planned(e, q)]
    <3>1. ~(c.tries >= 2)
      BY <1>1, <1>3 DEF Contexts
    <3>2. QED
      BY <3>1 DEF fwFailed
  <2> HIDE DEF e, q
  <2> DEFINE d == Planned(e, q)
  <2>4. /\ d \in Contexts /\ Orderly(d) /\ Todo(d) = Names(q) /\ d.st = "runs"
        /\ d.pc = q[1] /\ d.rest = Tail(q) /\ d.id = e.id /\ d.tries = e.tries /\ d.frame = e.frame
        /\ d.pc = "idle" => d = IdleThread
    BY <2>1, <2>2, PlannedContext
  <2> HIDE DEF d
  <2>5. ContextInv' /\ thread'[t] = d /\ \A u \in Threads : u # t => thread'[u] = thread[u]
    <3>1. thread' = [thread EXCEPT ![t] = d]
      BY <2>3 DEF d
    <3>2. Todo(d) \subseteq RoleLabels(t) /\ d.id = thread[t].id /\ thread[t].pc # "idle" /\ d.st = "runs"
      BY <1>1, <1>2, <2>1, <2>2, <2>4
    <3>3. UNCHANGED <<roles, calls>>
      BY <1>1
    <3>4. QED
      BY <2>4, <3>1, <3>2, <3>3, WorksOn
  <2>6. c.frame["call"].sem \in BOOLEAN /\ c.frame["notified"].sem \in BOOLEAN /\ ~Answered(c)
    BY <1>1 DEF Contexts, Frames, Answered
  <2>7. Moves(t, q)
    BY <1>1, <2>1, <2>2, <2>4, <2>5, <2>6 DEF Moves
  <2>8. QED
    BY <1>1, <2>2, <2>5, <2>7
<1>4. CASE ~(c.tries < 2)
  <2> DEFINE p == <<"initFails">>
  <2>1. Leave(t, p)
    BY <1>4 DEF fwFailed
  <2>2. GoodPlan(p) /\ Names(p) = {"initFails"} /\ p # <<>>
    BY ShortPlans
  <2> HIDE DEF p
  <2>4. ContextInv' /\ Moves(t, p)
    BY <1>1, <1>2, <2>1, <2>2, LeaveMoves DEF Answered
  <2>5. QED
    BY <1>1, <2>2, <2>4
<1>5. QED
  BY <1>3, <1>4

-----------------------------------------------------------------------------
(* The steps of the threads, one lemma for each *)

DeviceThreads == {"tag1", "tag2", "peer"}

LEMMA RoleOf ==
    ASSUME NEW t, NEW l \in RoleLabels(t)
    PROVE  /\ l \in ServiceLabels => t = "service"
           /\ l \in {"p2pConnect", "p2pDisconnect", "check", "activate", "ignored"} => t = "peer"
           /\ l \in {"connect", "connected", "reconnect", "tagDisconnect"} => t \in {"tag1", "tag2"}
           /\ l \in {"restart", "released", "ask"} => t \in DeviceThreads
           /\ l \in OtherLabels => t \notin {"service"} \cup DeviceThreads
BY DEF RoleLabels, ServiceLabels, InitLabels, BootLabels, RouteLabels, OpenLabels, CloseLabels, TagLabels, PeerLabels,
       OtherLabels, DeviceThreads

LEMMA RoleHas ==
    /\ RoleLabels("service") = ServiceLabels /\ RoleLabels("peer") = PeerLabels
    /\ RoleLabels("tag1") = TagLabels /\ RoleLabels("tag2") = TagLabels
    /\ \A t : t \notin {"service"} \cup DeviceThreads => RoleLabels(t) = OtherLabels
BY DEF RoleLabels, DeviceThreads

\* What a working thread is about to do.
LEMMA AtWork ==
    ASSUME ContextInv, NEW t \in roles
    PROVE  /\ t \in Threads /\ thread[t] \in Contexts /\ Orderly(thread[t]) /\ thread[t].rest \in Plan
           /\ GoodPlan(thread[t].rest) /\ Names(thread[t].rest) \subseteq RoleLabels(t)
           /\ Todo(thread[t]) = ({thread[t].pc} \ Mutex) \cup Names(thread[t].rest)
           /\ thread[t].pc \notin Mutex => thread[t].pc \in RoleLabels(t)
           /\ thread[t].st = "runs" => ~Answered(thread[t])
           /\ <<>> \o thread[t].rest = thread[t].rest
<1>1. t \in Threads /\ thread[t] \in Contexts /\ Orderly(thread[t]) /\ Todo(thread[t]) \subseteq RoleLabels(t)
  BY ThreadsOfRoles DEF ContextInv, ThreadOK
<1>2. /\ GoodPlan(thread[t].rest) /\ Names(thread[t].rest) \subseteq Todo(thread[t])
      /\ Todo(thread[t]) = ({thread[t].pc} \ Mutex) \cup Names(thread[t].rest)
  BY <1>1, ContextFacts
<1>3. <<>> \o thread[t].rest = thread[t].rest
  BY <1>2 DEF GoodPlan, Plan
<1>4. QED
  BY <1>1, <1>2, <1>3 DEF GoodPlan, Answered

LEMMA AdvanceMoves ==
    ASSUME ContextInv, NEW t \in roles, ~Answered(thread[t]), thread[t].pc # "idle", Advance(t), UNCHANGED <<roles, calls>>
    PROVE  ContextInv' /\ Moves(t, thread[t].rest)
<1>1. Leave(t, thread[t].rest)
  BY AtWork DEF Advance, Then
<1>2. QED
  BY <1>1, AtWork, LeaveMoves

\* The last step of a call can have others after it.
LEMMA ThenMoves ==
    ASSUME ContextInv, NEW t \in roles, thread[t].st = "runs", thread[t].pc \in {"seClosed", "enabled"},
           NEW p, Block(p), Names(p) \subseteq RoleLabels(t), Then(t, p), UNCHANGED <<roles, calls>>
    PROVE  ContextInv' /\ Moves(t, p \o thread[t].rest) /\ Names(p \o thread[t].rest) = Names(p) /\ GoodPlan(p \o thread[t].rest)
<1> DEFINE rest == thread[t].rest
           q == p \o rest
<1>1. GoodPlan(rest) /\ Names(rest) \subseteq Words \ Mutex /\ Orderly(thread[t]) /\ rest \in Plan
  BY AtWork, NamesInWords
<1>2. Names(rest) = {}
  <2>1. \A b \in Names(rest) : Fits(thread[t].pc, b)
    BY <1>1 DEF Orderly
  <2>2. ASSUME NEW b \in Words \ Mutex PROVE ~Fits(thread[t].pc, b)
    BY DEF Fits, Rank, Mutex
  <2>3. QED
    BY <1>1, <2>1, <2>2
<1>3. rest # <<>> => rest[1] \in {"lock", "unlock"}
  <2>0. rest \in Plan
    BY <1>1
  <2> HIDE DEF rest
  <2>1. rest # <<>> => 1 \in DOMAIN rest /\ rest[1] \in Words
    BY <2>0, PlanFacts
  <2>2. QED
    BY <1>2, <2>1, MutexWords DEF Names, Mutex
<1>4. Joins(p[Len(p)], rest[1]) \/ rest = <<>>
  BY <1>3 DEF Joins, Block
<1> HIDE DEF rest
<1>5. GoodPlan(q) /\ Names(q) = Names(p) \cup Names(rest)
  BY <1>1, <1>2, <1>4, Joined DEF Block
<1>6. Leave(t, q)
  BY DEF Then, q, rest
<1> HIDE DEF q
<1>7. ~Answered(thread[t]) /\ thread[t].pc # "idle"
  BY DEF Answered
<1>8. Names(q) \subseteq RoleLabels(t)
  BY <1>2, <1>5
<1>9. ContextInv' /\ Moves(t, q)
  BY <1>5, <1>6, <1>7, <1>8, LeaveMoves
<1>10. QED
  BY <1>2, <1>5, <1>9 DEF q, rest

\* The messages keep their types when none is sent.
LEMMA MessagesKept ==
    ASSUME MsgType, UNCHANGED roles, calls' \in Nat, calls \in Nat, calls' >= calls, msgs' \subseteq msgs
    PROVE  MsgType'
<1>1. \A i \in 1..calls : i \in 1..calls'
  OBVIOUS
<1>2. ASSUME NEW m \in msgs'
      PROVE  m \in [to : roles, id : 1..calls', tries : Nat, what : Requests] /\ m.what \in RoleLabels(m.to)
  <2>1. m \in [to : roles, id : 1..calls, tries : Nat, what : Requests] /\ m.what \in RoleLabels(m.to)
    BY <1>2 DEF MsgType
  <2>2. QED
    BY <1>1, <2>1
<1>3. QED
  BY <1>2 DEF MsgType

\* A step that leaves the adapter alone, and one that asks libnfc nothing.
LEMMA ShapeKept ==
    ASSUME Shape, ContextInv', TypeInv', UNCHANGED <<msgs, roles, calls>>
    PROVE  Shape'
BY DEF Shape, MsgType

LEMMA TypesKept == ASSUME Shape, UNCHANGED <<nat, lib, svc, eps>> PROVE TypeInv'
BY DEF Shape, TypeInv, NatOK, LibOK, SvcOK

\* The steps of the mutex, and those that the adapter takes alone.
LEMMA LockSteps ==
    ASSUME Shape, NEW t \in roles, takeLock(t) \/ giveLock(t)
    PROVE  Shape' /\ Moves(t, thread[t].rest) /\ thread[t].pc \in {"lock", "unlock"} /\ ~Answered(thread[t])
<1>1. /\ thread[t].pc \in {"lock", "unlock"} /\ thread[t].st = "runs" /\ Advance(t)
      /\ UNCHANGED <<msgs, adapter, roles, calls>>
  BY DEF takeLock, giveLock, At, bounds
<1>2. ContextInv' /\ Moves(t, thread[t].rest) /\ ~Answered(thread[t])
  BY <1>1, AdvanceMoves DEF Shape, Answered
<1>3. QED
  BY <1>1, <1>2, ShapeKept, TypesKept DEF adapter

LEMMA TimeoutSteps ==
    ASSUME Shape, NEW t \in roles, timeoutStep(t)
    PROVE  /\ Shape' /\ Moves(t, thread[t].rest) /\ thread[t].pc \in {"setTimeout", "resetTimeouts"}
           /\ ~Answered(thread[t])
           /\ nat'.driver = nat.driver /\ nat'.clients = nat.clients /\ nat'.kill = nat.kill /\ nat'.data = nat.data
<1>1. /\ thread[t].pc \in {"setTimeout", "resetTimeouts"} /\ thread[t].st = "runs" /\ Advance(t)
      /\ UNCHANGED <<msgs, lib, svc, eps, roles, calls>>
  BY DEF timeoutStep, At, bounds, Silent
<1>2. ContextInv' /\ Moves(t, thread[t].rest) /\ ~Answered(thread[t])
  BY <1>1, AdvanceMoves DEF Shape, Answered
<1>3. PICK ts, a : nat' = [nat EXCEPT !.timeouts = ts, !.asked = a]
  BY DEF timeoutStep, ResetTimeouts
<1>4. /\ TypeInv' /\ nat'.driver = nat.driver /\ nat'.clients = nat.clients /\ nat'.kill = nat.kill
      /\ nat'.data = nat.data
  BY <1>1, <1>3 DEF Shape, TypeInv, NatOK, LibOK, SvcOK
<1>5. QED
  BY <1>1, <1>2, <1>4, ShapeKept

LEMMA DeviceSteps ==
    ASSUME Shape, NEW t \in roles, connected(t) \/ released(t) \/ ignored(t)
    PROVE  /\ Shape' /\ Moves(t, thread[t].rest) /\ thread[t].pc \in {"connected", "released", "ignored"}
           /\ ~Answered(thread[t])
           /\ nat'.driver = nat.driver /\ nat'.clients = nat.clients /\ nat'.kill = nat.kill /\ nat'.data = nat.data
           /\ eps' = [eps EXCEPT ![t] = IF thread[t].pc = "connected" THEN "connected" ELSE "done"]
           /\ t \in DeviceThreads
<1>1. /\ thread[t].pc \in {"connected", "released", "ignored"} /\ thread[t].st = "runs" /\ Advance(t)
      /\ UNCHANGED <<msgs, lib, svc, roles, calls>>
      /\ nat' = nat \/ nat' = [nat EXCEPT !.flag = FALSE]
      /\ eps' = [eps EXCEPT ![t] = IF thread[t].pc = "connected" THEN "connected" ELSE "done"]
  BY DEF connected, released, ignored, At, bounds, Silent
<1>2. ContextInv' /\ Moves(t, thread[t].rest) /\ ~Answered(thread[t])
  BY <1>1, AdvanceMoves DEF Shape, Answered
<1>3. /\ TypeInv' /\ nat'.driver = nat.driver /\ nat'.clients = nat.clients /\ nat'.kill = nat.kill
      /\ nat'.data = nat.data
  <2>1. NatOK' /\ nat'.driver = nat.driver /\ nat'.clients = nat.clients /\ nat'.kill = nat.kill /\ nat'.data = nat.data
    BY <1>1 DEF Shape, TypeInv, NatOK
  <2>2. eps' \in [Threads -> EpStates]
    BY <1>1 DEF Shape, TypeInv, EpStates
  <2>3. QED
    BY <1>1, <2>1, <2>2 DEF Shape, TypeInv, LibOK, SvcOK
<1>4. t \in DeviceThreads
  BY <1>1, AtWork, RoleOf DEF Mutex, Shape, DeviceThreads
<1>5. QED
  BY <1>1, <1>2, <1>3, <1>4, ShapeKept

LEMMA ActivateStep ==
    ASSUME Shape, NEW t \in roles, activate(t)
    PROVE  /\ Shape' /\ thread[t].pc = "activate" /\ t = "peer" /\ ~Answered(thread[t])
           /\ \/ /\ Moves(t, thread[t].rest) /\ lib.link = "checked" /\ lib' = [lib EXCEPT !.link = "activating"]
                 /\ eps' = [eps EXCEPT ![t] = IF eps[t] = "target" THEN "upTarget" ELSE "upInitiator"]
              \/ /\ Moves(t, GivesUp(eps[t])) /\ UNCHANGED <<lib, eps>>
<1>1. /\ thread[t].pc = "activate" /\ thread[t].st = "runs" /\ UNCHANGED <<msgs, nat, svc, roles, calls>>
  BY DEF activate, At, bounds, Silent
<1>2. t = "peer" /\ ~Answered(thread[t]) /\ t \in Threads /\ ContextInv
  BY <1>1, AtWork, RoleOf DEF Mutex, Shape
<1>3. \/ /\ Advance(t) /\ lib.link = "checked" /\ lib' = [lib EXCEPT !.link = "activating"]
         /\ eps' = [eps EXCEPT ![t] = IF eps[t] = "target" THEN "upTarget" ELSE "upInitiator"]
      \/ Leave(t, GivesUp(eps[t])) /\ UNCHANGED <<lib, eps>>
  BY <1>2 DEF activate, Shape, TypeInv
<1>4. CASE /\ Advance(t) /\ lib.link = "checked" /\ lib' = [lib EXCEPT !.link = "activating"]
           /\ eps' = [eps EXCEPT ![t] = IF eps[t] = "target" THEN "upTarget" ELSE "upInitiator"]
  <2>1. ContextInv' /\ Moves(t, thread[t].rest)
    BY <1>1, <1>2, <1>4, AdvanceMoves
  <2>2. TypeInv'
    BY <1>1, <1>4 DEF Shape, TypeInv, LibOK, SvcOK, NatOK, EpStates
  <2>3. QED
    BY <1>1, <1>2, <1>4, <2>1, <2>2, ShapeKept
<1>5. CASE Leave(t, GivesUp(eps[t])) /\ UNCHANGED <<lib, eps>>
  <2>1. /\ GoodPlan(GivesUp(eps[t]))
        /\ Names(GivesUp(eps[t])) = (IF eps[t] = "target" THEN {"p2pDisconnect", "released"} ELSE {"ignored"})
    BY GivesUpPlan
  <2>2. Names(GivesUp(eps[t])) \subseteq RoleLabels(t)
    BY <1>2, <2>1, RoleHas DEF PeerLabels
  <2>3. ContextInv' /\ Moves(t, GivesUp(eps[t]))
    BY <1>1, <1>2, <1>5, <2>1, <2>2, LeaveMoves
  <2>4. QED
    BY <1>1, <1>2, <1>5, <2>3, ShapeKept, TypesKept
<1>6. QED
  BY <1>3, <1>4, <1>5

LEMMA AcceptStep ==
    ASSUME Shape, NEW t \in roles, accept(t)
    PROVE  /\ Shape' /\ thread[t].pc = "accept" /\ t \notin {"service"} \cup DeviceThreads /\ ~Answered(thread[t])
           /\ \/ Sleeps(t, "cond") /\ {e \in incoming : e[1] = t} = {} /\ UNCHANGED incoming
              \/ Moves(t, <<"accepting">>) /\ incoming' \subseteq incoming
<1>1. /\ thread[t].pc = "accept" /\ thread[t].st = "runs" /\ UNCHANGED <<msgs, nat, lib, svc, eps, roles, calls>>
  BY DEF accept, At, bounds, Silent
<1>2. t \notin {"service"} \cup DeviceThreads /\ ~Answered(thread[t]) /\ ContextInv /\ TypeInv'
  BY <1>1, AtWork, RoleOf, TypesKept DEF Mutex, Shape, OtherLabels
<1>3. CASE {e \in incoming : e[1] = t} = {}
  <2>1. thread' = [thread EXCEPT ![t].st = "cond"] /\ UNCHANGED incoming
    BY <1>3 DEF accept
  <2>2. ContextInv' /\ Sleeps(t, "cond")
    BY <1>1, <1>2, <2>1, SleepsOn
  <2>3. QED
    BY <1>1, <1>2, <1>3, <2>1, <2>2, ShapeKept
<1>4. CASE {e \in incoming : e[1] = t} # {}
  <2>1. Leave(t, <<"accepting">>) /\ incoming' \subseteq incoming
    BY <1>4 DEF accept
  <2>2. GoodPlan(<<"accepting">>) /\ Names(<<"accepting">>) = {"accepting"}
    BY ShortPlans
  <2>3. {"accepting"} \subseteq RoleLabels(t)
    BY <1>2, RoleHas DEF OtherLabels
  <2> DEFINE p == <<"accepting">>
  <2> HIDE DEF p
  <2>4. ContextInv' /\ Moves(t, p)
    BY <1>1, <1>2, <2>1, <2>2, <2>3, LeaveMoves DEF p
  <2>5. QED
    BY <1>1, <1>2, <2>1, <2>4, ShapeKept DEF p
<1>5. QED
  BY <1>3, <1>4

\* The steps of an open that do no more than look.
LEMMA LookSteps ==
    ASSUME Shape, NEW t \in roles, seCheck(t) \/ seRegister(t) \/ seListen(t)
    PROVE  /\ Shape' /\ t = "service" /\ ~Answered(thread[t])
           /\ \/ /\ Moves(t, thread[t].rest) /\ thread[t].pc \in {"seCheck", "seRegister", "seListen"}
                 /\ lib' = IF thread[t].pc = "seRegister" THEN [lib EXCEPT !.listener = "se"] ELSE lib
              \/ Moves(t, <<"unlock", "seFailed">>) /\ thread[t].pc \in {"seCheck", "seRegister"} /\ UNCHANGED lib
              \/ Moves(t, <<"initFails">>) /\ thread[t].pc = "seListen" /\ UNCHANGED lib
<1>1. /\ thread[t].pc \in {"seCheck", "seRegister", "seListen"} /\ thread[t].st = "runs"
      /\ UNCHANGED <<msgs, nat, svc, eps, roles, calls>>
  BY DEF seCheck, seRegister, seListen, At, bounds, Silent, adapter
<1>2. t = "service" /\ ~Answered(thread[t]) /\ ContextInv
  <2>1. {"seCheck", "seRegister", "seListen"} \subseteq ServiceLabels
    BY DEF ServiceLabels, OpenLabels, InitLabels
  <2>2. QED
    BY <1>1, <2>1, AtWork, RoleOf DEF Mutex, Shape
<1>3. \/ Advance(t) /\ lib' = IF thread[t].pc = "seRegister" THEN [lib EXCEPT !.listener = "se"] ELSE lib
      \/ Leave(t, <<"unlock", "seFailed">>) /\ thread[t].pc \in {"seCheck", "seRegister"} /\ UNCHANGED lib
      \/ Leave(t, <<"initFails">>) /\ thread[t].pc = "seListen" /\ UNCHANGED lib
  <2>1. CASE seCheck(t)
    BY <2>1 DEF seCheck, At, adapter
  <2>2. CASE seRegister(t)
    BY <2>2 DEF seRegister, At
  <2>3. CASE seListen(t)
    BY <2>3 DEF seListen, At, adapter
  <2>4. QED
    BY <2>1, <2>2, <2>3
<1>4. TypeInv'
  <2>1. LibOK'
    BY <1>3 DEF Shape, TypeInv, LibOK
  <2>2. QED
    BY <1>1, <2>1 DEF Shape, TypeInv, NatOK, SvcOK
<1>5. {"initFails", "seFailed"} \subseteq RoleLabels(t)
  BY <1>2, RoleHas DEF ServiceLabels, OpenLabels, InitLabels
<1> DEFINE p == <<"unlock", "seFailed">>
           q == <<"initFails">>
<1>6. GoodPlan(p) /\ Names(p) = {"seFailed"} /\ GoodPlan(q) /\ Names(q) = {"initFails"}
  BY ShortPlans
<1> HIDE DEF p, q
<1>7. CASE Advance(t) /\ lib' = IF thread[t].pc = "seRegister" THEN [lib EXCEPT !.listener = "se"] ELSE lib
  BY <1>1, <1>2, <1>4, <1>7, AdvanceMoves, ShapeKept
<1>8. CASE Leave(t, p) /\ thread[t].pc \in {"seCheck", "seRegister"} /\ UNCHANGED lib
  <2>1. ContextInv' /\ Moves(t, p)
    BY <1>1, <1>2, <1>5, <1>6, <1>8, LeaveMoves
  <2>2. QED
    BY <1>1, <1>2, <1>4, <1>8, <2>1, ShapeKept DEF p
<1>9. CASE Leave(t, q) /\ thread[t].pc = "seListen" /\ UNCHANGED lib
  <2>1. ContextInv' /\ Moves(t, q)
    BY <1>1, <1>2, <1>5, <1>6, <1>9, LeaveMoves
  <2>2. QED
    BY <1>1, <1>2, <1>4, <1>9, <2>1, ShapeKept DEF q
<1>10. QED
  BY <1>3, <1>7, <1>8, <1>9 DEF p, q

LEMMA AwaitSteps ==
    ASSUME Shape, NEW t \in roles, awaitElement(t) \/ gpioRefused(t)
    PROVE  /\ Shape' /\ t = "service" /\ Sleeps(t, "waits") /\ thread[t].pc \in {"seNotified", "gpioGet"}
           /\ thread[t].st = "runs"
<1>1. /\ thread[t].pc \in {"seNotified", "gpioGet"} /\ thread[t].st = "runs" /\ thread' = [thread EXCEPT ![t].st = "waits"]
      /\ UNCHANGED <<msgs, nat, lib, svc, eps, roles, calls>>
  BY DEF awaitElement, gpioRefused, At, bounds, Silent, adapter
<1>2. t = "service" /\ ContextInv
  <2>1. {"seNotified", "gpioGet"} \subseteq ServiceLabels
    BY DEF ServiceLabels, OpenLabels
  <2>2. QED
    BY <1>1, <2>1, AtWork, RoleOf DEF Mutex, Shape
<1>3. thread[t].pc \in Requests
  BY <1>1 DEF Requests, OpenAsks
<1>4. ContextInv' /\ Sleeps(t, "waits")
  BY <1>1, <1>2, <1>3, SleepsOn
<1>5. QED
  BY <1>1, <1>2, <1>4, ShapeKept, TypesKept

\* The ends of an open and of a close, and of the switch on, route again.
LEMMA EndSteps ==
    ASSUME Shape, NEW t \in roles, seFailed(t) \/ seOpened(t) \/ seClosed(t) \/ enabled(t)
    PROVE  /\ Shape' /\ t = "service" /\ ~Answered(thread[t]) /\ UNCHANGED hist
           /\ \/ /\ thread[t].pc = "seFailed" /\ svc' = [svc EXCEPT !.polling = @ \/ svc.restore, !.restore = FALSE]
                 /\ Moves(t, IF svc.restore THEN enableDiscovery ELSE <<>>)
              \/ /\ thread[t].pc = "seOpened" /\ svc' = [svc EXCEPT !.ee = TRUE, !.restore = FALSE]
                 /\ Moves(t, thread[t].rest)
              \/ /\ thread[t].pc \in {"seClosed", "enabled"}
                 /\ \E polling \in BOOLEAN : \E p :
                      /\ svc' = IF thread[t].pc = "enabled" THEN [svc EXCEPT !.on = TRUE, !.polling = polling]
                                ELSE [svc EXCEPT !.ee = FALSE, !.polling = polling]
                      /\ Moves(t, p) /\ GoodPlan(p) /\ Names(p) = {"register", "seMode", IF polling THEN "start" ELSE "stop"}
<1>1. /\ thread[t].pc \in {"seFailed", "seOpened", "seClosed", "enabled"} /\ thread[t].st = "runs"
      /\ UNCHANGED <<msgs, nat, lib, eps, hist, roles, calls>>
  BY DEF seFailed, seOpened, seClosed, enabled, At, bounds, Silent, adapter
<1>2. t = "service" /\ ~Answered(thread[t]) /\ ContextInv
  <2>1. {"seFailed", "seOpened", "seClosed", "enabled"} \subseteq ServiceLabels
    BY DEF ServiceLabels, OpenLabels, CloseLabels, InitLabels
  <2>2. QED
    BY <1>1, <2>1, AtWork, RoleOf DEF Mutex, Shape
<1>3. {"register", "seMode", "start", "stop"} \subseteq RoleLabels(t)
  BY <1>2, RoleHas DEF ServiceLabels, RouteLabels
<1>4. NatOK' /\ LibOK' /\ eps' \in [Threads -> EpStates]
  BY <1>1 DEF Shape, TypeInv, NatOK, LibOK
<1>5. svc \in [on : BOOLEAN, polling : BOOLEAN, ee : BOOLEAN, restore : BOOLEAN]
  BY DEF Shape, TypeInv, SvcOK
<1>6. CASE seFailed(t)
  <2> DEFINE p == IF svc.restore THEN enableDiscovery ELSE <<>>
  <2>1. /\ thread[t].pc = "seFailed" /\ svc' = [svc EXCEPT !.polling = @ \/ svc.restore, !.restore = FALSE]
        /\ Leave(t, p)
    BY <1>6 DEF seFailed, At
  <2>2. GoodPlan(p) /\ Names(p) \subseteq RoleLabels(t)
    BY <1>3, RoutePlans, EmptyPlan DEF Block
  <2> HIDE DEF p
  <2>3. ContextInv' /\ Moves(t, p)
    BY <1>1, <1>2, <2>1, <2>2, LeaveMoves
  <2>4. svc.polling \/ svc.restore \in BOOLEAN
    BY <1>5
  <2>5. SvcOK'
    BY <1>5, <2>1, <2>4 DEF SvcOK
  <2>6. QED
    BY <1>1, <1>2, <1>4, <2>1, <2>3, <2>5, ShapeKept DEF TypeInv, p
<1>7. CASE seOpened(t)
  <2>1. thread[t].pc = "seOpened" /\ svc' = [svc EXCEPT !.ee = TRUE, !.restore = FALSE] /\ Advance(t)
    BY <1>7 DEF seOpened, At
  <2>2. ContextInv' /\ Moves(t, thread[t].rest)
    BY <1>1, <1>2, <2>1, AdvanceMoves
  <2>3. SvcOK'
    BY <1>5, <2>1 DEF SvcOK
  <2>4. QED
    BY <1>1, <1>2, <1>4, <2>1, <2>2, <2>3, ShapeKept DEF TypeInv
<1>8. CASE seClosed(t) \/ enabled(t)
  <2>1. PICK polling \in BOOLEAN :
          /\ svc' = IF thread[t].pc = "enabled" THEN [svc EXCEPT !.on = TRUE, !.polling = polling]
                    ELSE [svc EXCEPT !.ee = FALSE, !.polling = polling]
          /\ Then(t, applyRouting(polling)) /\ thread[t].pc \in {"seClosed", "enabled"}
    BY <1>8 DEF seClosed, enabled, At
  <2> DEFINE r == applyRouting(polling)
             p == r \o thread[t].rest
  <2>2. Block(r) /\ Names(r) = {"register", "seMode", IF polling THEN "start" ELSE "stop"}
    BY RoutingPlan
  <2> HIDE DEF r
  <2>3. Names(r) \subseteq RoleLabels(t)
    BY <1>3, <2>2
  <2>4. ContextInv' /\ Moves(t, p) /\ Names(p) = Names(r) /\ GoodPlan(p)
    BY <1>1, <1>2, <2>1, <2>2, <2>3, ThenMoves DEF r
  <2>5. SvcOK'
    BY <1>5, <2>1 DEF SvcOK
  <2> HIDE DEF p
  <2>6. Shape'
    BY <1>1, <1>4, <2>4, <2>5, ShapeKept DEF TypeInv
  <2>7. QED
    BY <1>1, <1>2, <2>1, <2>2, <2>4, <2>6
<1>9. QED
  BY <1>6, <1>7, <1>8

\* The driver and its client thread.
LEMMA DriverSteps ==
    ASSUME Shape, NEW t \in roles, configure(t) \/ unconfigure(t) \/ initFails(t)
    PROVE  /\ Shape' /\ t = "service" /\ ~Answered(thread[t]) /\ nat'.data = nat.data
           /\ thread[t].pc \in {"configure", "unconfigure", "initFails"}
           /\ Moves(t, IF thread[t].pc = "initFails" THEN <<"unlock">> ELSE thread[t].rest)
           /\ thread[t].pc = "configure" =>
                /\ ~nat.kill /\ ~nat'.kill /\ nat'.driver /\ UNCHANGED hist
                /\ nat'.clients = IF nat.driver THEN nat.clients ELSE nat.clients + 1
           /\ thread[t].pc = "unconfigure" =>
                ~nat'.driver /\ nat'.kill = nat.kill /\ nat'.clients = nat.clients /\ UNCHANGED hist
           /\ thread[t].pc = "initFails" => hist' = hist \cup {"initFailed"}
<1>1. /\ thread[t].pc \in {"configure", "unconfigure", "initFails"} /\ thread[t].st = "runs"
      /\ UNCHANGED <<msgs, lib, svc, eps, roles, calls>>
  BY DEF configure, unconfigure, initFails, At, bounds, Silent
<1>2. t = "service" /\ ~Answered(thread[t]) /\ ContextInv
  <2>1. {"configure", "unconfigure", "initFails"} \subseteq ServiceLabels
    BY DEF ServiceLabels, BootLabels, InitLabels
  <2>2. QED
    BY <1>1, <2>1, AtWork, RoleOf DEF Mutex, Shape
<1>3. LibOK' /\ SvcOK' /\ eps' \in [Threads -> EpStates]
  BY <1>1 DEF Shape, TypeInv, LibOK, SvcOK
<1>4. NatOK
  BY DEF Shape, TypeInv
<1>5. CASE configure(t)
  <2>1. /\ thread[t].pc = "configure" /\ ~nat.kill /\ Advance(t) /\ UNCHANGED hist
        /\ nat' = IF nat.driver THEN [nat EXCEPT !.flag = FALSE]
                  ELSE [nat EXCEPT !.flag = FALSE, !.driver = TRUE, !.clients = nat.clients + 1]
    BY <1>5 DEF configure, At
  <2>2. ContextInv' /\ Moves(t, thread[t].rest)
    BY <1>1, <1>2, <2>1, AdvanceMoves
  <2>3. /\ NatOK' /\ ~nat'.kill /\ nat'.driver /\ nat'.data = nat.data
        /\ nat'.clients = IF nat.driver THEN nat.clients ELSE nat.clients + 1
    <3>1. CASE nat.driver
      BY <1>4, <2>1, <3>1 DEF NatOK
    <3>2. CASE ~nat.driver
      <4> DEFINE n == nat.clients + 1
      <4>1. n \in Nat
        BY <1>4 DEF NatOK
      <4>2. nat' = [nat EXCEPT !.flag = FALSE, !.driver = TRUE, !.clients = n]
        BY <2>1, <3>2
      <4> HIDE DEF n
      <4>3. NatOK' /\ nat'.kill = nat.kill /\ nat'.driver /\ nat'.data = nat.data /\ nat'.clients = n
        BY <1>4, <4>1, <4>2 DEF NatOK
      <4>4. QED
        BY <2>1, <3>2, <4>3 DEF n
    <3>3. QED
      BY <3>1, <3>2
  <2>4. QED
    BY <1>1, <1>2, <1>3, <2>1, <2>2, <2>3, ShapeKept DEF TypeInv
<1>6. CASE unconfigure(t)
  <2>1. thread[t].pc = "unconfigure" /\ Advance(t) /\ UNCHANGED hist /\ nat' = [nat EXCEPT !.driver = FALSE]
    BY <1>6 DEF unconfigure, At
  <2>2. ContextInv' /\ Moves(t, thread[t].rest)
    BY <1>1, <1>2, <2>1, AdvanceMoves
  <2>3. NatOK' /\ ~nat'.driver /\ nat'.kill = nat.kill /\ nat'.clients = nat.clients /\ nat'.data = nat.data
    BY <1>4, <2>1 DEF NatOK
  <2>4. QED
    BY <1>1, <1>2, <1>3, <2>1, <2>2, <2>3, ShapeKept DEF TypeInv
<1>7. CASE initFails(t)
  <2> DEFINE p == <<"unlock">>
  <2>1. /\ thread[t].pc = "initFails" /\ Leave(t, p) /\ hist' = hist \cup {"initFailed"}
        /\ nat' = [nat EXCEPT !.kill = TRUE]
    BY <1>7 DEF initFails, At, Killed
  <2>2. GoodPlan(p) /\ Names(p) = {}
    BY ShortPlans
  <2> HIDE DEF p
  <2>3. ContextInv' /\ Moves(t, p)
    BY <1>1, <1>2, <2>1, <2>2, LeaveMoves
  <2>4. NatOK' /\ nat'.data = nat.data
    BY <1>4, <2>1 DEF NatOK
  <2>5. QED
    BY <1>1, <1>2, <1>3, <2>1, <2>3, <2>4, ShapeKept DEF TypeInv, p
<1>8. QED
  BY <1>5, <1>6, <1>7

LEMMA RegisterStep ==
    ASSUME Shape, NEW t \in roles, register(t)
    PROVE  /\ Shape' /\ t = "service" /\ ~Answered(thread[t]) /\ thread[t].pc = "register"
           /\ \/ lib.on /\ lib' = [lib EXCEPT !.listener = "discovery"] /\ Moves(t, thread[t].rest) /\ UNCHANGED hist
              \/ /\ Moves(t, Cleanup(t)) /\ hist' = hist \cup {"registerRefused"} /\ UNCHANGED lib
                 /\ GoodPlan(Cleanup(t)) /\ Names(Cleanup(t)) \subseteq Names(thread[t].rest)
                 /\ "stop" \in Names(thread[t].rest) => "stop" \in Names(Cleanup(t))
                 /\ \A a \in Names(Cleanup(t)), b \in Names(thread[t].rest) : Rank(a) < Rank(b) => b \in Names(Cleanup(t))
<1>1. /\ thread[t].pc = "register" /\ thread[t].st = "runs" /\ UNCHANGED <<msgs, nat, svc, eps, roles, calls>>
  BY DEF register, At, bounds, Silent
<1>2. t = "service" /\ ~Answered(thread[t]) /\ ContextInv /\ thread[t] \in Contexts /\ Orderly(thread[t])
      /\ Names(thread[t].rest) \subseteq RoleLabels(t)
  <2>1. "register" \in ServiceLabels
    BY DEF ServiceLabels, RouteLabels
  <2>2. QED
    BY <1>1, <2>1, AtWork, RoleOf DEF Mutex, Shape
<1>3. \/ lib.on /\ lib' = [lib EXCEPT !.listener = "discovery"] /\ Advance(t) /\ UNCHANGED hist
      \/ Leave(t, Cleanup(t)) /\ hist' = hist \cup {"registerRefused"} /\ UNCHANGED lib
  BY DEF register
<1>4. TypeInv'
  <2>1. LibOK'
    BY <1>3 DEF Shape, TypeInv, LibOK
  <2>2. QED
    BY <1>1, <2>1 DEF Shape, TypeInv, NatOK, SvcOK
<1>5. CASE lib.on /\ lib' = [lib EXCEPT !.listener = "discovery"] /\ Advance(t) /\ UNCHANGED hist
  BY <1>1, <1>2, <1>4, <1>5, AdvanceMoves, ShapeKept
<1>6. CASE Leave(t, Cleanup(t)) /\ hist' = hist \cup {"registerRefused"} /\ UNCHANGED lib
  <2>1. /\ GoodPlan(Cleanup(t)) /\ Names(Cleanup(t)) \subseteq Names(thread[t].rest)
        /\ "stop" \in Names(thread[t].rest) => "stop" \in Names(Cleanup(t))
        /\ \A a \in Names(Cleanup(t)), b \in Names(thread[t].rest) : Rank(a) < Rank(b) => b \in Names(Cleanup(t))
    BY <1>1, <1>2, CleanupPlan
  <2>2. ContextInv' /\ Moves(t, Cleanup(t))
    BY <1>1, <1>2, <1>6, <2>1, LeaveMoves
  <2>3. QED
    BY <1>1, <1>2, <1>4, <1>6, <2>1, <2>2, ShapeKept
<1>7. QED
  BY <1>3, <1>5, <1>6

LEMMA UpdateTimesOut ==
    ASSUME Shape, NEW t \in roles, fwDeinitTimesOut(t)
    PROVE  /\ Shape' /\ t = "service" /\ thread[t].pc = "fwDeinit" /\ ~Answered(thread[t]) /\ Moves(t, thread[t].rest)
           /\ thread[t].st = "waits"
<1>1. /\ thread[t].pc = "fwDeinit" /\ thread[t].st = "waits" /\ ~Woken(t) /\ Advance(t)
      /\ UNCHANGED <<msgs, nat, lib, svc, eps, roles, calls>>
  BY DEF fwDeinitTimesOut, bounds, Silent, adapter
<1>2. t = "service" /\ ContextInv /\ ~Answered(thread[t])
  <2>1. "fwDeinit" \in ServiceLabels
    BY DEF ServiceLabels, InitLabels
  <2>2. QED
    BY <1>1, <2>1, AtWork, RoleOf DEF Mutex, Shape, Answered, Woken
<1>3. QED
  BY <1>1, <1>2, AdvanceMoves, ShapeKept, TypesKept

LEMMA DeinitStep ==
    ASSUME Shape, NEW t \in roles, deinitialized(t)
    PROVE  /\ Shape' /\ t = "service" /\ thread[t].pc = "deinit" /\ Answered(thread[t]) /\ Moves(t, thread[t].rest)
           /\ thread[t].frame["call"].ok
           /\ svc' = [svc EXCEPT !.on = FALSE] /\ nat'.kill /\ ~nat'.driver /\ nat'.clients = nat.clients
           /\ nat'.data = nat.data
<1>1. /\ thread[t].pc = "deinit" /\ Woken(t) /\ Status(t) /\ Goes(t, thread[t].rest)
      /\ nat' = [nat EXCEPT !.kill = TRUE, !.driver = FALSE] /\ svc' = [svc EXCEPT !.on = FALSE]
      /\ UNCHANGED <<msgs, lib, eps, roles, calls>>
  <2>1. Killed = [nat EXCEPT !.kill = TRUE]
    BY DEF Killed
  <2>2. [Killed EXCEPT !.driver = FALSE] = [nat EXCEPT !.kill = TRUE, !.driver = FALSE]
    BY <2>1 DEF Shape, TypeInv, NatOK
  <2>3. QED
    BY <2>2 DEF deinitialized, bounds, Silent, Goes
<1>2. t = "service" /\ ContextInv /\ Answered(thread[t]) /\ thread[t].frame["call"].ok
      /\ GoodPlan(thread[t].rest) /\ Names(thread[t].rest) \subseteq RoleLabels(t)
  <2>1. "deinit" \in ServiceLabels
    BY DEF ServiceLabels
  <2>2. QED
    BY <1>1, <2>1, AtWork, RoleOf DEF Mutex, Shape, Answered, Woken, Status, FrameOf
<1>3. ContextInv' /\ Moves(t, thread[t].rest)
  BY <1>1, <1>2, GoesMoves
<1>4. NatOK' /\ nat'.kill /\ ~nat'.driver /\ nat'.clients = nat.clients /\ nat'.data = nat.data
  BY <1>1 DEF Shape, TypeInv, NatOK
<1>5. SvcOK' /\ LibOK' /\ eps' \in [Threads -> EpStates]
  <2>1. SvcOK'
    BY <1>1 DEF Shape, TypeInv, SvcOK
  <2>2. LibOK' /\ eps' \in [Threads -> EpStates]
    BY <1>1 DEF Shape, TypeInv, LibOK
  <2>3. QED
    BY <2>1, <2>2
<1>6. QED
  BY <1>1, <1>2, <1>3, <1>4, <1>5, ShapeKept DEF TypeInv

(* A call stays in its role when a request of its fails. *)
LEMMA FailStays ==
    ASSUME ContextInv, NEW t \in roles, thread[t].pc \in Requests, NEW refused \in BOOLEAN
    PROVE  GoodPlan(Failed(t, refused)) /\ Names(Failed(t, refused)) \subseteq RoleLabels(t)
<1> DEFINE l == thread[t].pc
           R == Names(thread[t].rest)
<1>1. /\ GoodPlan(Failed(t, refused))
      /\ l # "connect" => Names(Failed(t, refused)) = FailNames(t, refused)
      /\ l = "connect" => Names(Failed(t, refused)) \subseteq R
  BY AtWork, FailedPlan
<1>2. R \subseteq RoleLabels(t) /\ l \in RoleLabels(t)
  BY AtWork DEF Requests, ManagerAsks, OpenAsks, CloseAsks, Mutex
<1>3. CASE l \in ManagerAsks \cup OpenAsks \cup CloseAsks /\ l # "restart"
  <2>1. t = "service"
    <3>1. l \in ServiceLabels
      BY <1>3 DEF ManagerAsks, OpenAsks, CloseAsks, ServiceLabels, InitLabels, BootLabels, RouteLabels, OpenLabels, CloseLabels
    <3>2. QED
      BY <1>2, <3>1, RoleOf
  <2>2. FailNames(t, refused) \subseteq ServiceLabels \cup R
    BY <1>3 DEF FailNames, ManagerAsks, OpenAsks, CloseAsks, ServiceLabels, InitLabels, BootLabels, RouteLabels, OpenLabels, CloseLabels
  <2>3. l # "connect"
    BY <1>3 DEF ManagerAsks, OpenAsks, CloseAsks
  <2>4. QED
    BY <1>1, <1>2, <2>1, <2>2, <2>3, RoleHas
<1>4. CASE l \in {"p2pConnect", "p2pDisconnect", "check"}
  <2>1. t = "peer"
    BY <1>2, <1>4, RoleOf
  <2>2. FailNames(t, refused) \subseteq PeerLabels \cup R
    BY <1>4 DEF FailNames, OpenAsks, CloseAsks, PeerLabels
  <2>3. QED
    BY <1>1, <1>2, <1>4, <2>1, <2>2, RoleHas
<1>5. CASE l \in {"connect", "reconnect", "tagDisconnect"}
  <2>1. t \in {"tag1", "tag2"}
    BY <1>2, <1>5, RoleOf
  <2>2. l # "connect" => FailNames(t, refused) \subseteq TagLabels \cup R
    BY <1>5 DEF FailNames, OpenAsks, CloseAsks, TagLabels
  <2>3. QED
    BY <1>1, <1>2, <1>5, <2>1, <2>2, RoleHas
<1>6. CASE l \in {"accepting", "llcp"}
  <2>1. t \notin {"service"} \cup DeviceThreads
    BY <1>2, <1>6, RoleOf DEF OtherLabels
  <2>2. FailNames(t, refused) \subseteq OtherLabels \cup R
    BY <1>6 DEF FailNames, OpenAsks, CloseAsks, OtherLabels
  <2>3. QED
    BY <1>1, <1>2, <1>6, <2>1, <2>2, RoleHas
<1>7. CASE l \in {"ask", "restart", "seAsk"}
  <2>1. FailNames(t, refused) = R
    BY <1>7 DEF FailNames, OpenAsks, CloseAsks
  <2>2. QED
    BY <1>1, <1>2, <1>7, <2>1
<1>8. QED
  BY <1>3, <1>4, <1>5, <1>6, <1>7 DEF Requests

LEMMA PreparedFacts ==
    ASSUME NatOK, NEW l
    PROVE  /\ Prepared(l).driver = nat.driver /\ Prepared(l).clients = nat.clients /\ Prepared(l).kill = nat.kill
           /\ Prepared(l).data = IF l = "check" THEN "alive" ELSE nat.data
           /\ DOMAIN Prepared(l) = DOMAIN nat /\ Prepared(l).flag \in BOOLEAN
<1> DEFINE r == ResetTimeouts
<1>1. /\ DOMAIN r = DOMAIN nat /\ r.driver = nat.driver /\ r.clients = nat.clients /\ r.kill = nat.kill
      /\ r.data = nat.data /\ r.flag = nat.flag
  BY DEF ResetTimeouts, NatOK
<1> HIDE DEF r
<1>2. CASE l \in {"start", "restart"}
  <2>1. Prepared(l) = [r EXCEPT !.flag = FALSE]
    BY <1>2 DEF Prepared, r
  <2>2. QED
    BY <1>1, <1>2, <2>1 DEF NatOK
<1>3. CASE l = "tagDisconnect"
  <2>1. Prepared(l) = r
    BY <1>3 DEF Prepared, r
  <2>2. QED
    BY <1>1, <1>3, <2>1 DEF NatOK
<1>4. CASE l = "check"
  <2>1. Prepared(l) = [nat EXCEPT !.data = "alive"]
    BY <1>4 DEF Prepared
  <2>2. QED
    BY <1>4, <2>1 DEF NatOK
<1>5. CASE l \notin {"start", "restart", "tagDisconnect", "check"}
  <2>1. Prepared(l) = nat
    BY <1>5 DEF Prepared
  <2>2. QED
    BY <1>5, <2>1 DEF NatOK
<1>6. QED
  BY <1>2, <1>3, <1>4, <1>5

\* A request is accepted, refused, or answered and the answer seen.
LEMMA AcceptsStep ==
    ASSUME Shape, NEW t \in roles, accepts(t)
    PROVE  /\ Shape' /\ Sleeps(t, "waits") /\ thread[t].st = "runs"
           /\ thread[t].pc \in (Requests \ {"seNotified"}) \cap RoleLabels(t)
           /\ MayAccept(t, thread[t].pc) /\ msgs' = msgs \cup {Request(t, thread[t].pc)}
           /\ nat'.driver = nat.driver /\ nat'.clients = nat.clients /\ nat'.kill = nat.kill
           /\ nat'.data = IF thread[t].pc = "check" THEN "alive" ELSE nat.data
<1> DEFINE l == thread[t].pc
<1>1. /\ l \in Requests \ {"seNotified"} /\ thread[t].st = "runs" /\ MayAccept(t, l)
      /\ thread' = [thread EXCEPT ![t].st = "waits"] /\ msgs' = msgs \cup {Request(t, l)}
      /\ nat' = Prepared(l) /\ UNCHANGED <<lib, svc, eps, roles, calls>>
  BY DEF accepts, At, Asks, bounds
<1>2. l \notin Mutex /\ ContextInv
  BY <1>1 DEF Requests, ManagerAsks, OpenAsks, CloseAsks, Mutex, Shape
<1>3. l \in RoleLabels(t) /\ t \in Threads /\ thread[t] \in Contexts
  BY <1>2, AtWork
<1>4. ContextInv' /\ Sleeps(t, "waits")
  BY <1>1, <1>2, SleepsOn DEF Mutex
<1>5. MsgType'
  <2>1. thread[t].id \in 1..calls /\ thread[t].tries \in Nat
    BY <1>2, <1>3 DEF Mutex, ContextInv, ThreadOK, Contexts
  <2>2. /\ Request(t, l) \in [to : roles, id : 1..calls, tries : Nat, what : Requests]
        /\ Request(t, l).what = l /\ Request(t, l).to = t
    BY <1>1, <2>1 DEF Request
  <2>3. QED
    BY <1>1, <1>3, <2>2 DEF MsgType, Shape
<1>6. /\ NatOK' /\ nat'.driver = nat.driver /\ nat'.clients = nat.clients /\ nat'.kill = nat.kill
      /\ nat'.data = IF l = "check" THEN "alive" ELSE nat.data
  <2>1. NatOK
    BY DEF Shape, TypeInv
  <2>2. QED
    BY <1>1, <2>1, PreparedFacts DEF NatOK
<1>7. LibOK' /\ SvcOK' /\ eps' \in [Threads -> EpStates]
  BY <1>1 DEF Shape, TypeInv, SvcOK, LibOK
<1>8. QED
  BY <1>1, <1>3, <1>4, <1>5, <1>6, <1>7 DEF Shape, TypeInv

LEMMA RefusesStep ==
    ASSUME Shape, NEW t \in roles, refuses(t)
    PROVE  /\ Shape' /\ Moves(t, Failed(t, TRUE)) /\ ~Answered(thread[t]) /\ thread[t].st = "runs"
           /\ thread[t].pc \in (Requests \ (Fatal \cup {"seNotified", "gpioGet"})) \cap RoleLabels(t)
           /\ nat'.driver = nat.driver /\ nat'.clients = nat.clients /\ nat'.kill = nat.kill
           /\ nat'.data = IF thread[t].pc = "check" THEN "freed" ELSE nat.data
<1> DEFINE l == thread[t].pc
<1>1. /\ l \in Requests \ (Fatal \cup {"seNotified", "gpioGet"}) /\ thread[t].st = "runs" /\ Leave(t, Failed(t, TRUE))
      /\ nat' = (IF l = "check" THEN [nat EXCEPT !.data = "freed"] ELSE Prepared(l))
      /\ UNCHANGED <<msgs, lib, svc, eps, roles, calls>>
  BY DEF refuses, At, Silent, bounds
<1>2. l \notin Mutex /\ ContextInv
  BY <1>1 DEF Requests, ManagerAsks, OpenAsks, CloseAsks, Mutex, Shape
<1>3. l \in RoleLabels(t) /\ ~Answered(thread[t])
  BY <1>1, <1>2, AtWork
<1>4. ContextInv' /\ Moves(t, Failed(t, TRUE))
  <2>1. GoodPlan(Failed(t, TRUE)) /\ Names(Failed(t, TRUE)) \subseteq RoleLabels(t)
    BY <1>1, <1>2, FailStays
  <2>2. QED
    BY <1>1, <1>2, <1>3, <2>1, LeaveMoves DEF Mutex
<1>5. /\ NatOK' /\ nat'.driver = nat.driver /\ nat'.clients = nat.clients /\ nat'.kill = nat.kill
      /\ nat'.data = IF l = "check" THEN "freed" ELSE nat.data
  <2>1. NatOK
    BY DEF Shape, TypeInv
  <2>2. CASE l = "check"
    BY <1>1, <2>1, <2>2 DEF NatOK
  <2>3. CASE l # "check"
    BY <1>1, <2>1, <2>3, PreparedFacts DEF NatOK
  <2>4. QED
    BY <2>2, <2>3
<1>6. LibOK' /\ SvcOK' /\ eps' \in [Threads -> EpStates]
  BY <1>1 DEF Shape, TypeInv, SvcOK, LibOK
<1>7. QED
  BY <1>1, <1>3, <1>4, <1>5, <1>6, ShapeKept DEF TypeInv

LEMMA WakesStep ==
    ASSUME Shape, NEW t \in roles, wakes(t)
    PROVE  /\ Shape' /\ Answered(thread[t]) /\ thread[t].pc # "deinit" /\ UNCHANGED <<msgs, adapter>>
           /\ thread[t].pc \in Requests \cap RoleLabels(t)
           /\ \/ Status(t) /\ Moves(t, thread[t].rest)
              \/ ~Status(t) /\ Moves(t, Failed(t, FALSE))
              \/ Status(t) /\ thread[t].pc = "init" /\ Moves(t, download_locked(TRUE) \o initializeTail)
              \/ Status(t) /\ thread[t].pc = "seField" /\ Moves(t, Failed(t, FALSE))
<1> DEFINE l == thread[t].pc
           q == download_locked(TRUE) \o initializeTail
<1>1. Woken(t) /\ Answered(thread[t]) /\ l # "deinit" /\ UNCHANGED <<msgs, adapter, roles, calls>> /\ ContextInv
  BY DEF wakes, Woken, Answered, Goes, Silent, bounds, Shape
<1>2. l \in Requests /\ GoodPlan(thread[t].rest) /\ Names(thread[t].rest) \subseteq RoleLabels(t) /\ t \in Threads
  BY <1>1, AtWork DEF ContextInv, ThreadOK, Woken
<1>3. l \in RoleLabels(t)
  BY <1>1, <1>2, AtWork DEF Requests, ManagerAsks, OpenAsks, CloseAsks, Mutex
<1>4. GoodPlan(Failed(t, FALSE)) /\ Names(Failed(t, FALSE)) \subseteq RoleLabels(t)
  BY <1>1, <1>2, FailStays
<1>5. GoodPlan(q) /\ (l = "init" => Names(q) \subseteq RoleLabels(t))
  <2>1. GoodPlan(q) /\ Names(q) = {"fwDeinit"} \cup {"fwLoad", "fwInit", "eeprom", "seOff", "llcpConfig", "seListen", "enabled"}
    BY DownloadPlan
  <2>2. l = "init" => t = "service"
    BY <1>3, RoleOf DEF ServiceLabels, InitLabels
  <2> HIDE DEF q
  <2>3. QED
    BY <2>1, <2>2, RoleHas DEF ServiceLabels, InitLabels
<1>6. \/ Status(t) /\ Goes(t, thread[t].rest)
      \/ ~Status(t) /\ Goes(t, Failed(t, FALSE))
      \/ Status(t) /\ l = "init" /\ Goes(t, q)
      \/ Status(t) /\ l = "seField" /\ Goes(t, Failed(t, FALSE))
  BY DEF wakes
<1> HIDE DEF q
<1>7. ASSUME NEW p, GoodPlan(p), Names(p) \subseteq RoleLabels(t), Goes(t, p) PROVE Shape' /\ Moves(t, p)
  <2>1. ContextInv' /\ Moves(t, p)
    BY <1>1, <1>7, GoesMoves
  <2>2. QED
    BY <1>1, <2>1, ShapeKept, TypesKept DEF adapter
<1>8. QED
  BY <1>1, <1>2, <1>3, <1>4, <1>5, <1>6, <1>7 DEF q

-----------------------------------------------------------------------------
(* The calls *)

LEMMA StartsShape ==
    ASSUME Shape, NEW t, NEW p, GoodPlan(p), p # <<>>, Names(p) \subseteq RoleLabels(t), Begin(t, p), TypeInv'
    PROVE  Shape' /\ Starts(t, p) /\ t \in roles
<1>1. ContextInv' /\ Starts(t, p) /\ t \in roles
  BY BeginStarts DEF Shape
<1>2. calls \in Nat /\ calls' = calls + 1 /\ UNCHANGED <<roles, msgs>>
  BY <1>1 DEF Starts, Shape, ContextInv
<1>3. MsgType'
  BY <1>2, MessagesKept DEF Shape
<1>4. QED
  BY <1>1, <1>3 DEF Shape

\* What NfcService begins.
LEMMA ServiceCallsStep ==
    ASSUME Shape, ServiceCalls
    PROVE  /\ Shape' /\ UNCHANGED <<nat, lib, eps, incoming, open, hist>> /\ "service" \in roles
           /\ \E p :
                /\ GoodPlan(p) /\ p # <<>> /\ Starts("service", p)
                /\ \/ ~svc.on /\ UNCHANGED svc /\ Names(p) = {"configure", "init", "eeprom", "seOff", "llcpConfig", "seListen", "enabled"}
                   \/ /\ ~svc.on /\ ~nat.driver /\ UNCHANGED svc
                      /\ Names(p) = {"configure", "bootLoad", "unconfigure"}
                   \/ svc.on /\ ~svc.ee /\ Names(p) = {"deinit"} /\ UNCHANGED svc
                   \/ /\ svc.on /\ ~svc.ee
                      /\ \E polling \in BOOLEAN :
                           /\ svc' = [svc EXCEPT !.polling = polling]
                           /\ Names(p) = {"register", "seMode", IF polling THEN "start" ELSE "stop"}
                   \/ svc.on /\ ~svc.ee /\ svc.polling /\ Names(p) = {"start"} /\ UNCHANGED svc
                   \/ /\ svc.on /\ ~svc.ee /\ \A t \in Peers : eps[t] \notin {"upTarget", "upInitiator"}
                      /\ svc' = [svc EXCEPT !.polling = FALSE, !.restore = svc.polling]
                      /\ Names(p) = OpenNames \cup (IF svc.polling THEN {"stop"} ELSE {})
                   \/ svc.ee /\ UNCHANGED svc /\ Names(p) = {"seDisconnect", "gpioBack", "gpioClear", "seClosed"}
                   \/ svc.ee /\ UNCHANGED svc /\ Names(p) = {"seAsk"}
<1>1. UNCHANGED <<nat, lib, eps, incoming, open, hist>>
  BY DEF ServiceCalls, adapter
<1>2. svc \in [on : BOOLEAN, polling : BOOLEAN, ee : BOOLEAN, restore : BOOLEAN]
  BY DEF Shape, TypeInv, SvcOK
<1>3. NatOK' /\ LibOK' /\ eps' \in [Threads -> EpStates]
  BY <1>1 DEF Shape, TypeInv, NatOK, LibOK
<1>4. /\ RoleLabels("service") = ServiceLabels
      /\ {"configure", "init", "eeprom", "seOff", "llcpConfig", "seListen", "enabled", "bootLoad", "unconfigure",
          "deinit", "register", "seMode", "start", "stop", "seDisconnect", "gpioBack", "gpioClear", "seClosed", "seAsk"}
           \cup OpenNames \subseteq ServiceLabels
  BY RoleHas DEF ServiceLabels, InitLabels, BootLabels, RouteLabels, CloseLabels, OpenNames, OpenLabels
<1>5. ASSUME NEW p, GoodPlan(p), p # <<>>, Names(p) \subseteq ServiceLabels, Begin("service", p), SvcOK'
      PROVE  Shape' /\ Starts("service", p) /\ "service" \in roles
  BY <1>3, <1>4, <1>5, StartsShape DEF TypeInv
<1>6. CASE ~svc.on /\ Begin("service", initialize) /\ UNCHANGED svc
  <2>1. SvcOK'
    BY <1>2, <1>6 DEF SvcOK
  <2>2. Shape' /\ Starts("service", initialize) /\ "service" \in roles
    BY <1>4, <1>5, <1>6, <2>1, InitializePlan
  <2>3. QED
    BY <1>1, <1>6, <2>2, InitializePlan
<1>7. CASE ~svc.on /\ ~nat.driver /\ Begin("service", doDownload) /\ UNCHANGED svc
  <2>1. SvcOK'
    BY <1>2, <1>7 DEF SvcOK
  <2>2. Shape' /\ Starts("service", doDownload) /\ "service" \in roles
    BY <1>4, <1>5, <1>7, <2>1, BootPlan
  <2>3. QED
    BY <1>1, <1>7, <2>2, BootPlan
<1>8. CASE svc.on /\ ~svc.ee /\ Begin("service", deinitialize) /\ UNCHANGED svc
  <2>1. SvcOK'
    BY <1>2, <1>8 DEF SvcOK
  <2>2. Block(deinitialize) /\ Names(deinitialize) = {"deinit"}
    BY ShortPlans DEF deinitialize
  <2>3. Shape' /\ Starts("service", deinitialize) /\ "service" \in roles
    BY <1>4, <1>5, <1>8, <2>1, <2>2 DEF Block
  <2>4. QED
    BY <1>1, <1>8, <2>2, <2>3 DEF Block
<1>9. ASSUME NEW polling \in BOOLEAN, svc.on /\ ~svc.ee, Begin("service", applyRouting(polling)),
             svc' = [svc EXCEPT !.polling = polling]
      PROVE  /\ Shape' /\ Starts("service", applyRouting(polling)) /\ "service" \in roles /\ GoodPlan(applyRouting(polling))
             /\ applyRouting(polling) # <<>>
             /\ Names(applyRouting(polling)) = {"register", "seMode", IF polling THEN "start" ELSE "stop"}
  <2>1. SvcOK'
    BY <1>2, <1>9 DEF SvcOK
  <2>2. /\ Block(applyRouting(polling))
        /\ Names(applyRouting(polling)) = {"register", "seMode", IF polling THEN "start" ELSE "stop"}
    BY RoutingPlan
  <2>3. Names(applyRouting(polling)) \subseteq ServiceLabels
    BY <1>4, <2>2
  <2>4. QED
    BY <1>5, <1>9, <2>1, <2>2, <2>3 DEF Block
<1>10. CASE svc.on /\ ~svc.ee /\ svc.polling /\ UNCHANGED svc
            /\ \E plan \in {doEnableReaderMode, doDisableReaderMode} : Begin("service", plan)
  <2>1. SvcOK'
    BY <1>2, <1>10 DEF SvcOK
  <2>2. PICK p \in {doEnableReaderMode, doDisableReaderMode} : Begin("service", p)
    BY <1>10
  <2>3. Block(p) /\ Names(p) = {"start"}
    BY RoutePlans
  <2>4. Shape' /\ Starts("service", p) /\ "service" \in roles
    BY <1>4, <1>5, <2>1, <2>2, <2>3 DEF Block
  <2>5. QED
    BY <1>1, <1>10, <2>3, <2>4 DEF Block
<1>11. CASE /\ svc.on /\ ~svc.ee /\ \A t \in Peers : eps[t] \notin {"upTarget", "upInitiator"}
            /\ Begin("service", Open) /\ svc' = [svc EXCEPT !.polling = FALSE, !.restore = svc.polling]
  <2>1. SvcOK'
    BY <1>2, <1>11 DEF SvcOK
  <2>2. GoodPlan(Open) /\ Open # <<>> /\ Names(Open) = OpenNames \cup (IF svc.polling THEN {"stop"} ELSE {})
    BY <1>2, OpenPlan
  <2>3. Shape' /\ Starts("service", Open) /\ "service" \in roles
    BY <1>4, <1>5, <1>11, <2>1, <2>2
  <2>4. QED
    BY <1>1, <1>11, <2>2, <2>3
<1>12. CASE svc.ee /\ Begin("service", seDisconnect) /\ UNCHANGED svc
  <2>1. SvcOK'
    BY <1>2, <1>12 DEF SvcOK
  <2>2. Shape' /\ Starts("service", seDisconnect) /\ "service" \in roles
    BY <1>4, <1>5, <1>12, <2>1, ClosePlan
  <2>3. QED
    BY <1>1, <1>12, <2>2, ClosePlan
<1>13. CASE svc.ee /\ Begin("service", seTransceive) /\ UNCHANGED svc
  <2>1. SvcOK'
    BY <1>2, <1>13 DEF SvcOK
  <2>2. Block(seTransceive) /\ Names(seTransceive) = {"seAsk"}
    BY ShortPlans DEF seTransceive
  <2>3. Shape' /\ Starts("service", seTransceive) /\ "service" \in roles
    BY <1>4, <1>5, <1>13, <2>1, <2>2 DEF Block
  <2>4. QED
    BY <1>1, <1>13, <2>2, <2>3 DEF Block
<1>14. \/ ~svc.on /\ Begin("service", initialize) /\ UNCHANGED svc
       \/ ~svc.on /\ ~nat.driver /\ Begin("service", doDownload) /\ UNCHANGED svc
       \/ svc.on /\ ~svc.ee /\ Begin("service", deinitialize) /\ UNCHANGED svc
       \/ /\ svc.on /\ ~svc.ee
          /\ \E polling \in BOOLEAN : Begin("service", applyRouting(polling)) /\ svc' = [svc EXCEPT !.polling = polling]
       \/ svc.on /\ ~svc.ee /\ svc.polling /\ UNCHANGED svc
            /\ \E plan \in {doEnableReaderMode, doDisableReaderMode} : Begin("service", plan)
       \/ /\ svc.on /\ ~svc.ee /\ \A t \in Peers : eps[t] \notin {"upTarget", "upInitiator"}
          /\ Begin("service", Open) /\ svc' = [svc EXCEPT !.polling = FALSE, !.restore = svc.polling]
       \/ svc.ee /\ Begin("service", seDisconnect) /\ UNCHANGED svc
       \/ svc.ee /\ Begin("service", seTransceive) /\ UNCHANGED svc
  BY DEF ServiceCalls, adapter
<1>15. CASE /\ svc.on /\ ~svc.ee
            /\ \E polling \in BOOLEAN : Begin("service", applyRouting(polling)) /\ svc' = [svc EXCEPT !.polling = polling]
  <2>1. PICK polling \in BOOLEAN : Begin("service", applyRouting(polling)) /\ svc' = [svc EXCEPT !.polling = polling]
    BY <1>15
  <2>2. /\ Shape' /\ Starts("service", applyRouting(polling)) /\ "service" \in roles /\ GoodPlan(applyRouting(polling))
        /\ applyRouting(polling) # <<>>
        /\ Names(applyRouting(polling)) = {"register", "seMode", IF polling THEN "start" ELSE "stop"}
    BY <1>9, <1>15, <2>1
  <2>3. QED
    BY <1>1, <1>15, <2>1, <2>2
<1>16. QED
  BY <1>6, <1>7, <1>8, <1>10, <1>11, <1>12, <1>13, <1>14, <1>15

\* What the other threads begin.
LEMMA OtherCallsStep ==
    ASSUME Shape, TagCalls \/ PeerStarts \/ SocketCalls \/ TimeoutCalls
    PROVE  /\ Shape' /\ UNCHANGED adapter
           /\ \E t \in roles : \E p :
                /\ GoodPlan(p) /\ p # <<>> /\ Starts(t, p) /\ t # "service"
                /\ \/ t \in Tags /\ eps[t] = "found" /\ Names(p) = {"connect", "connected"} /\ p = doConnect
                   \/ t \in Tags /\ eps[t] = "connected" /\ Names(p) = {"tagDisconnect", "released"}
                   \/ t \in Tags /\ eps[t] = "found" /\ Names(p) = {"restart", "released"}
                   \/ t \in Tags /\ eps[t] = "connected" /\ Names(p) \in {{"reconnect"}, {"ask"}}
                   \/ /\ t = "peer" /\ eps[t] \in {"target", "initiator"}
                      /\ Names(p) = {"check", "activate"} \cup (IF eps[t] = "target" THEN {"p2pConnect"} ELSE {})
                   \/ t = "peer" /\ eps[t] = "lost" /\ Names(p) = {"p2pDisconnect", "released"}
                   \/ t = "peer" /\ eps[t] \in {"upTarget", "upInitiator"} /\ Names(p) = {"ask"}
                   \/ t \notin {"service"} \cup DeviceThreads /\ Names(p) \subseteq OtherLabels
<1>1. UNCHANGED adapter
  BY DEF TagCalls, PeerStarts, SocketCalls, TimeoutCalls
<1>2. TypeInv'
  BY <1>1, TypesKept DEF adapter
<1>3. ASSUME NEW t, NEW p, GoodPlan(p), p # <<>>, Names(p) \subseteq RoleLabels(t), Begin(t, p)
      PROVE  Shape' /\ Starts(t, p) /\ t \in roles
  BY <1>2, <1>3, StartsShape
<1>4. ASSUME NEW t \in Tags PROVE t \in {"tag1", "tag2"} /\ t # "service" /\ RoleLabels(t) = TagLabels
  BY <1>4, RoleHas DEF Tags
<1>5. CASE TagCalls
  <2>1. PICK t \in Tags :
         \/ eps[t] = "found" /\ Begin(t, doConnect)
         \/ eps[t] \in {"found", "connected"} /\ Begin(t, doDisconnect(t))
         \/ /\ eps[t] = "connected"
            /\ \E plan \in {doReconnect, doHandleReconnect, doRead, doWrite, doTransceive, doCheckNdef,
                            doPresenceCheck, doNdefFormat, doMakeReadonly} : Begin(t, plan)
    BY <1>5 DEF TagCalls
  <2>2. CASE eps[t] = "found" /\ Begin(t, doConnect)
    <3>1. Block(doConnect) /\ Names(doConnect) = {"connect", "connected"}
      BY TwoLocked DEF doConnect
    <3>2. Shape' /\ Starts(t, doConnect) /\ t \in roles
      BY <1>3, <1>4, <2>2, <3>1 DEF Block, TagLabels
    <3>3. QED
      BY <1>1, <1>4, <2>2, <3>1, <3>2 DEF Block
  <2>3. CASE eps[t] \in {"found", "connected"} /\ Begin(t, doDisconnect(t))
    <3> DEFINE a == IF eps[t] = "connected" THEN "tagDisconnect" ELSE "restart"
    <3>1. Block(Locked(<<a, "released">>)) /\ Names(Locked(<<a, "released">>)) = {a, "released"}
      BY TwoLocked
    <3>2. doDisconnect(t) = Locked(<<a, "released">>)
      BY DEF doDisconnect
    <3>3. {a, "released"} \subseteq TagLabels
      BY DEF TagLabels
    <3> DEFINE p == Locked(<<a, "released">>)
    <3> HIDE DEF p
    <3>4. Shape' /\ Starts(t, p) /\ t \in roles
      BY <1>3, <1>4, <2>3, <3>1, <3>2, <3>3 DEF Block, p
    <3>5. QED
      BY <1>1, <1>4, <2>3, <3>1, <3>4 DEF Block, p
  <2>4. CASE /\ eps[t] = "connected"
             /\ \E plan \in {doReconnect, doHandleReconnect, doRead, doWrite, doTransceive, doCheckNdef,
                             doPresenceCheck, doNdefFormat, doMakeReadonly} : Begin(t, plan)
    <3> DEFINE r == Locked(<<"reconnect">>)
               a == Locked(<<"ask">>)
    <3>1. PICK p \in {r, a} : Begin(t, p)
      BY <2>4 DEF doReconnect, doHandleReconnect, doRead, doWrite, doTransceive, doCheckNdef, doPresenceCheck,
                  doNdefFormat, doMakeReadonly
    <3>2. Block(r) /\ Names(r) = {"reconnect"} /\ Block(a) /\ Names(a) = {"ask"}
      BY ShortPlans
    <3> HIDE DEF r, a
    <3>3. Block(p) /\ Names(p) \in {{"reconnect"}, {"ask"}} /\ Names(p) \subseteq TagLabels
      BY <3>1, <3>2 DEF TagLabels
    <3>4. Shape' /\ Starts(t, p) /\ t \in roles
      BY <1>3, <1>4, <3>1, <3>3 DEF Block
    <3>5. QED
      BY <1>1, <1>4, <2>4, <3>3, <3>4 DEF Block
  <2>5. QED
    BY <2>1, <2>2, <2>3, <2>4
<1>6. CASE PeerStarts
  <2>1. PICK t \in Peers :
           \/ eps[t] \in {"target", "initiator"} /\ Begin(t, llcpActivated(eps[t]))
           \/ eps[t] = "lost" /\ Begin(t, p2pDisconnect)
           \/ /\ eps[t] \in {"upTarget", "upInitiator"}
              /\ \E plan \in {p2pSend, p2pReceive, p2pTransceive} : Begin(t, plan)
    BY <1>6 DEF PeerStarts
  <2>2. t = "peer" /\ RoleLabels(t) = PeerLabels
    BY RoleHas DEF Peers
  <2>3. CASE eps[t] \in {"target", "initiator"} /\ Begin(t, llcpActivated(eps[t]))
    <3> DEFINE p == llcpActivated(eps[t])
    <3>1. /\ GoodPlan(p) /\ p # <<>>
          /\ Names(p) = {"check", "activate"} \cup (IF eps[t] = "target" THEN {"p2pConnect"} ELSE {})
      BY PeerPlan
    <3> HIDE DEF p
    <3>2. Names(p) \subseteq PeerLabels
      BY <3>1 DEF PeerLabels
    <3>3. Shape' /\ Starts(t, p) /\ t \in roles
      BY <1>3, <2>2, <2>3, <3>1, <3>2 DEF p
    <3>4. QED
      BY <1>1, <2>2, <2>3, <3>1, <3>3
  <2>4. CASE eps[t] = "lost" /\ Begin(t, p2pDisconnect)
    <3>1. Block(p2pDisconnect) /\ Names(p2pDisconnect) = {"p2pDisconnect", "released"}
      BY TwoLocked DEF p2pDisconnect
    <3>2. Shape' /\ Starts(t, p2pDisconnect) /\ t \in roles
      BY <1>3, <2>2, <2>4, <3>1 DEF Block, PeerLabels
    <3>3. QED
      BY <1>1, <2>2, <2>4, <3>1, <3>2 DEF Block
  <2>5. CASE /\ eps[t] \in {"upTarget", "upInitiator"}
             /\ \E plan \in {p2pSend, p2pReceive, p2pTransceive} : Begin(t, plan)
    <3> DEFINE a == Locked(<<"ask">>)
    <3>1. Begin(t, a)
      BY <2>5 DEF p2pSend, p2pReceive, p2pTransceive
    <3>2. Block(a) /\ Names(a) = {"ask"}
      BY ShortPlans
    <3> HIDE DEF a
    <3>3. Shape' /\ Starts(t, a) /\ t \in roles
      BY <1>3, <2>2, <3>1, <3>2 DEF Block, PeerLabels
    <3>4. QED
      BY <1>1, <2>2, <2>5, <3>2, <3>3 DEF Block
  <2>6. QED
    BY <2>1, <2>3, <2>4, <2>5
<1>7. CASE SocketCalls
  <2> DEFINE b == <<"llcp">>
  <2>1. PICK t \in {"accept1", "accept2", "client", "datagrams"} : Begin(t, doAccept) \/ Begin(t, b)
    BY <1>7 DEF SocketCalls, Servers, socketConnect, socketConnectBy, socketSend, socketReceive, sendTo, receiveFrom
  <2>2. RoleLabels(t) = OtherLabels /\ t \notin {"service"} \cup DeviceThreads
    BY RoleHas DEF DeviceThreads
  <2>3. /\ GoodPlan(doAccept) /\ Names(doAccept) \subseteq OtherLabels /\ doAccept # <<>>
        /\ GoodPlan(b) /\ Names(b) \subseteq OtherLabels /\ b # <<>>
    <3>1. Names(doAccept) = {"accept", "accepting"} /\ Names(b) = {"llcp"} /\ GoodPlan(b) /\ b # <<>>
      BY ShortPlans
    <3>2. QED
      BY <3>1, ShortPlans DEF OtherLabels
  <2> HIDE DEF b
  <2>4. CASE Begin(t, doAccept)
    <3>1. Shape' /\ Starts(t, doAccept) /\ t \in roles
      BY <1>3, <2>2, <2>3, <2>4
    <3>2. QED
      BY <1>1, <2>2, <2>3, <3>1
  <2>5. CASE Begin(t, b)
    <3>1. Shape' /\ Starts(t, b) /\ t \in roles
      BY <1>3, <2>2, <2>3, <2>5
    <3>2. QED
      BY <1>1, <2>2, <2>3, <3>1
  <2>6. QED
    BY <2>1, <2>4, <2>5
<1>8. CASE TimeoutCalls
  <2> DEFINE s == <<"lock", "setTimeout", "unlock">>
             z == <<"lock">>
             r == Locked(<<"resetTimeouts">>)
  <2>1. PICK p \in {s, z, r} : Begin("binder", p)
    <3>1. \A ms : doSetTimeout(ms) \in {s, z}
      BY DEF doSetTimeout
    <3>2. doResetTimeouts = r
      BY DEF doResetTimeouts
    <3> HIDE DEF s, z, r
    <3>3. QED
      BY <1>8, <3>1, <3>2 DEF TimeoutCalls
  <2>2. RoleLabels("binder") = OtherLabels /\ "binder" \notin {"service"} \cup DeviceThreads
    BY RoleHas DEF DeviceThreads
  <2>3. /\ GoodPlan(s) /\ Names(s) = {"setTimeout"} /\ s # <<>> /\ GoodPlan(z) /\ Names(z) = {} /\ z # <<>>
        /\ Block(r) /\ Names(r) = {"resetTimeouts"}
    BY ShortPlans
  <2> HIDE DEF s, z, r
  <2>4. GoodPlan(p) /\ p # <<>> /\ Names(p) \subseteq OtherLabels
    BY <2>1, <2>3 DEF Block, OtherLabels
  <2>5. Shape' /\ Starts("binder", p) /\ "binder" \in roles
    BY <1>3, <2>1, <2>2, <2>4
  <2>6. QED
    BY <1>1, <2>2, <2>4, <2>5
<1>9. QED
  BY <1>5, <1>6, <1>7, <1>8

\* The sockets come and go.
LEMMA SocketSteps ==
    ASSUME Shape, \/ createServiceSocket \/ createLlcpSocket \/ createConnectionlessSocket
                  \/ closeSocket \/ closeConnectionless \/ \E t \in Servers : closeServiceSocket(t)
    PROVE  /\ Shape' /\ UNCHANGED <<msgs, nat, lib, svc, eps, incoming, hist, roles>>
           /\ UNCHANGED thread \/ (Stirs /\ \A u \in Threads : thread'[u].st # "cond")
<1>1. CASE createServiceSocket \/ createLlcpSocket \/ createConnectionlessSocket
  <2>1. /\ UNCHANGED <<thread, msgs, nat, lib, svc, eps, incoming, hist, roles>> /\ calls' = calls + 1
    BY <1>1 DEF createServiceSocket, createLlcpSocket, createConnectionlessSocket, Creates
  <2>2. calls \in Nat /\ calls' \in Nat /\ calls' >= calls /\ \A i \in 1..calls : i \in 1..calls'
    BY <2>1 DEF Shape, ContextInv
  <2>3. MsgType'
    BY <2>1, <2>2, MessagesKept DEF Shape
  <2>4. ContextInv'
    BY <2>1, <2>2 DEF Shape, ContextInv, ThreadOK
  <2>5. QED
    BY <2>1, <2>3, <2>4, TypesKept DEF Shape
<1>2. CASE closeSocket \/ closeConnectionless
  <2>1. UNCHANGED <<thread, msgs, nat, lib, svc, eps, incoming, hist, roles, calls>>
    BY <1>2 DEF closeSocket, closeConnectionless, bounds
  <2>2. ContextInv'
    BY <2>1 DEF Shape, ContextInv, ThreadOK
  <2>3. QED
    BY <2>1, <2>2, TypesKept, ShapeKept
<1>3. CASE \E t \in Servers : closeServiceSocket(t)
  <2>1. Broadcast /\ UNCHANGED <<msgs, nat, lib, svc, eps, incoming, hist, roles, calls>>
    BY <1>3 DEF closeServiceSocket, bounds
  <2>2. ContextInv' /\ Stirs /\ \A u \in Threads : thread'[u].st # "cond"
    BY <2>1, BroadcastStirs DEF Shape
  <2>3. QED
    BY <2>1, <2>2, TypesKept, ShapeKept
<1>4. QED
  BY <1>1, <1>2, <1>3

-----------------------------------------------------------------------------
(* libnfc *)

\* libnfc after an answer.
LibAfter(m, good) ==
    CASE m.what \in {"init", "fwInit"} /\ good -> [LibOff EXCEPT !.on = TRUE]
      [] m.what \in {"deinit", "fwDeinit"} /\ good -> [Freed(LibOff) EXCEPT !.link = Freed(lib).link]
      [] m.what = "start" /\ good -> [Freed(lib) EXCEPT !.cfg = TRUE]
      [] m.what = "restart" /\ good -> Freed(lib)
      [] m.what = "stop" /\ good -> [Freed(lib) EXCEPT !.cfg = FALSE]
      [] m.what \in {"tagDisconnect", "p2pDisconnect"} -> Freed(lib)
      [] m.what \in {"connect", "p2pConnect"} /\ good /\ lib.target = m.to -> [lib EXCEPT !.conn = TRUE]
      [] m.what = "check" /\ good /\ lib.target = m.to -> [lib EXCEPT !.link = "checked"]
      [] m.what = "seWired" /\ good -> [lib EXCEPT !.wired = TRUE]
      [] m.what = "seDisconnect" /\ good -> [lib EXCEPT !.wired = FALSE]
      [] OTHER -> lib

LEMMA FreedFacts ==
    ASSUME LibOK
    PROVE  LET f == Freed(lib)
           IN  /\ f \in [on : BOOLEAN, cfg : BOOLEAN, listener : {"none", "se", "discovery"}, target : Threads \cup {None},
                         passive : BOOLEAN, conn : BOOLEAN, wired : BOOLEAN,
                         link : {"none", "checked", "activating", "up", "lost"}]
               /\ f.on = lib.on /\ f.cfg = lib.cfg /\ f.listener = lib.listener /\ f.target = None /\ ~f.passive /\ ~f.conn
               /\ f.wired = lib.wired
               /\ f.link = IF lib.link \in {"up", "activating"} THEN "lost" ELSE IF lib.link = "checked" THEN "none" ELSE lib.link
BY DEF LibOK, Freed

LEMMA LibOffFacts ==
    /\ LibOff \in [on : BOOLEAN, cfg : BOOLEAN, listener : {"none", "se", "discovery"}, target : Threads \cup {None},
                   passive : BOOLEAN, conn : BOOLEAN, wired : BOOLEAN,
                   link : {"none", "checked", "activating", "up", "lost"}]
    /\ ~LibOff.on /\ ~LibOff.cfg /\ LibOff.listener = "none" /\ LibOff.target = None /\ ~LibOff.passive /\ ~LibOff.conn
    /\ ~LibOff.wired /\ LibOff.link = "none"
    /\ Freed(LibOff) = LibOff
<1>1. /\ LibOff \in [on : BOOLEAN, cfg : BOOLEAN, listener : {"none", "se", "discovery"}, target : Threads \cup {None},
                     passive : BOOLEAN, conn : BOOLEAN, wired : BOOLEAN,
                     link : {"none", "checked", "activating", "up", "lost"}]
      /\ ~LibOff.on /\ ~LibOff.cfg /\ LibOff.listener = "none" /\ LibOff.target = None /\ ~LibOff.passive /\ ~LibOff.conn
      /\ ~LibOff.wired /\ LibOff.link = "none"
  BY DEF LibOff
<1>2. Freed(LibOff) = LibOff
  <2>1. Freed(LibOff) = [LibOff EXCEPT !.target = None, !.passive = FALSE, !.conn = FALSE, !.link = "none"]
    BY <1>1 DEF Freed
  <2>2. QED
    BY <2>1 DEF LibOff
<1>3. QED
  BY <1>1, <1>2

\* What each answer does to libnfc.
LEMMA LibAfterFacts ==
    ASSUME LibOK, NEW m, NEW good \in BOOLEAN, lib' = LibAfter(m, good), m.what \in Requests
    PROVE  /\ LibOK'
           /\ m.what \in {"init", "fwInit"} /\ good => lib'.on /\ ~lib'.cfg /\ lib'.target = None /\ lib'.link = "none"
           /\ m.what \in {"deinit", "fwDeinit"} /\ good =>
                ~lib'.on /\ ~lib'.cfg /\ lib'.target = None /\ ~lib'.conn
                  /\ lib'.link = IF lib.link \in {"up", "activating", "lost"} THEN "lost" ELSE "none"
           /\ (m.what \in {"start", "restart", "stop"} /\ good) \/ m.what \in {"tagDisconnect", "p2pDisconnect"} =>
                /\ lib'.target = None /\ lib'.on = lib.on /\ lib'.listener = lib.listener
                /\ lib'.cfg = CASE m.what = "start" -> TRUE [] m.what = "stop" -> FALSE [] OTHER -> lib.cfg
                /\ lib'.link = IF lib.link \in {"up", "activating"} THEN "lost"
                               ELSE IF lib.link = "checked" THEN "none" ELSE lib.link
           /\ \/ m.what \in {"init", "fwInit", "deinit", "fwDeinit", "start", "restart", "stop"} /\ good
              \/ m.what \in {"tagDisconnect", "p2pDisconnect"}
              \/ /\ lib'.on = lib.on /\ lib'.cfg = lib.cfg /\ lib'.listener = lib.listener /\ lib'.target = lib.target
                 /\ lib'.passive = lib.passive
                 /\ lib'.conn = (lib.conn \/ (m.what \in {"connect", "p2pConnect"} /\ good /\ lib.target = m.to))
                 /\ lib'.link = IF m.what = "check" /\ good /\ lib.target = m.to THEN "checked" ELSE lib.link
<1>1. CASE m.what \in {"init", "fwInit"} /\ good
  <2>1. lib' = [LibOff EXCEPT !.on = TRUE]
    BY <1>1 DEF LibAfter
  <2>2. QED
    BY <1>1, <2>1, LibOffFacts DEF LibOK
<1>2. CASE m.what \in {"deinit", "fwDeinit"} /\ good
  <2>1. lib' = [LibOff EXCEPT !.link = Freed(lib).link]
    BY <1>2, LibOffFacts DEF LibAfter
  <2>2. QED
    BY <1>2, <2>1, LibOffFacts, FreedFacts DEF LibOK
<1>3. CASE (m.what \in {"start", "restart", "stop"} /\ good) \/ m.what \in {"tagDisconnect", "p2pDisconnect"}
  <2> DEFINE f == Freed(lib)
  <2>1. CASE m.what = "start"
    <3>1. lib' = [f EXCEPT !.cfg = TRUE]
      BY <1>3, <2>1 DEF LibAfter
    <3>2. QED
      BY <1>3, <2>1, <3>1, FreedFacts DEF LibOK
  <2>2. CASE m.what = "stop"
    <3>1. lib' = [f EXCEPT !.cfg = FALSE]
      BY <1>3, <2>2 DEF LibAfter
    <3>2. QED
      BY <1>3, <2>2, <3>1, FreedFacts DEF LibOK
  <2>3. CASE m.what \in {"restart", "tagDisconnect", "p2pDisconnect"}
    <3>1. lib' = f
      BY <1>3, <2>3 DEF LibAfter
    <3>2. LibOK'
      BY <3>1, FreedFacts DEF LibOK
    <3>3. /\ lib'.target = None /\ lib'.on = lib.on /\ lib'.listener = lib.listener /\ lib'.cfg = lib.cfg
          /\ lib'.link = IF lib.link \in {"up", "activating"} THEN "lost"
                         ELSE IF lib.link = "checked" THEN "none" ELSE lib.link
      BY <3>1, FreedFacts
    <3>4. QED
      BY <1>3, <2>3, <3>2, <3>3
  <2>4. QED
    BY <1>3, <2>1, <2>2, <2>3
<1>4. CASE m.what \in {"connect", "p2pConnect"} /\ good /\ lib.target = m.to
  <2>1. lib' = [lib EXCEPT !.conn = TRUE]
    BY <1>4 DEF LibAfter
  <2>2. QED
    BY <1>4, <2>1 DEF LibOK
<1>5. CASE m.what = "check" /\ good /\ lib.target = m.to
  <2>1. lib' = [lib EXCEPT !.link = "checked"]
    BY <1>5 DEF LibAfter
  <2>2. QED
    BY <1>5, <2>1 DEF LibOK
<1>6. CASE m.what \in {"seWired", "seDisconnect"} /\ good
  <2>1. lib' = [lib EXCEPT !.wired = (m.what = "seWired")]
    BY <1>6 DEF LibAfter
  <2>2. QED
    BY <1>6, <2>1 DEF LibOK
<1>7. CASE /\ ~(m.what \in {"init", "fwInit", "deinit", "fwDeinit", "start", "restart", "stop", "seWired", "seDisconnect"} /\ good)
           /\ m.what \notin {"tagDisconnect", "p2pDisconnect"}
           /\ ~(m.what \in {"connect", "p2pConnect", "check"} /\ good /\ lib.target = m.to)
  <2>1. lib' = lib
    BY <1>7 DEF LibAfter
  <2>2. QED
    BY <1>7, <2>1 DEF LibOK
<1>8. QED
  BY <1>1, <1>2, <1>3, <1>4, <1>5, <1>6, <1>7

LEMMA AnswersStep ==
    ASSUME Shape, answers
    PROVE  /\ Shape' /\ nat.clients > 0 /\ UNCHANGED <<nat, svc, eps, incoming, open, roles, calls>>
           /\ \E m \in msgs, good \in BOOLEAN :
                /\ Posts(m, good) /\ msgs' = (msgs \ {m}) \cup ElementNotified(m, good) /\ lib' = LibAfter(m, good)
                /\ m.what \in {"deinit", "fwDeinit"} => msgs = {m}
                /\ hist' = IF m.what \in {"start", "restart", "stop"} /\ ~good THEN hist \cup {"startFailed"} ELSE hist
<1>1. PICK m \in msgs, good \in BOOLEAN :
         /\ \/ managerAnswered(m, good)
            \/ tagAnswered(m, good)
            \/ peerAnswered(m, good)
            \/ socketAnswered(m, good)
            \/ seAnswered(m, good)
         /\ msgs' = (msgs \ {m}) \cup ElementNotified(m, good)
  BY DEF answers
<1>2. /\ Post(m, good) /\ UNCHANGED <<nat, svc, eps, incoming, open, roles, calls>> /\ nat.clients > 0
  BY <1>1 DEF answers, managerAnswered, tagAnswered, peerAnswered, socketAnswered, seAnswered, Post, bounds
<1>3. m.what \in Requests /\ LibOK /\ m \in [to : roles, id : 1..calls, tries : Nat, what : Requests]
      /\ m.what \in RoleLabels(m.to)
  BY DEF Shape, MsgType, TypeInv
<1>4. /\ m.what \in {"deinit", "fwDeinit"} => msgs = {m}
      /\ hist' = IF m.what \in {"start", "restart", "stop"} /\ ~good THEN hist \cup {"startFailed"} ELSE hist
      /\ lib' = LibAfter(m, good)
  <2>1. CASE managerAnswered(m, good)
    <3>1. /\ m.what \in ManagerAsks /\ (m.what \in {"deinit", "fwDeinit"} => msgs = {m})
          /\ hist' = IF m.what \in {"start", "restart", "stop"} /\ ~good THEN hist \cup {"startFailed"} ELSE hist
      BY <2>1 DEF managerAnswered
    <3>2. lib' = LibAfter(m, good)
      BY <2>1, <3>1 DEF managerAnswered, LibAfter, ManagerAsks
    <3>3. QED
      BY <3>1, <3>2
  <2>2. CASE tagAnswered(m, good)
    BY <2>2 DEF tagAnswered, LibAfter
  <2>3. CASE peerAnswered(m, good)
    BY <2>3 DEF peerAnswered, LibAfter
  <2>4. CASE socketAnswered(m, good)
    BY <2>4 DEF socketAnswered, LibAfter
  <2>5. CASE seAnswered(m, good)
    BY <2>5 DEF seAnswered, LibAfter, OpenAsks, CloseAsks
  <2>6. QED
    BY <1>1, <2>1, <2>2, <2>3, <2>4, <2>5
<1>5. ContextInv' /\ Posts(m, good)
  BY <1>2, PostPosts
<1>6. LibOK'
  BY <1>3, <1>4, LibAfterFacts
<1>7. MsgType'
  <2>1. ASSUME NEW n \in ElementNotified(m, good)
        PROVE  n \in [to : roles, id : 1..calls, tries : Nat, what : Requests] /\ n.what \in RoleLabels(n.to)
    <3>1. n = [m EXCEPT !.what = "seNotified"] /\ m.what = "seWired"
      BY <2>1 DEF ElementNotified
    <3>2. m.to = "service"
      BY <1>3, <3>1, RoleOf DEF ServiceLabels, OpenLabels
    <3>3. "seNotified" \in Requests /\ "seNotified" \in RoleLabels("service")
      BY RoleHas DEF Requests, OpenAsks, ServiceLabels, OpenLabels
    <3>4. QED
      BY <1>3, <3>1, <3>2, <3>3
  <2>2. QED
    BY <1>1, <1>2, <2>1 DEF MsgType, Shape
<1>8. NatOK' /\ SvcOK' /\ eps' \in [Threads -> EpStates]
  BY <1>2 DEF Shape, TypeInv, NatOK, SvcOK
<1>9. QED
  BY <1>1, <1>2, <1>4, <1>5, <1>6, <1>7, <1>8 DEF Shape, TypeInv

\* Callbacks of the link, devices found and connections that come in.
LEMMA LinkEvents ==
    ASSUME Shape, clientStops \/ linkStatus \/ RemoteLeaves \/ Discovered \/ \E s \in Servers : listenCallback(s)
    PROVE  /\ Shape' /\ UNCHANGED <<msgs, svc, hist, roles, calls>>
           /\ UNCHANGED <<thread, incoming>> \/ (UNCHANGED thread /\ incoming' = {})
                \/ (Stirs /\ \A u \in Threads : thread'[u].st # "cond")
           /\ lib'.on = lib.on /\ lib'.cfg = lib.cfg /\ lib'.listener = lib.listener
           /\ nat'.driver = nat.driver
           /\ IF clientStops THEN nat.kill /\ ~nat'.kill /\ nat'.clients = nat.clients - 1 /\ nat.clients > 0 /\ UNCHANGED lib
              ELSE nat'.kill = nat.kill /\ nat'.clients = nat.clients
<1>1. CASE clientStops
  <2>1. /\ nat.kill /\ nat.clients > 0 /\ nat' = [nat EXCEPT !.kill = FALSE, !.clients = @ - 1]
        /\ UNCHANGED <<thread, msgs, lib, svc, eps, incoming, hist, roles, calls>>
    BY <1>1 DEF clientStops, bounds
  <2>2. NatOK
    BY DEF Shape, TypeInv
  <2>3. nat.clients \in Nat /\ nat.clients - 1 \in Nat
    BY <2>1, <2>2 DEF NatOK
  <2>4. NatOK' /\ ~nat'.kill /\ nat'.clients = nat.clients - 1 /\ nat'.driver = nat.driver
    BY <2>1, <2>2, <2>3 DEF NatOK
  <2>5. ContextInv' /\ LibOK' /\ SvcOK' /\ eps' \in [Threads -> EpStates]
    BY <2>1 DEF Shape, ContextInv, ThreadOK, TypeInv, LibOK, SvcOK
  <2>6. QED
    BY <1>1, <2>1, <2>4, <2>5, ShapeKept DEF TypeInv
<1>2. CASE linkStatus /\ ~clientStops
  <2>1. UNCHANGED <<thread, msgs, svc, hist, roles, calls>>
    BY <1>2 DEF linkStatus, bounds
  <2>2. \/ /\ lib' = [lib EXCEPT !.link = "up"] /\ nat' \in {nat, [nat EXCEPT !.flag = TRUE]}
           /\ UNCHANGED <<eps, incoming>>
        \/ /\ lib' = [lib EXCEPT !.link = "none"] /\ nat' = [nat EXCEPT !.flag = FALSE, !.data = "freed"]
           /\ eps' = [t \in DOMAIN eps |-> CASE eps[t] = "upTarget" -> "lost"
                                             [] eps[t] = "upInitiator" -> "done"
                                             [] OTHER -> eps[t]]
           /\ incoming' = {}
    BY <1>2 DEF linkStatus
  <2>3. LibOK' /\ lib'.on = lib.on /\ lib'.cfg = lib.cfg /\ lib'.listener = lib.listener
    BY <2>2 DEF Shape, TypeInv, LibOK
  <2>4. NatOK' /\ nat'.driver = nat.driver /\ nat'.kill = nat.kill /\ nat'.clients = nat.clients
    BY <2>2 DEF Shape, TypeInv, NatOK
  <2>5. eps' \in [Threads -> EpStates]
    BY <2>2 DEF Shape, TypeInv, EpStates
  <2>6. ContextInv' /\ SvcOK'
    BY <2>1 DEF Shape, ContextInv, ThreadOK, TypeInv, SvcOK
  <2>7. QED
    BY <1>2, <2>1, <2>2, <2>3, <2>4, <2>5, <2>6, ShapeKept DEF TypeInv
<1>3. CASE RemoteLeaves /\ ~clientStops
  <2>1. UNCHANGED <<thread, msgs, nat, svc, eps, incoming, hist, roles, calls>>
    BY <1>3 DEF RemoteLeaves, bounds
  <2>2. lib' = IF lib.passive THEN Freed(lib) ELSE [lib EXCEPT !.link = "lost"]
    BY <1>3 DEF RemoteLeaves
  <2>3. LibOK
    BY DEF Shape, TypeInv
  <2>4. LibOK' /\ lib'.on = lib.on /\ lib'.cfg = lib.cfg /\ lib'.listener = lib.listener
    <3>1. CASE lib.passive
      BY <2>2, <2>3, <3>1, FreedFacts DEF LibOK
    <3>2. CASE ~lib.passive
      BY <2>2, <2>3, <3>2 DEF LibOK
    <3>3. QED
      BY <3>1, <3>2
  <2>5. ContextInv' /\ SvcOK' /\ NatOK' /\ eps' \in [Threads -> EpStates]
    BY <2>1 DEF Shape, ContextInv, ThreadOK, TypeInv, SvcOK, NatOK
  <2>6. QED
    BY <1>3, <2>1, <2>4, <2>5, ShapeKept DEF TypeInv
<1>4. CASE Discovered /\ ~clientStops
  <2>1. UNCHANGED <<thread, msgs, svc, incoming, hist, roles, calls>> /\ nat' = [nat EXCEPT !.flag = TRUE]
    BY <1>4 DEF Discovered
  <2>2. PICK t \in Tags \cup Peers, how \in {"found", "target", "initiator"} :
          eps' = [eps EXCEPT ![t] = how] /\ lib' = [lib EXCEPT !.target = t, !.passive = (how = "initiator")]
    BY <1>4 DEF Discovered
  <2>3. t \in Threads
    BY ThreadsOfRoles DEF Tags, Peers, Shape
  <2>4. LibOK' /\ lib'.on = lib.on /\ lib'.cfg = lib.cfg /\ lib'.listener = lib.listener
    BY <2>2, <2>3 DEF Shape, TypeInv, LibOK
  <2>5. NatOK' /\ nat'.driver = nat.driver /\ nat'.kill = nat.kill /\ nat'.clients = nat.clients
    BY <2>1 DEF Shape, TypeInv, NatOK
  <2>6. eps' \in [Threads -> EpStates]
    BY <2>2, <2>3 DEF Shape, TypeInv, EpStates
  <2>7. ContextInv' /\ SvcOK'
    BY <2>1 DEF Shape, ContextInv, ThreadOK, TypeInv, SvcOK
  <2>8. QED
    BY <1>4, <2>1, <2>4, <2>5, <2>6, <2>7, ShapeKept DEF TypeInv
<1>5. CASE (\E s \in Servers : listenCallback(s)) /\ ~clientStops
  <2>1. Broadcast /\ UNCHANGED <<msgs, nat, lib, svc, eps, hist, roles, calls>>
    BY <1>5 DEF listenCallback
  <2>2. ContextInv' /\ Stirs /\ \A u \in Threads : thread'[u].st # "cond"
    BY <2>1, BroadcastStirs DEF Shape
  <2>3. QED
    BY <1>5, <2>1, <2>2, ShapeKept, TypesKept
<1>6. QED
  BY <1>1, <1>2, <1>3, <1>4, <1>5

\* The process begins, and begins again.
Fresh ==
    /\ thread = [t \in Threads |-> IdleThread] /\ msgs = {} /\ eps = [t \in Threads |-> "free"]
    /\ incoming = {} /\ hist = {}
FirstOn == [LibOff EXCEPT !.on = TRUE, !.cfg = TRUE, !.listener = "discovery"]

LEMMA FreshShape ==
    ASSUME Fresh, roles \in RoleSets, calls \in Nat,
           \/ nat = NatOff /\ lib = LibOff /\ svc = SvcOff
           \/ /\ nat = [NatOff EXCEPT !.driver = TRUE, !.clients = 1] /\ lib = FirstOn
              /\ svc = [SvcOff EXCEPT !.on = TRUE, !.polling = TRUE]
    PROVE  Shape
<1>1. IdleThread \in Contexts /\ Orderly(IdleThread) /\ Todo(IdleThread) = {} /\ IdleThread.pc = "idle"
      /\ IdleThread.st = "runs"
  BY IdleFacts
<1>2. thread \in [Threads -> Contexts] /\ \A t \in Threads : thread[t] = IdleThread
  BY <1>1 DEF Fresh
<1>3. ContextInv
  BY <1>1, <1>2 DEF ContextInv, ThreadOK
<1>4. MsgType
  BY DEF MsgType, Fresh
<1>5. NatOK
  <2>1. CASE nat = NatOff
    BY <2>1 DEF NatOK, NatOff
  <2>2. CASE nat = [NatOff EXCEPT !.driver = TRUE, !.clients = 1]
    <3>1. /\ DOMAIN NatOff = {"driver", "clients", "kill", "flag", "data", "timeouts", "asked"}
          /\ NatOff.kill = FALSE /\ NatOff.flag = FALSE /\ NatOff.data = "none"
      BY DEF NatOff
    <3>2. QED
      BY <2>2, <3>1 DEF NatOK
  <2>3. QED
    BY <2>1, <2>2
<1>6. LibOK
  BY LibOffFacts DEF LibOK, FirstOn
<1>7. SvcOK
  <2>1. SvcOff \in [on : BOOLEAN, polling : BOOLEAN, ee : BOOLEAN, restore : BOOLEAN]
    BY DEF SvcOff
  <2>2. QED
    BY <2>1 DEF SvcOK
<1>8. eps \in [Threads -> EpStates]
  BY DEF Fresh, EpStates
<1>9. QED
  BY <1>3, <1>4, <1>5, <1>6, <1>7, <1>8 DEF Shape, TypeInv

LEMMA InitFresh ==
    ASSUME Init
    PROVE  /\ Shape /\ Fresh
           /\ \/ nat = NatOff /\ lib = LibOff /\ svc = SvcOff
              \/ /\ nat = [NatOff EXCEPT !.driver = TRUE, !.clients = 1] /\ lib = FirstOn
                 /\ svc = [SvcOff EXCEPT !.on = TRUE, !.polling = TRUE]
<1>1. Fresh /\ roles \in RoleSets /\ calls \in Nat
  BY DEF Init, Fresh
<1>2. \/ nat = NatOff /\ lib = LibOff /\ svc = SvcOff
      \/ /\ nat = [NatOff EXCEPT !.driver = TRUE, !.clients = 1] /\ lib = FirstOn
         /\ svc = [SvcOff EXCEPT !.on = TRUE, !.polling = TRUE]
  BY DEF Init, FirstOn
<1>3. QED
  BY <1>1, <1>2, FreshShape

LEMMA AbortsFresh ==
    ASSUME Shape, Aborts
    PROVE  /\ Shape' /\ Fresh' /\ nat' = NatOff /\ lib' = LibOff /\ svc' = SvcOff /\ UNCHANGED roles
<1>1. /\ thread' = [t \in Threads |-> IdleThread] /\ msgs' = {} /\ eps' = [t \in Threads |-> "free"]
      /\ incoming' = {} /\ hist' = {} /\ nat' = NatOff /\ lib' = LibOff /\ svc' = SvcOff /\ UNCHANGED <<roles, calls>>
  BY DEF Aborts, bounds
<1>2. IdleThread \in Contexts /\ Orderly(IdleThread) /\ Todo(IdleThread) = {} /\ IdleThread.pc = "idle"
      /\ IdleThread.st = "runs"
  BY IdleFacts
<1>3. thread' \in [Threads -> Contexts] /\ \A t \in Threads : thread'[t] = IdleThread
  BY <1>1, <1>2
<1>4. ContextInv'
  BY <1>1, <1>2, <1>3 DEF ContextInv, ThreadOK, Shape
<1>5. MsgType'
  BY <1>1 DEF MsgType
<1>6. NatOK'
  BY <1>1 DEF NatOK, NatOff
<1>7. LibOK'
  BY <1>1, LibOffFacts DEF LibOK
<1>8. SvcOK'
  BY <1>1 DEF SvcOK, SvcOff
<1>9. eps' \in [Threads -> EpStates]
  BY <1>1 DEF EpStates
<1>10. QED
  BY <1>1, <1>4, <1>5, <1>6, <1>7, <1>8, <1>9 DEF Shape, TypeInv, Fresh

\* What no step of a thread does: it leaves the other threads, their devices
\* and most of libnfc alone, and if it is not of the service or of the peer,
\* what belongs to them.
StepFrame(t) ==
    /\ UNCHANGED <<roles, calls>> /\ incoming' \subseteq incoming
    /\ \A u \in Threads : u # t => thread'[u] = thread[u] /\ eps'[u] = eps[u]
    /\ msgs' = msgs \/ accepts(t)
    /\ thread'[t].st = "cond" => accept(t)
    /\ lib'.on = lib.on /\ lib'.cfg = lib.cfg /\ lib'.target = lib.target /\ lib'.passive = lib.passive
    /\ lib'.conn = lib.conn
    /\ t # "service" =>
         /\ UNCHANGED <<svc, hist>> /\ lib'.listener = lib.listener
         /\ nat'.driver = nat.driver /\ nat'.clients = nat.clients /\ nat'.kill = nat.kill
    /\ t # "peer" => lib'.link = lib.link /\ nat'.data = nat.data

LEMMA StepKeeps ==
    ASSUME Shape, NEW t \in roles, Step(t)
    PROVE  Shape' /\ StepFrame(t)
<1>1. LibOK /\ ContextInv
  BY DEF Shape, TypeInv
<1>2. ASSUME NEW p, Moves(t, p)
      PROVE  thread'[t].st # "cond" /\ \A u \in Threads : u # t => thread'[u] = thread[u]
  BY <1>2 DEF Moves
<1>3. ASSUME Sleeps(t, "waits")
      PROVE  thread'[t].st # "cond" /\ \A u \in Threads : u # t => thread'[u] = thread[u]
  BY <1>3 DEF Sleeps
<1>4. CASE takeLock(t) \/ giveLock(t)
  <2>1. UNCHANGED <<msgs, nat, lib, svc, eps, incoming, hist, roles, calls>>
    BY <1>4 DEF takeLock, giveLock, adapter, bounds
  <2>2. QED
    BY <1>2, <1>4, <2>1, LockSteps DEF StepFrame
<1>5. CASE accepts(t)
  <2>1. UNCHANGED <<lib, svc, eps, incoming, hist, roles, calls>>
    BY <1>5 DEF accepts, Asks, bounds
  <2>2. t # "peer" => thread[t].pc # "check"
    BY <1>5, AcceptsStep, RoleOf
  <2>3. QED
    BY <1>3, <1>5, <2>1, <2>2, AcceptsStep DEF StepFrame
<1>6. CASE refuses(t)
  <2>1. UNCHANGED <<msgs, lib, svc, eps, incoming, hist, roles, calls>>
    BY <1>6 DEF refuses, Silent, bounds
  <2>2. t # "peer" => thread[t].pc # "check"
    BY <1>6, RefusesStep, RoleOf
  <2>3. QED
    BY <1>2, <1>6, <2>1, <2>2, RefusesStep DEF StepFrame
<1>7. CASE wakes(t)
  <2>1. UNCHANGED <<msgs, nat, lib, svc, eps, incoming, hist, roles, calls>>
    BY <1>7 DEF wakes, Goes, Silent, adapter, bounds
  <2>2. QED
    BY <1>2, <1>7, <2>1, WakesStep DEF StepFrame
<1>8. CASE activate(t)
  <2>1. UNCHANGED <<msgs, nat, svc, incoming, hist, roles, calls>>
    BY <1>8 DEF activate, Silent, bounds
  <2>2. /\ lib'.on = lib.on /\ lib'.cfg = lib.cfg /\ lib'.target = lib.target /\ lib'.passive = lib.passive
        /\ lib'.conn = lib.conn /\ lib'.listener = lib.listener
        /\ \A u \in Threads : u # t => eps'[u] = eps[u]
    BY <1>1, <1>8, ActivateStep DEF LibOK, Shape, TypeInv
  <2>3. QED
    BY <1>2, <1>8, <2>1, <2>2, ActivateStep DEF StepFrame
<1>9. CASE connected(t) \/ released(t) \/ ignored(t)
  <2>1. UNCHANGED <<msgs, lib, svc, incoming, hist, roles, calls>>
    BY <1>9 DEF connected, released, ignored, Silent, bounds
  <2>2. \A u \in Threads : u # t => eps'[u] = eps[u]
    BY <1>9, DeviceSteps DEF Shape, TypeInv
  <2>3. QED
    BY <1>2, <1>9, <2>1, <2>2, DeviceSteps DEF StepFrame
<1>10. CASE accept(t)
  <2>1. UNCHANGED <<msgs, nat, lib, svc, eps, hist, roles, calls>>
    BY <1>10 DEF accept, Silent, bounds
  <2>2. \A u \in Threads : u # t => thread'[u] = thread[u]
    BY <1>10, AcceptStep DEF Moves, Sleeps
  <2>3. QED
    BY <1>10, <2>1, <2>2, AcceptStep DEF StepFrame
<1>11. CASE timeoutStep(t)
  <2>1. UNCHANGED <<msgs, lib, svc, eps, incoming, hist, roles, calls>>
    BY <1>11 DEF timeoutStep, Silent, bounds
  <2>2. QED
    BY <1>2, <1>11, <2>1, TimeoutSteps DEF StepFrame
<1>12. CASE seCheck(t) \/ seRegister(t) \/ seListen(t)
  <2>1. UNCHANGED <<msgs, nat, svc, eps, incoming, hist, roles, calls>>
    BY <1>12 DEF seCheck, seRegister, seListen, Silent, bounds, adapter
  <2>2. /\ lib'.on = lib.on /\ lib'.cfg = lib.cfg /\ lib'.target = lib.target /\ lib'.passive = lib.passive
        /\ lib'.conn = lib.conn /\ lib'.link = lib.link
    BY <1>1, <1>12, LookSteps DEF LibOK
  <2>3. QED
    BY <1>2, <1>12, <2>1, <2>2, LookSteps DEF StepFrame
<1>13. CASE awaitElement(t) \/ gpioRefused(t)
  <2>1. UNCHANGED <<msgs, nat, lib, svc, eps, incoming, roles, calls>>
    BY <1>13 DEF awaitElement, gpioRefused, Silent, bounds, adapter
  <2>2. QED
    BY <1>3, <1>13, <2>1, AwaitSteps DEF StepFrame
<1>14. CASE seFailed(t) \/ seOpened(t) \/ seClosed(t) \/ enabled(t)
  <2>1. UNCHANGED <<msgs, nat, lib, eps, incoming, hist, roles, calls>>
    BY <1>14 DEF seFailed, seOpened, seClosed, enabled, Silent, bounds, adapter
  <2>2. QED
    BY <1>2, <1>14, <2>1, EndSteps DEF StepFrame
<1>15. CASE configure(t) \/ unconfigure(t) \/ initFails(t)
  <2>1. UNCHANGED <<msgs, lib, svc, eps, incoming, roles, calls>>
    BY <1>15 DEF configure, unconfigure, initFails, Silent, bounds
  <2>2. QED
    BY <1>2, <1>15, <2>1, DriverSteps DEF StepFrame
<1>16. CASE fwFailed(t)
  <2>1. UNCHANGED <<msgs, nat, lib, svc, eps, incoming, hist, roles, calls>> /\ thread[t].pc = "fwFailed"
    BY <1>16 DEF fwFailed, Silent, bounds, adapter, At
  <2>2. t = "service"
    BY <1>1, <2>1, AtWork, RoleOf DEF Mutex, ServiceLabels, InitLabels
  <2>3. /\ ContextInv'
        /\ \E p : /\ Moves(t, p) /\ GoodPlan(p) /\ p # <<>>
                  /\ \/ Names(p) = {"initFails"}
                     \/ Names(p) = {"fwLoad", "fwInit", "eeprom", "seOff", "llcpConfig", "seListen", "enabled"}
    BY <1>1, <1>16, <2>2, FailedAgain
  <2>4. Shape'
    BY <2>1, <2>3, ShapeKept, TypesKept
  <2>5. QED
    BY <1>2, <2>1, <2>3, <2>4 DEF StepFrame
<1>17. CASE register(t)
  <2>1. UNCHANGED <<msgs, nat, svc, eps, incoming, roles, calls>>
    BY <1>17 DEF register, Silent, bounds
  <2>2. /\ lib'.on = lib.on /\ lib'.cfg = lib.cfg /\ lib'.target = lib.target /\ lib'.passive = lib.passive
        /\ lib'.conn = lib.conn /\ lib'.link = lib.link
    BY <1>1, <1>17, RegisterStep DEF LibOK
  <2>3. QED
    BY <1>2, <1>17, <2>1, <2>2, RegisterStep DEF StepFrame
<1>18. CASE fwDeinitTimesOut(t)
  <2>1. UNCHANGED <<msgs, nat, lib, svc, eps, incoming, hist, roles, calls>>
    BY <1>18 DEF fwDeinitTimesOut, Silent, bounds, adapter
  <2>2. QED
    BY <1>2, <1>18, <2>1, UpdateTimesOut DEF StepFrame
<1>19. CASE deinitialized(t)
  <2>1. UNCHANGED <<msgs, lib, eps, incoming, hist, roles, calls>>
    BY <1>19 DEF deinitialized, Goes, Silent, bounds
  <2>2. QED
    BY <1>2, <1>19, <2>1, DeinitStep DEF StepFrame
<1>20. QED
  BY <1>4, <1>5, <1>6, <1>7, <1>8, <1>9, <1>10, <1>11, <1>12, <1>13, <1>14, <1>15, <1>16, <1>17, <1>18, <1>19 DEF Step

LEMMA NextShape ==
    ASSUME Shape, [Next]_vars
    PROVE  Shape'
<1>1. CASE UNCHANGED vars
  <2>1. UNCHANGED <<thread, msgs, nat, lib, svc, eps, roles, calls>>
    BY <1>1 DEF vars, adapter, bounds
  <2>2. ContextInv'
    BY <2>1 DEF Shape, ContextInv, ThreadOK
  <2>3. QED
    BY <2>1, <2>2, ShapeKept, TypesKept
<1>2. CASE Calls
  BY <1>2, ServiceCallsStep, OtherCallsStep, SocketSteps DEF Calls
<1>3. CASE Events
  BY <1>3, AnswersStep, LinkEvents, AbortsFresh DEF Events
<1>4. CASE \E t \in roles : Step(t)
  BY <1>4, StepKeeps
<1>5. QED
  BY <1>1, <1>2, <1>3, <1>4 DEF Next

-----------------------------------------------------------------------------
(* The incoming connections *)

\* No accept sleeps while a connection waits for its socket: a connection
\* is put in the list, or its socket closed, under the mutex that an accept
\* looks at the list under, and every sleeper is woken.
THEOREM IncomingCorrect == Spec => []NoLostIncoming
<1> DEFINE Inv == Shape /\ NoLostIncoming
<1>1. Init => Inv
  <2> SUFFICES ASSUME Init PROVE Inv
    OBVIOUS
  <2>1. Shape /\ incoming = {}
    BY InitFresh DEF Fresh
  <2>2. QED
    BY <2>1 DEF NoLostIncoming
<1>2. Inv /\ [Next]_vars => Inv'
  <2> SUFFICES ASSUME Shape, NoLostIncoming, [Next]_vars PROVE Shape' /\ NoLostIncoming'
    OBVIOUS
  <2>1. Shape'
    BY NextShape
  <2>2. Servers \subseteq Threads
    BY ThreadsOfRoles DEF Servers, Shape
  <2>3. ASSUME thread' = thread, roles' = roles, incoming' \subseteq incoming PROVE NoLostIncoming'
    BY <2>3 DEF NoLostIncoming, Servers
  <2>4. ASSUME roles' = roles, \A u \in Threads : thread'[u].st # "cond" PROVE NoLostIncoming'
    BY <2>2, <2>4 DEF NoLostIncoming, Servers
  <2>6. CASE UNCHANGED vars
    <3>1. thread' = thread /\ roles' = roles /\ incoming' = incoming
      BY <2>6 DEF vars, adapter, bounds
    <3>2. QED
      BY <2>1, <3>1 DEF NoLostIncoming, Servers
  <2>7. CASE ServiceCalls \/ TagCalls \/ PeerStarts \/ SocketCalls \/ TimeoutCalls
    <3>1. \E t \in Threads : \E p : Starts(t, p)
      BY <2>7, ServiceCallsStep, OtherCallsStep, ThreadsOfRoles DEF Shape
    <3>2. UNCHANGED incoming
      BY <2>7, ServiceCallsStep, OtherCallsStep DEF adapter
    <3>3. UNCHANGED roles /\ \A u \in Threads : thread'[u].st = "cond" => thread[u].st = "cond"
      BY <3>1 DEF Starts
    <3>4. QED
      BY <2>1, <2>2, <3>2, <3>3 DEF NoLostIncoming, Servers
  <2>8. CASE \/ createServiceSocket \/ createLlcpSocket \/ createConnectionlessSocket
             \/ closeSocket \/ closeConnectionless \/ \E t \in Servers : closeServiceSocket(t)
    BY <2>3, <2>4, <2>8, SocketSteps
  <2>9. CASE answers
    <3>1. UNCHANGED <<roles, incoming>> /\ \E m \in msgs, good \in BOOLEAN : Posts(m, good)
      BY <2>9, AnswersStep
    <3>2. \A u \in Threads : thread'[u].st = "cond" => thread[u].st = "cond"
      BY <3>1 DEF Posts
    <3>3. QED
      BY <2>1, <2>2, <3>1, <3>2 DEF NoLostIncoming, Servers
  <2>10. CASE clientStops \/ linkStatus \/ RemoteLeaves \/ Discovered \/ \E s \in Servers : listenCallback(s)
    BY <2>3, <2>4, <2>10, LinkEvents
  <2>11. CASE Aborts
    BY <2>11, AbortsFresh DEF Fresh, NoLostIncoming
  <2>12. ASSUME NEW t \in roles, Step(t) PROVE NoLostIncoming'
    <3>1. /\ roles' = roles /\ incoming' \subseteq incoming
          /\ thread'[t].st = "cond" => accept(t)
          /\ \A u \in Threads : u # t => thread'[u] = thread[u]
      BY <2>12, StepKeeps DEF StepFrame
    <3>2. thread'[t].st = "cond" => \A e \in incoming' : e[1] # t
      <4>1. ASSUME accept(t), thread'[t].st = "cond" PROVE {e \in incoming : e[1] = t} = {}
        BY <4>1, AcceptStep DEF Moves
      <4>2. QED
        BY <3>1, <4>1
    <3>3. QED
      BY <2>1, <2>2, <3>1, <3>2 DEF NoLostIncoming, Servers
  <2>13. QED
    BY <2>1, <2>6, <2>7, <2>8, <2>9, <2>10, <2>11, <2>12 DEF Next, Calls, Events
<1>3. Inv => NoLostIncoming
  OBVIOUS
<1>4. QED
  BY <1>1, <1>2, <1>3, PTL DEF Spec

-----------------------------------------------------------------------------
(* Answers to calls *)

\* A step asks libnfc, sleeps, or goes on; and goes on only from where it
\* runs, from an answer, or from the wait that has a limit.
StepMoves(t) ==
    \/ accepts(t)
    \/ /\ msgs' = msgs /\ thread[t].st = "runs"
       /\ Sleeps(t, "cond") \/ (Sleeps(t, "waits") /\ thread[t].pc \in {"seNotified", "gpioGet"})
    \/ /\ msgs' = msgs /\ \E p : Moves(t, p)
       /\ thread[t].st = "runs" \/ thread[t].pc = "fwDeinit" \/ Answered(thread[t])

LEMMA StepGoes ==
    ASSUME Shape, NEW t \in roles, Step(t)
    PROVE  StepMoves(t)
<1>1. CASE accepts(t)
  BY <1>1 DEF StepMoves
<1>2. CASE wakes(t)
  BY <1>2, WakesStep DEF StepMoves
<1>3. CASE deinitialized(t)
  <2>1. msgs' = msgs
    BY <1>3 DEF deinitialized, Goes, Silent
  <2>2. QED
    BY <1>3, <2>1, DeinitStep DEF StepMoves
<1>4. CASE fwDeinitTimesOut(t)
  <2>1. msgs' = msgs
    BY <1>4 DEF fwDeinitTimesOut, Silent
  <2>2. QED
    BY <1>4, <2>1, UpdateTimesOut DEF StepMoves
<1>5. CASE awaitElement(t) \/ gpioRefused(t)
  <2>1. msgs' = msgs
    BY <1>5 DEF awaitElement, gpioRefused, Silent
  <2>2. QED
    BY <1>5, <2>1, AwaitSteps DEF StepMoves
<1>6. CASE accept(t)
  <2>1. msgs' = msgs /\ thread[t].st = "runs"
    BY <1>6 DEF accept, At, Silent
  <2>2. QED
    BY <1>6, <2>1, AcceptStep DEF StepMoves
<1>7. CASE takeLock(t) \/ giveLock(t)
  <2>1. msgs' = msgs /\ thread[t].st = "runs"
    BY <1>7 DEF takeLock, giveLock, At
  <2>2. QED
    BY <1>7, <2>1, LockSteps DEF StepMoves
<1>8. CASE refuses(t)
  <2>1. msgs' = msgs
    BY <1>8 DEF refuses, Silent
  <2>2. QED
    BY <1>8, <2>1, RefusesStep DEF StepMoves
<1>9. CASE activate(t)
  <2>1. msgs' = msgs /\ thread[t].st = "runs"
    BY <1>9 DEF activate, At, Silent
  <2>2. QED
    BY <1>9, <2>1, ActivateStep DEF StepMoves
<1>10. CASE connected(t) \/ released(t) \/ ignored(t)
  <2>1. msgs' = msgs /\ thread[t].st = "runs"
    BY <1>10 DEF connected, released, ignored, At, Silent
  <2>2. QED
    BY <1>10, <2>1, DeviceSteps DEF StepMoves
<1>11. CASE timeoutStep(t)
  <2>1. msgs' = msgs /\ thread[t].st = "runs"
    BY <1>11 DEF timeoutStep, At, Silent
  <2>2. QED
    BY <1>11, <2>1, TimeoutSteps DEF StepMoves
<1>12. CASE seCheck(t) \/ seRegister(t) \/ seListen(t)
  <2>1. msgs' = msgs /\ thread[t].st = "runs"
    BY <1>12 DEF seCheck, seRegister, seListen, At, Silent
  <2>2. QED
    BY <1>12, <2>1, LookSteps DEF StepMoves
<1>13. CASE seFailed(t) \/ seOpened(t) \/ seClosed(t) \/ enabled(t)
  <2>1. msgs' = msgs /\ thread[t].st = "runs"
    BY <1>13 DEF seFailed, seOpened, seClosed, enabled, At, Silent
  <2>2. QED
    BY <1>13, <2>1, EndSteps DEF StepMoves
<1>14. CASE configure(t) \/ unconfigure(t) \/ initFails(t)
  <2>1. msgs' = msgs /\ thread[t].st = "runs"
    BY <1>14 DEF configure, unconfigure, initFails, At, Silent
  <2>2. QED
    BY <1>14, <2>1, DriverSteps DEF StepMoves
<1>15. CASE register(t)
  <2>1. msgs' = msgs /\ thread[t].st = "runs"
    BY <1>15 DEF register, At, Silent
  <2>2. QED
    BY <1>15, <2>1, RegisterStep DEF StepMoves
<1>16. CASE fwFailed(t)
  <2>1. msgs' = msgs /\ thread[t].st = "runs" /\ thread[t].pc = "fwFailed" /\ ContextInv
    BY <1>16 DEF fwFailed, At, Silent, Shape
  <2>2. t = "service"
    BY <2>1, AtWork, RoleOf DEF Mutex, ServiceLabels, InitLabels
  <2>3. \E p : Moves(t, p)
    BY <1>16, <2>1, <2>2, FailedAgain
  <2>4. QED
    BY <2>1, <2>3 DEF StepMoves
<1>17. QED
  BY <1>1, <1>2, <1>3, <1>4, <1>5, <1>6, <1>7, <1>8, <1>9, <1>10, <1>11, <1>12, <1>13, <1>14, <1>15, <1>16 DEF Step

\* An answer to a call's own frame finds the call asleep on the request it
\* answers, not yet answered; and a frame is posted only to a call that
\* sleeps on it.
Asked ==
    /\ \A m \in msgs : FrameOf(m.what) = "call" =>
         LET c == thread[m.to]
         IN  c.st = "waits" /\ c.pc = m.what /\ c.frame["call"].sem = FALSE /\ c.id = m.id /\ c.tries = m.tries
    /\ \A t \in Threads : thread[t].frame["call"].sem => thread[t].st = "waits" /\ FrameOf(thread[t].pc) = "call"

LEMMA AskedSame ==
    ASSUME Asked, UNCHANGED <<thread, msgs>>
    PROVE  Asked'
BY DEF Asked

LEMMA StepAsked ==
    ASSUME Shape, Asked, NEW t \in roles, Step(t)
    PROVE  Asked'
<1> DEFINE c == thread[t]
           d == thread'[t]
<1>1. /\ t \in Threads /\ c \in Contexts /\ StepMoves(t) /\ \A u \in Threads : u # t => thread'[u] = thread[u]
      /\ c.frame["call"].sem \in BOOLEAN
  BY StepGoes, StepKeeps, AtWork DEF Shape, StepFrame, Contexts, Frames
<1>2. \A m \in msgs : m.to \in Threads
  BY MessageFacts
<1>3. FrameOf("fwDeinit") = "download"
  BY DEF FrameOf
<1>4. CASE accepts(t)
  <2>1. /\ Sleeps(t, "waits") /\ c.st = "runs" /\ msgs' = msgs \cup {Request(t, c.pc)}
    BY <1>4, AcceptsStep
  <2>2. /\ Request(t, c.pc).to = t /\ Request(t, c.pc).what = c.pc /\ Request(t, c.pc).id = c.id
        /\ Request(t, c.pc).tries = c.tries
    BY DEF Request
  <2>3. c.frame["call"].sem = FALSE
    BY <1>1, <2>1 DEF Asked
  <2>4. d.st = "waits" /\ d.pc = c.pc /\ d.id = c.id /\ d.tries = c.tries /\ d.frame = c.frame
    BY <2>1 DEF Sleeps
  <2>5. \A m \in msgs : FrameOf(m.what) = "call" => m.to # t
    BY <2>1 DEF Asked
  <2>6. QED
    BY <1>1, <1>2, <2>1, <2>2, <2>3, <2>4, <2>5 DEF Asked
<1>5. CASE /\ msgs' = msgs /\ c.st = "runs"
           /\ Sleeps(t, "cond") \/ Sleeps(t, "waits")
  <2>1. \A m \in msgs : FrameOf(m.what) = "call" => m.to # t
    BY <1>5 DEF Asked
  <2>2. c.frame["call"].sem = FALSE /\ d.frame = c.frame
    BY <1>1, <1>5 DEF Asked, Sleeps
  <2>3. QED
    BY <1>1, <1>2, <1>5, <2>1, <2>2 DEF Asked
<1>6. CASE /\ msgs' = msgs /\ \E p : Moves(t, p)
           /\ c.st = "runs" \/ c.pc = "fwDeinit" \/ Answered(c)
  <2>1. PICK p : Moves(t, p)
    BY <1>6
  <2>2. \A m \in msgs : FrameOf(m.what) = "call" => m.to # t
    BY <1>3, <1>6 DEF Asked, Answered
  <2>3. d.frame["call"].sem = FALSE
    <3>1. CASE p = <<>>
      BY <2>1, <3>1 DEF Moves, IdleThread, NewFrame, Frames
    <3>2. CASE p # <<>>
      <4>1. d.frame["call"].sem = (c.frame["call"].sem /\ ~(Answered(c) /\ "call" = FrameOf(c.pc)))
        BY <2>1, <3>2 DEF Moves
      <4>2. c.frame["call"].sem => Answered(c) /\ "call" = FrameOf(c.pc)
        BY <1>1 DEF Asked, Answered
      <4>3. QED
        BY <1>1, <4>1, <4>2
    <3>3. QED
      BY <3>1, <3>2
  <2>4. QED
    BY <1>1, <1>2, <1>6, <2>2, <2>3 DEF Asked
<1>7. QED
  BY <1>1, <1>4, <1>5, <1>6 DEF StepMoves

LEMMA AnswersAsked ==
    ASSUME Shape, Asked, NEW m \in msgs, NEW good \in BOOLEAN, Posts(m, good), msgs' \subseteq (msgs \ {m}) \cup ElementNotified(m, good)
    PROVE  Asked'
<1> DEFINE t == m.to
           c == thread[t]
           d == thread'[t]
<1>1. /\ t \in Threads /\ c \in Contexts /\ FrameOf(m.what) \in Frames /\ \A n \in msgs : n.to \in Threads
      /\ \A u \in Threads : u # t => thread'[u] = thread[u]
  BY MessageFacts DEF Shape, ContextInv, Posts
<1>2. /\ d.pc = c.pc /\ d.st = c.st /\ d.id = c.id /\ d.tries = c.tries
      /\ d.frame["call"] = c.frame["call"] \/ (FrameOf(m.what) = "call" /\ c.st = "waits" /\ c.pc = m.what)
  <2>1. CASE Alive(m)
    <3>1. /\ d.pc = c.pc /\ d.st = c.st /\ d.id = c.id /\ d.tries = c.tries
          /\ \A f \in Frames :
               d.frame[f] = IF f = FrameOf(m.what) THEN [sem |-> TRUE, ok |-> good] ELSE c.frame[f]
      BY <2>1 DEF Posts
    <3>2. FrameOf(m.what) = "call" => c.st = "waits" /\ c.pc = m.what
      BY DEF Asked
    <3>3. FrameOf(m.what) # "call" => d.frame["call"] = c.frame["call"]
      BY <3>1 DEF Frames
    <3>4. QED
      BY <3>1, <3>2, <3>3
  <2>2. CASE ~Alive(m)
    BY <2>2 DEF Posts
  <2>3. QED
    BY <2>1, <2>2
<1>3. ASSUME NEW n \in msgs', FrameOf(n.what) = "call"
      PROVE  /\ thread'[n.to].st = "waits" /\ thread'[n.to].pc = n.what /\ thread'[n.to].frame["call"].sem = FALSE
             /\ thread'[n.to].id = n.id /\ thread'[n.to].tries = n.tries
  <2>1. n \in msgs /\ n # m
    <3>1. n \notin ElementNotified(m, good)
      BY <1>3, MessageFacts DEF ElementNotified, FrameOf, Shape, MsgType
    <3>2. QED
      BY <1>3, <3>1
  <2>2. /\ thread[n.to].st = "waits" /\ thread[n.to].pc = n.what /\ thread[n.to].frame["call"].sem = FALSE
        /\ thread[n.to].id = n.id /\ thread[n.to].tries = n.tries
    BY <1>3, <2>1 DEF Asked
  <2>3. CASE n.to # t
    BY <1>1, <2>1, <2>2, <2>3
  <2>4. CASE n.to = t /\ FrameOf(m.what) # "call"
    BY <1>2, <2>2, <2>4
  <2>5. CASE n.to = t /\ FrameOf(m.what) = "call"
    <3>1. /\ n \in [to : roles, id : 1..calls, tries : Nat, what : Requests]
          /\ m \in [to : roles, id : 1..calls, tries : Nat, what : Requests]
      BY <2>1 DEF Shape, MsgType
    <3>2. n.to = m.to /\ n.id = m.id /\ n.tries = m.tries /\ n.what = m.what
      BY <2>2, <2>5 DEF Asked
    <3>3. QED
      BY <2>1, <3>1, <3>2
  <2>6. QED
    BY <2>3, <2>4, <2>5
<1>4. ASSUME NEW u \in Threads, thread'[u].frame["call"].sem
      PROVE  thread'[u].st = "waits" /\ FrameOf(thread'[u].pc) = "call"
  BY <1>1, <1>2, <1>4 DEF Asked
<1>5. QED
  BY <1>3, <1>4 DEF Asked

LEMMA NextAsked ==
    ASSUME Shape, Asked, [Next]_vars
    PROVE  Asked'
<1>0. \A m \in msgs : m.to \in Threads
  BY MessageFacts
<1>1. CASE UNCHANGED vars
  BY <1>1, AskedSame DEF vars
<1>2. CASE ServiceCalls \/ TagCalls \/ PeerStarts \/ SocketCalls \/ TimeoutCalls
  <2>1. PICK t \in Threads : \E p : Starts(t, p)
    BY <1>2, ServiceCallsStep, OtherCallsStep, ThreadsOfRoles DEF Shape
  <2>2. /\ thread[t] = IdleThread /\ msgs' = msgs /\ thread'[t].frame["call"].sem = FALSE
        /\ \A u \in Threads : u # t => thread'[u] = thread[u]
    <3>1. PICK p : Starts(t, p)
      BY <2>1
    <3>2. t \in Threads => thread'[t] \in Contexts
      <4>1. ContextInv'
        BY <1>2, ServiceCallsStep, OtherCallsStep DEF Shape
      <4>2. QED
        BY <4>1 DEF ContextInv
    <3>3. QED
      BY <2>1, <3>1, <3>2 DEF Starts, Frames, Contexts
  <2>3. \A m \in msgs : FrameOf(m.what) = "call" => m.to # t
    BY <2>2, IdleFacts DEF Asked
  <2>4. QED
    BY <1>0, <2>2, <2>3 DEF Asked
<1>3. ASSUME Stirs, msgs' = msgs PROVE Asked'
  <2>1. \A u \in Threads : thread[u].st # "cond" => thread'[u] = thread[u]
    BY <1>3 DEF Stirs
  <2>2. \A u \in Threads : thread[u].st = "cond" => thread'[u].frame = thread[u].frame
    BY <1>3 DEF Stirs
  <2>3. QED
    BY <1>0, <1>3, <2>1, <2>2 DEF Asked
<1>4. CASE \/ createServiceSocket \/ createLlcpSocket \/ createConnectionlessSocket
           \/ closeSocket \/ closeConnectionless \/ \E t \in Servers : closeServiceSocket(t)
  BY <1>3, <1>4, AskedSame, SocketSteps
<1>5. CASE answers
  BY <1>5, AnswersStep, AnswersAsked
<1>6. CASE clientStops \/ linkStatus \/ RemoteLeaves \/ Discovered \/ \E s \in Servers : listenCallback(s)
  BY <1>3, <1>6, AskedSame, LinkEvents
<1>7. CASE Aborts
  <2>1. msgs' = {} /\ thread' = [t \in Threads |-> IdleThread]
    BY <1>7, AbortsFresh DEF Fresh
  <2>2. \A t \in Threads : thread'[t] = IdleThread
    BY <2>1
  <2>3. ~IdleThread.frame["call"].sem
    BY DEF IdleThread, NewFrame, Frames
  <2>4. QED
    BY <2>1, <2>2, <2>3 DEF Asked
<1>8. CASE \E t \in roles : Step(t)
  BY <1>8, StepAsked
<1>9. QED
  BY <1>1, <1>2, <1>4, <1>5, <1>6, <1>7, <1>8 DEF Next, Calls, Events

-----------------------------------------------------------------------------
(* The data of the link *)

\* A link is only checked where there is none; from the check to the end of
\* the call the peer is on its way to a link or to letting go.
LinkInv ==
    /\ "peer" \notin roles => lib.link = "none"
    /\ "peer" \in roles =>
         LET c == thread["peer"]
             e == eps["peer"]
         IN  /\ "check" \in Todo(c) /\ ~(c.pc = "check" /\ Answered(c)) => lib.link = "none"
             /\ Todo(c) \cap {"check", "activate"} # {} => e \in {"target", "initiator"}
             /\ "check" \in Todo(c) => "activate" \in Todo(c)
             /\ e \in {"target", "initiator"} /\ lib.link # "none" =>
                  Todo(c) \cap {"activate", "ignored", "released"} # {}
             /\ e = "free" => lib.link = "none"
    /\ \A m \in msgs : m.what = "check" => nat.data = "alive"
    /\ LinkDataAlive

LEMMA StirsKeeps ==
    ASSUME Stirs, NEW u \in Threads
    PROVE  /\ Todo(thread'[u]) = Todo(thread[u]) /\ thread'[u].pc = thread[u].pc
           /\ Answered(thread'[u]) <=> Answered(thread[u])
<1>1. CASE thread[u].st = "cond"
  BY <1>1 DEF Stirs, Todo, Answered
<1>2. CASE thread[u].st # "cond"
  BY <1>2 DEF Stirs
<1>3. QED
  BY <1>1, <1>2

LEMMA PostsKeeps ==
    ASSUME Shape, NEW m \in msgs, NEW good, Posts(m, good), NEW u \in Threads
    PROVE  /\ Todo(thread'[u]) = Todo(thread[u]) /\ thread'[u].pc = thread[u].pc
           /\ Answered(thread[u]) => Answered(thread'[u])
<1>1. CASE u # m.to \/ ~Alive(m)
  BY <1>1 DEF Posts
<1>2. CASE u = m.to /\ Alive(m)
  <2>1. /\ thread'[u].pc = thread[u].pc /\ thread'[u].st = thread[u].st /\ thread'[u].rest = thread[u].rest
        /\ \A f \in Frames :
             thread'[u].frame[f] = IF f = FrameOf(m.what) THEN [sem |-> TRUE, ok |-> good] ELSE thread[u].frame[f]
    BY <1>2 DEF Posts
  <2>2. FrameOf(thread[u].pc) \in Frames
    BY DEF FrameOf, Frames
  <2>3. QED
    BY <2>1, <2>2 DEF Todo, Answered
<1>3. QED
  BY <1>1, <1>2

\* The order of the steps of a peer's call.
LEMMA PeerOrder ==
    ASSUME Shape, "peer" \in roles
    PROVE  LET c == thread["peer"]
               R == Names(c.rest)
           IN  /\ Todo(c) = ({c.pc} \ Mutex) \cup R
               /\ c.pc = "check" => "check" \notin R
               /\ c.pc \in {"activate", "released", "ignored"} =>
                    R \cap {"check", "activate", "released", "ignored"} = {}
<1> DEFINE c == thread["peer"]
           R == Names(c.rest)
<1>1. Todo(c) = ({c.pc} \ Mutex) \cup R /\ Orderly(c)
  BY AtWork DEF Shape
<1>2. \A b \in R : Fits(c.pc, b)
  BY <1>1 DEF Orderly
<1>3. ~Fits("check", "check")
  BY DEF Fits, Rank, Mutex
<1>4. \A a \in {"activate", "released", "ignored"}, b \in {"check", "activate", "released", "ignored"} : ~Fits(a, b)
  BY DEF Fits, Rank, Mutex
<1>5. QED
  BY <1>1, <1>2, <1>3, <1>4

\* A step of the peer that changes no device.
LEMMA PeerGoesOn ==
    ASSUME Shape, LinkInv, Asked, "peer" \in roles, NEW p, Moves("peer", p),
           UNCHANGED <<roles, msgs, eps>>, lib'.link = lib.link,
           LET R == Names(thread["peer"].rest)
           IN  \/ /\ R \subseteq Names(p) /\ Names(p) \subseteq R \cup {"restart"}
                  /\ thread["peer"].pc \notin {"activate", "released", "ignored"}
               \/ /\ Names(p) \cap {"ignored", "released"} # {}
                  /\ Names(p) \subseteq {"restart", "ignored", "p2pDisconnect", "released"},
           nat'.data = nat.data \/ (thread["peer"].pc = "check" /\ thread["peer"].st = "runs")
    PROVE  LinkInv'
<1> DEFINE c == thread["peer"]
           d == thread'["peer"]
           R == Names(c.rest)
<1>1. Todo(d) = Names(p) /\ d.st = "runs" /\ ~Answered(d)
  BY DEF Moves, Answered
<1>2. /\ Todo(c) = ({c.pc} \ Mutex) \cup R
      /\ c.pc = "check" => "check" \notin R
  BY PeerOrder
<1>3. nat'.data # nat.data => "check" \in Todo(c) /\ ~Answered(c)
  BY <1>2 DEF Mutex, Answered
<1>4. nat'.data # nat.data => lib.link = "none" /\ \A m \in msgs : m.what # "check"
  <2>1. nat'.data # nat.data => lib.link = "none"
    BY <1>3 DEF LinkInv
  <2>2. ASSUME nat'.data # nat.data, NEW m \in msgs, m.what = "check" PROVE FALSE
    <3>1. m.to = "peer"
      BY <2>2, RoleOf DEF Shape, MsgType
    <3>2. c.st = "waits"
      BY <2>2, <3>1 DEF Asked, FrameOf
    <3>3. QED
      BY <2>2, <3>2
  <2>3. QED
    BY <2>1, <2>2
<1>5. LinkDataAlive' /\ \A m \in msgs' : m.what = "check" => nat'.data = "alive"
  BY <1>4 DEF LinkInv, LinkDataAlive
<1>6. CASE /\ R \subseteq Names(p) /\ Names(p) \subseteq R \cup {"restart"}
           /\ c.pc \notin {"activate", "released", "ignored"}
  BY <1>1, <1>2, <1>5, <1>6 DEF LinkInv
<1>7. CASE /\ Names(p) \cap {"ignored", "released"} # {}
           /\ Names(p) \subseteq {"restart", "ignored", "p2pDisconnect", "released"}
  BY <1>1, <1>5, <1>7 DEF LinkInv
<1>8. QED
  BY <1>6, <1>7

\* What is left of a peer's call when a request of its fails.
LEMMA PeerGivesUp ==
    ASSUME Shape, "peer" \in roles, thread["peer"].pc \in Requests, NEW refused \in BOOLEAN
    PROVE  LET R == Names(thread["peer"].rest)
               F == Names(Failed("peer", refused))
           IN  \/ R \subseteq F /\ F \subseteq R \cup {"restart"}
               \/ F \cap {"ignored", "released"} # {} /\ F \subseteq {"restart", "ignored", "p2pDisconnect", "released"}
<1> DEFINE l == thread["peer"].pc
<1>1. l \in PeerLabels /\ l \notin Mutex
  <2>1. l \notin Mutex
    BY DEF Requests, ManagerAsks, OpenAsks, CloseAsks, Mutex
  <2>2. QED
    BY <2>1, AtWork, RoleHas DEF Shape
<1>2. l \in {"p2pConnect", "p2pDisconnect", "restart", "check", "ask"}
  BY <1>1 DEF PeerLabels, Requests, ManagerAsks, OpenAsks, CloseAsks
<1>3. Names(Failed("peer", refused)) = FailNames("peer", refused)
  BY <1>2, AtWork, FailedPlan DEF Shape
<1>4. QED
  BY <1>2, <1>3 DEF FailNames, OpenAsks, CloseAsks

LEMMA PeerLink ==
    ASSUME Shape, LinkInv, Asked, "peer" \in roles, Step("peer")
    PROVE  LinkInv'
<1> DEFINE c == thread["peer"]
           d == thread'["peer"]
           R == Names(c.rest)
<1>1. /\ "peer" \in Threads /\ RoleLabels("peer") = PeerLabels /\ (c.pc \notin Mutex => c.pc \in PeerLabels)
      /\ UNCHANGED roles
  BY AtWork, RoleHas, StepKeeps DEF Shape, StepFrame
<1>2. /\ Todo(c) = ({c.pc} \ Mutex) \cup R
      /\ c.pc = "check" => "check" \notin R
      /\ c.pc \in {"activate", "released", "ignored"} => R \cap {"check", "activate", "released", "ignored"} = {}
  BY PeerOrder
<1>3. CASE accepts("peer")
  <2>1. /\ Sleeps("peer", "waits") /\ c.st = "runs" /\ msgs' = msgs \cup {Request("peer", c.pc)} /\ UNCHANGED <<lib, eps>>
        /\ nat'.data = IF c.pc = "check" THEN "alive" ELSE nat.data
    BY <1>3, AcceptsStep DEF accepts
  <2>2. Request("peer", c.pc).what = c.pc
    BY DEF Request
  <2>3. Todo(d) = Todo(c) /\ d.pc = c.pc /\ ~Answered(c)
    BY <2>1 DEF Sleeps, Todo, Answered
  <2>4. LinkDataAlive' /\ \A m \in msgs' : m.what = "check" => nat'.data = "alive"
    BY <2>1, <2>2 DEF LinkInv, LinkDataAlive
  <2>5. QED
    BY <1>1, <2>1, <2>3, <2>4 DEF LinkInv
<1>4. CASE takeLock("peer") \/ giveLock("peer")
  <2>1. UNCHANGED <<msgs, nat, lib, eps>> /\ Moves("peer", c.rest) /\ c.pc \in {"lock", "unlock"}
    BY <1>4, LockSteps DEF takeLock, giveLock, adapter
  <2>2. QED
    BY <1>1, <2>1, PeerGoesOn
<1>5. CASE refuses("peer")
  <2>1. /\ UNCHANGED <<msgs, lib, eps>> /\ Moves("peer", Failed("peer", TRUE)) /\ c.pc \in Requests /\ c.st = "runs"
        /\ nat'.data = IF c.pc = "check" THEN "freed" ELSE nat.data
    BY <1>5, RefusesStep DEF refuses, Silent
  <2>2. c.pc \notin {"activate", "released", "ignored"}
    BY <2>1 DEF Requests, ManagerAsks, OpenAsks, CloseAsks
  <2>3. QED
    BY <1>1, <2>1, <2>2, PeerGivesUp, PeerGoesOn
<1>6. CASE wakes("peer")
  <2>1. UNCHANGED <<msgs, nat, lib, eps>> /\ c.pc \in Requests \cap PeerLabels
    BY <1>1, <1>6, WakesStep DEF adapter
  <2>2. c.pc \notin {"activate", "released", "ignored", "init", "seField"}
    BY <2>1 DEF Requests, ManagerAsks, OpenAsks, CloseAsks, PeerLabels
  <2>3. Moves("peer", c.rest) \/ Moves("peer", Failed("peer", FALSE))
    BY <1>6, <2>2, WakesStep
  <2>4. QED
    BY <1>1, <2>1, <2>2, <2>3, PeerGivesUp, PeerGoesOn
<1>7. CASE activate("peer")
  <2>1. c.pc = "activate" /\ ~Answered(c) /\ UNCHANGED <<msgs, nat>>
    BY <1>7, ActivateStep DEF activate, Silent
  <2>2. CASE /\ Moves("peer", c.rest) /\ lib.link = "checked" /\ lib' = [lib EXCEPT !.link = "activating"]
             /\ eps' = [eps EXCEPT !["peer"] = IF eps["peer"] = "target" THEN "upTarget" ELSE "upInitiator"]
    <3>1. lib'.link = "activating" /\ eps'["peer"] \in {"upTarget", "upInitiator"}
      BY <1>1, <2>2 DEF Shape, TypeInv, LibOK
    <3>2. Todo(d) = R
      BY <2>2 DEF Moves
    <3>3. R \cap {"check", "activate"} = {}
      BY <1>2, <2>1
    <3>4. nat'.data = "alive" /\ LinkDataAlive'
      BY <2>1, <2>2 DEF LinkInv, LinkDataAlive
    <3>5. QED
      BY <1>1, <2>1, <3>1, <3>2, <3>3, <3>4 DEF LinkInv
  <2>3. CASE Moves("peer", GivesUp(eps["peer"])) /\ UNCHANGED <<lib, eps>>
    <3>1. Names(GivesUp(eps["peer"])) = IF eps["peer"] = "target" THEN {"p2pDisconnect", "released"} ELSE {"ignored"}
      BY GivesUpPlan
    <3>2. QED
      BY <1>1, <2>1, <2>3, <3>1, PeerGoesOn
  <2>4. QED
    BY <1>7, <2>2, <2>3, ActivateStep
<1>8. CASE connected("peer") \/ released("peer") \/ ignored("peer")
  <2>1. /\ UNCHANGED <<msgs, lib>> /\ Moves("peer", c.rest) /\ c.pc \in {"connected", "released", "ignored"}
        /\ nat'.data = nat.data
        /\ eps' = [eps EXCEPT !["peer"] = IF c.pc = "connected" THEN "connected" ELSE "done"]
    BY <1>8, DeviceSteps DEF connected, released, ignored, Silent
  <2>2. c.pc # "connected"
    BY <1>1, <2>1 DEF PeerLabels, Mutex
  <2>3. eps'["peer"] = "done" /\ Todo(d) = R
    BY <1>1, <2>1, <2>2 DEF Moves, Shape, TypeInv
  <2>4. R \cap {"check", "activate"} = {}
    BY <1>2, <2>1, <2>2
  <2>5. LinkDataAlive' /\ \A m \in msgs' : m.what = "check" => nat'.data = "alive"
    BY <2>1 DEF LinkInv, LinkDataAlive
  <2>6. QED
    BY <1>1, <2>1, <2>3, <2>4, <2>5 DEF LinkInv
<1>9. ~accept("peer") /\ ~timeoutStep("peer")
  <2>1. {"accept", "setTimeout", "resetTimeouts"} \cap (PeerLabels \cup Mutex) = {}
    BY DEF PeerLabels, Mutex
  <2>2. QED
    BY <1>1, <2>1, AcceptStep, TimeoutSteps
<1>10. /\ ~(seCheck("peer") \/ seRegister("peer") \/ seListen("peer")) /\ ~(awaitElement("peer") \/ gpioRefused("peer"))
       /\ ~(seFailed("peer") \/ seOpened("peer") \/ seClosed("peer") \/ enabled("peer"))
       /\ ~(configure("peer") \/ unconfigure("peer") \/ initFails("peer")) /\ ~register("peer")
       /\ ~fwDeinitTimesOut("peer") /\ ~deinitialized("peer")
  BY LookSteps, AwaitSteps, EndSteps, DriverSteps, RegisterStep, UpdateTimesOut, DeinitStep
<1>11. ~fwFailed("peer")
  BY <1>1 DEF fwFailed, At, PeerLabels, Mutex
<1>12. QED
  BY <1>3, <1>4, <1>5, <1>6, <1>7, <1>8, <1>9, <1>10, <1>11 DEF Step

LEMMA OthersLink ==
    ASSUME Shape, LinkInv, NEW t \in roles, t # "peer", Step(t)
    PROVE  LinkInv'
<1>1. /\ UNCHANGED roles /\ lib'.link = lib.link /\ nat'.data = nat.data /\ (msgs' = msgs \/ accepts(t))
      /\ "peer" \in roles => thread'["peer"] = thread["peer"] /\ eps'["peer"] = eps["peer"]
  BY StepKeeps, ThreadsOfRoles DEF StepFrame, Shape
<1>2. \A m \in msgs' : m.what = "check" => m \in msgs
  <2>1. CASE accepts(t)
    <3>1. msgs' = msgs \cup {Request(t, thread[t].pc)} /\ thread[t].pc # "check"
      BY <2>1, AcceptsStep, RoleOf
    <3>2. QED
      BY <3>1 DEF Request
  <2>2. QED
    BY <1>1, <2>1
<1>3. QED
  BY <1>1, <1>2 DEF LinkInv, LinkDataAlive

LEMMA CallsLink ==
    ASSUME Shape, LinkInv, ServiceCalls \/ TagCalls \/ PeerStarts \/ SocketCalls \/ TimeoutCalls
    PROVE  LinkInv'
<1>1. UNCHANGED <<nat, lib, eps>>
  BY ServiceCallsStep, OtherCallsStep DEF adapter
<1>2. CASE /\ \E t \in roles : \E p : t # "peer" /\ Starts(t, p)
  <2>1. UNCHANGED <<roles, msgs>> /\ ("peer" \in roles => thread'["peer"] = thread["peer"])
    BY <1>2, ThreadsOfRoles DEF Starts, Shape
  <2>2. QED
    BY <1>1, <2>1 DEF LinkInv, LinkDataAlive
<1>3. CASE \E p : /\ Starts("peer", p) /\ "peer" \in roles
                  /\ \/ /\ eps["peer"] \in {"target", "initiator"}
                        /\ Names(p) = {"check", "activate"} \cup (IF eps["peer"] = "target" THEN {"p2pConnect"} ELSE {})
                     \/ eps["peer"] = "lost" /\ Names(p) = {"p2pDisconnect", "released"}
                     \/ eps["peer"] \in {"upTarget", "upInitiator"} /\ Names(p) = {"ask"}
  <2>1. PICK p : /\ Starts("peer", p) /\ "peer" \in roles
                 /\ \/ /\ eps["peer"] \in {"target", "initiator"}
                       /\ Names(p) = {"check", "activate"} \cup (IF eps["peer"] = "target" THEN {"p2pConnect"} ELSE {})
                    \/ eps["peer"] = "lost" /\ Names(p) = {"p2pDisconnect", "released"}
                    \/ eps["peer"] \in {"upTarget", "upInitiator"} /\ Names(p) = {"ask"}
    BY <1>3
  <2>2. UNCHANGED <<roles, msgs>> /\ Todo(thread["peer"]) = {} /\ Todo(thread'["peer"]) = Names(p)
    BY <2>1, IdleFacts DEF Starts
  <2>3. eps["peer"] \in {"target", "initiator"} => lib.link = "none"
    BY <2>1, <2>2 DEF LinkInv
  <2>4. QED
    BY <1>1, <2>1, <2>2, <2>3 DEF LinkInv, LinkDataAlive
<1>4. CASE ServiceCalls
  <2>1. \E t \in roles : \E p : t # "peer" /\ Starts(t, p)
    BY <1>4, ServiceCallsStep
  <2>2. QED
    BY <1>2, <2>1
<1>5. CASE TagCalls \/ PeerStarts \/ SocketCalls \/ TimeoutCalls
  <2>1. PICK t \in roles : \E p :
                /\ Starts(t, p) /\ t # "service"
                /\ \/ t \in Tags
                   \/ /\ t = "peer" /\ eps[t] \in {"target", "initiator"}
                      /\ Names(p) = {"check", "activate"} \cup (IF eps[t] = "target" THEN {"p2pConnect"} ELSE {})
                   \/ t = "peer" /\ eps[t] = "lost" /\ Names(p) = {"p2pDisconnect", "released"}
                   \/ t = "peer" /\ eps[t] \in {"upTarget", "upInitiator"} /\ Names(p) = {"ask"}
                   \/ t \notin {"service"} \cup DeviceThreads
    BY <1>5, OtherCallsStep
  <2>2. QED
    BY <1>2, <1>3, <2>1 DEF Tags, DeviceThreads
<1>6. QED
  BY <1>4, <1>5

LEMMA AnswersLink ==
    ASSUME Shape, LinkInv, Asked, answers
    PROVE  LinkInv'
<1>1. PICK m \in msgs, good \in BOOLEAN :
        Posts(m, good) /\ msgs' = (msgs \ {m}) \cup ElementNotified(m, good) /\ lib' = LibAfter(m, good)
  BY AnswersStep
<1>2. /\ m.what \in Requests /\ m.to \in roles /\ m.what \in RoleLabels(m.to) /\ LibOK /\ UNCHANGED <<nat, eps, roles>>
      /\ roles \subseteq Threads
  BY AnswersStep, ThreadsOfRoles DEF Shape, MsgType, TypeInv
<1>3. \A n \in msgs' : n.what = "check" => nat'.data = "alive"
  <2>1. \A n \in ElementNotified(m, good) : n.what # "check"
    BY MessageFacts DEF ElementNotified, Shape, MsgType
  <2>2. QED
    BY <1>1, <1>2, <2>1 DEF LinkInv
<1>4. "peer" \in roles =>
        /\ Todo(thread'["peer"]) = Todo(thread["peer"]) /\ thread'["peer"].pc = thread["peer"].pc
        /\ Answered(thread["peer"]) => Answered(thread'["peer"])
  BY <1>1, <1>2, PostsKeeps
<1>5. CASE m.what = "check" /\ good /\ lib.target = m.to
  <2>1. m.to = "peer" /\ "peer" \in Threads /\ "peer" \in roles
    BY <1>2, <1>5, RoleOf
  <2>2. thread["peer"].st = "waits" /\ thread["peer"].pc = "check" /\ thread["peer"].id = m.id
    BY <1>5, <2>1 DEF Asked, FrameOf
  <2>3. Alive(m) /\ FrameOf("check") = "call"
    BY <1>5, <2>1, <2>2 DEF Alive, FrameOf
  <2>4. Answered(thread'["peer"])
    BY <1>1, <1>5, <2>1, <2>2, <2>3 DEF Posts, Answered, Frames
  <2>5. "check" \in Todo(thread["peer"])
    BY <2>1, <2>2, AtWork DEF Shape, Mutex
  <2>6. nat.data = "alive" /\ eps["peer"] \in {"target", "initiator"} /\ "activate" \in Todo(thread["peer"])
    BY <1>5, <2>1, <2>5 DEF LinkInv
  <2>7. QED
    BY <1>2, <1>3, <1>4, <2>1, <2>2, <2>4, <2>6 DEF LinkInv, LinkDataAlive
<1>6. CASE ~(m.what = "check" /\ good /\ lib.target = m.to)
  <2>1. lib'.link # "none" => lib.link # "none"
    BY <1>1, <1>2, <1>6, LibAfterFacts
  <2>2. QED
    BY <1>2, <1>3, <1>4, <2>1 DEF LinkInv, LinkDataAlive
<1>7. QED
  BY <1>5, <1>6

LEMMA EventsLink ==
    ASSUME Shape, LinkInv, Asked,
           clientStops \/ linkStatus \/ RemoteLeaves \/ Discovered \/ \E s \in Servers : listenCallback(s)
    PROVE  LinkInv'
<1>0. LibOK /\ NatOK /\ eps \in [Threads -> EpStates] /\ ("peer" \in roles => "peer" \in Threads) /\ UNCHANGED <<msgs, roles>>
  BY ThreadsOfRoles, LinkEvents DEF Shape, TypeInv
<1>1. CASE clientStops
  <2>1. nat'.data = nat.data /\ UNCHANGED <<thread, lib, eps>>
    BY <1>0, <1>1 DEF clientStops, NatOK
  <2>2. QED
    BY <1>0, <2>1 DEF LinkInv, LinkDataAlive
<1>2. CASE linkStatus
  <2>1. UNCHANGED thread
    BY <1>2 DEF linkStatus
  <2>2. CASE lib.link = "activating"
    <3>1. lib'.link = "up" /\ nat'.data = nat.data /\ UNCHANGED eps
      BY <1>0, <1>2, <2>2 DEF linkStatus, LibOK, NatOK
    <3>2. QED
      BY <1>0, <2>1, <2>2, <3>1 DEF LinkInv, LinkDataAlive
  <2>3. CASE lib.link = "lost"
    <3>1. /\ lib'.link = "none"
          /\ \A t \in Threads : eps'[t] = CASE eps[t] = "upTarget" -> "lost"
                                            [] eps[t] = "upInitiator" -> "done"
                                            [] OTHER -> eps[t]
      BY <1>0, <1>2, <2>3 DEF linkStatus, LibOK
    <3>2. \A m \in msgs : m.what # "check"
      <4>1. ASSUME NEW m \in msgs, m.what = "check" PROVE FALSE
        <5>1. m.to = "peer" /\ "peer" \in roles
          BY <4>1, RoleOf, MessageFacts DEF Shape, MsgType
        <5>2. /\ thread["peer"].st = "waits" /\ thread["peer"].pc = "check" /\ thread["peer"].frame["call"].sem = FALSE
          BY <4>1, <5>1 DEF Asked, FrameOf
        <5>3. "check" \in Todo(thread["peer"]) /\ ~Answered(thread["peer"])
          BY <5>1, <5>2, AtWork DEF Shape, Mutex, Answered, FrameOf
        <5>4. QED
          BY <2>3, <5>1, <5>3 DEF LinkInv
      <4>2. QED
        BY <4>1
    <3>3. "peer" \in roles =>
            (eps'["peer"] \in {"target", "initiator"} <=> eps["peer"] \in {"target", "initiator"})
      BY <1>0, <3>1
    <3>4. QED
      BY <1>0, <2>1, <3>1, <3>2, <3>3 DEF LinkInv, LinkDataAlive
  <2>4. QED
    BY <1>2, <2>2, <2>3 DEF linkStatus
<1>3. CASE RemoteLeaves
  <2>1. UNCHANGED <<thread, nat, eps>>
    BY <1>3 DEF RemoteLeaves
  <2>2. lib'.link # "none" => lib.link # "none"
    <3>1. CASE lib.passive
      BY <1>3, <1>0, <3>1, FreedFacts DEF RemoteLeaves
    <3>2. CASE ~lib.passive
      BY <1>3, <3>2 DEF RemoteLeaves
    <3>3. QED
      BY <3>1, <3>2
  <2>3. QED
    BY <1>0, <2>1, <2>2 DEF LinkInv, LinkDataAlive
<1>4. CASE Discovered
  <2>1. lib.link = "none" /\ UNCHANGED thread
    BY <1>4 DEF Discovered
  <2>2. lib'.link = lib.link /\ nat'.data = nat.data
    BY <1>0, <1>4 DEF Discovered, LibOK, NatOK
  <2>3. "peer" \in roles => eps'["peer"] = eps["peer"] \/ (eps["peer"] = "free" /\ eps'["peer"] \in {"target", "initiator"})
    BY <1>0, <1>4 DEF Discovered, Tags, Peers
  <2>4. QED
    BY <1>0, <2>1, <2>2, <2>3 DEF LinkInv, LinkDataAlive
<1>5. CASE \E s \in Servers : listenCallback(s)
  <2>1. Broadcast /\ UNCHANGED <<nat, lib, eps, calls>>
    BY <1>5 DEF listenCallback
  <2>2. Stirs
    BY <1>0, <2>1, BroadcastStirs DEF Shape
  <2>3. QED
    BY <1>0, <2>1, <2>2, StirsKeeps DEF LinkInv, LinkDataAlive
<1>6. QED
  BY <1>1, <1>2, <1>3, <1>4, <1>5

LEMMA FreshLink ==
    ASSUME Shape, Fresh, lib = LibOff \/ lib = FirstOn
    PROVE  LinkInv
<1>1. msgs = {} /\ lib.link = "none" /\ \A t \in Threads : thread[t] = IdleThread
  BY LibOffFacts DEF Fresh, FirstOn
<1>2. "peer" \in roles => Todo(thread["peer"]) = {}
  BY <1>1, IdleFacts, ThreadsOfRoles DEF Shape
<1>3. QED
  BY <1>1, <1>2 DEF LinkInv, LinkDataAlive

LEMMA NextLink ==
    ASSUME Shape, Asked, LinkInv, [Next]_vars
    PROVE  LinkInv'
<1>1. CASE UNCHANGED vars
  BY <1>1 DEF vars, adapter, bounds, LinkInv, LinkDataAlive
<1>2. CASE ServiceCalls \/ TagCalls \/ PeerStarts \/ SocketCalls \/ TimeoutCalls
  BY <1>2, CallsLink
<1>3. CASE \/ createServiceSocket \/ createLlcpSocket \/ createConnectionlessSocket
           \/ closeSocket \/ closeConnectionless \/ \E t \in Servers : closeServiceSocket(t)
  <2>1. UNCHANGED <<msgs, nat, lib, eps, roles>> /\ (UNCHANGED thread \/ Stirs)
    BY <1>3, SocketSteps
  <2>2. "peer" \in roles =>
          /\ Todo(thread'["peer"]) = Todo(thread["peer"]) /\ thread'["peer"].pc = thread["peer"].pc
          /\ Answered(thread'["peer"]) <=> Answered(thread["peer"])
    BY <2>1, StirsKeeps, ThreadsOfRoles DEF Shape
  <2>3. QED
    BY <2>1, <2>2 DEF LinkInv, LinkDataAlive
<1>4. CASE answers
  BY <1>4, AnswersLink
<1>5. CASE clientStops \/ linkStatus \/ RemoteLeaves \/ Discovered \/ \E s \in Servers : listenCallback(s)
  BY <1>5, EventsLink
<1>6. CASE Aborts
  <2>1. msgs' = {} /\ lib'.link = "none" /\ thread' = [t \in Threads |-> IdleThread] /\ UNCHANGED roles
    BY <1>6, AbortsFresh, LibOffFacts DEF Fresh
  <2>2. "peer" \in roles => Todo(thread'["peer"]) = {}
    BY <2>1, IdleFacts, ThreadsOfRoles DEF Shape
  <2>3. QED
    BY <2>1, <2>2 DEF LinkInv, LinkDataAlive
<1>7. CASE \E t \in roles : Step(t)
  BY <1>7, PeerLink, OthersLink
<1>8. QED
  BY <1>1, <1>2, <1>3, <1>4, <1>5, <1>6, <1>7 DEF Next, Calls, Events

\* As long as libnfc may call back about a link, the data it was given is
\* there: the client data of a link is freed by the callback that ends it,
\* or by the call whose check of the link was refused.
THEOREM LinkDataCorrect == Spec => []LinkDataAlive
<1> DEFINE Inv == Shape /\ Asked /\ LinkInv
<1>1. Init => Inv
  <2> SUFFICES ASSUME Init PROVE Inv
    OBVIOUS
  <2>1. Shape /\ Fresh /\ (lib = LibOff \/ lib = FirstOn) /\ \A t \in Threads : thread[t] = IdleThread
    BY InitFresh DEF Fresh
  <2>2. Asked
    BY <2>1 DEF Asked, Fresh, IdleThread, NewFrame, Frames
  <2>3. QED
    BY <2>1, <2>2, FreshLink
<1>2. Inv /\ [Next]_vars => Inv'
  BY NextShape, NextAsked, NextLink
<1>3. Inv => LinkDataAlive
  BY DEF LinkInv
<1>4. QED
  BY <1>1, <1>2, <1>3, PTL DEF Spec

-----------------------------------------------------------------------------
(* The service *)

\* What is left of an initialisation that the firmware is loaded for.
Again == {"fwLoad", "fwInit", "eeprom", "seOff", "llcpConfig", "seListen", "enabled"}

\* How a call of the service goes on: with the rest of its plan, or with
\* what the step it is at leads to.
ServiceGoes(p) ==
    LET c == thread["service"]
        R == Names(c.rest)
    IN  \/ /\ Names(p) = R /\ c.pc \notin {"seFailed", "seClosed", "enabled"}
           /\ c.pc = "seWired" => Answered(c) /\ c.frame["call"].ok
           /\ c.pc \in {"init", "fwInit", "eeprom"} => Answered(c)
        \/ /\ c.pc = "register" /\ "registerRefused" \in hist'
           /\ Names(p) \subseteq R /\ ("stop" \in R => "stop" \in Names(p))
        \/ c.pc \in InitLabels \ {"configure", "enabled"}
           /\ Names(p) \in {{}, {"fwFailed"}, {"initFails"}, Again, {"fwDeinit"} \cup Again}
        \/ c.pc = "seFailed" /\ Names(p) = (IF svc.restore THEN {"register", "start"} ELSE {})
        \/ c.pc \in {"seClosed", "enabled"}
           /\ Names(p) = {"register", "seMode", IF svc'.polling THEN "start" ELSE "stop"}
        \/ c.pc \in OpenAsks \cup {"seCheck", "seRegister"} /\ Names(p) = {"seFailed"}
        \/ c.pc \in CloseAsks /\ Names(p) = {"seClosed"}

\* In what phase that is.
ServiceLeads(p) ==
    LET c == thread["service"]
        R == Names(c.rest)
    IN  \/ Names(p) = R /\ (c.pc = "seWired" => Answered(c) /\ c.frame["call"].ok)
        \/ c.pc = "register" /\ Names(p) \subseteq R
        \/ c.pc \in InitLabels \ {"configure"} /\ Names(p) \subseteq InitLabels \ {"configure"}
        \/ c.pc \in {"seFailed", "seClosed", "enabled"} /\ Names(p) \subseteq RouteLabels
        \/ c.pc \in OpenLabels \cup CloseLabels /\ Names(p) \subseteq {"seFailed", "seClosed"}

LEMMA GoesLeads ==
    ASSUME NEW p, ServiceGoes(p)
    PROVE  ServiceLeads(p)
<1> DEFINE l == thread["service"].pc
           D == Names(p)
<1>1. CASE D = Names(thread["service"].rest) /\ (l = "seWired" => Answered(thread["service"]) /\ thread["service"].frame["call"].ok)
  BY <1>1 DEF ServiceLeads
<1>2. CASE l = "register" /\ D \subseteq Names(thread["service"].rest)
  BY <1>2 DEF ServiceLeads
<1>3. CASE l \in InitLabels \ {"configure", "enabled"} /\ D \in {{}, {"fwFailed"}, {"initFails"}, Again, {"fwDeinit"} \cup Again}
  <2>1. {"fwFailed", "initFails", "fwDeinit"} \cup Again \subseteq InitLabels \ {"configure"}
    BY DEF Again, InitLabels
  <2>2. D \subseteq InitLabels \ {"configure"}
    BY <1>3, <2>1
  <2>3. QED
    BY <1>3, <2>2 DEF ServiceLeads
<1>4. CASE l = "seFailed" /\ D = (IF svc.restore THEN {"register", "start"} ELSE {})
  BY <1>4 DEF ServiceLeads, RouteLabels
<1>5. CASE l \in {"seClosed", "enabled"} /\ D = {"register", "seMode", IF svc'.polling THEN "start" ELSE "stop"}
  BY <1>5 DEF ServiceLeads, RouteLabels
<1>6. CASE l \in OpenAsks \cup {"seCheck", "seRegister"} /\ D = {"seFailed"}
  BY <1>6 DEF ServiceLeads, OpenAsks, OpenLabels
<1>7. CASE l \in CloseAsks /\ D = {"seClosed"}
  BY <1>7 DEF ServiceLeads, CloseAsks, CloseLabels
<1>8. QED
  BY <1>1, <1>2, <1>3, <1>4, <1>5, <1>6, <1>7 DEF ServiceGoes

\* What it does to the polling loop, the element and the listener.
SwitchEffect ==
    LET c == thread["service"]
        l == c.pc
    IN  /\ l \notin {"seClosed", "enabled"} => svc'.polling = (svc.polling \/ (l = "seFailed" /\ svc.restore))
        /\ svc'.ee = ((svc.ee \/ l = "seOpened") /\ l # "seClosed")
        /\ l = "enabled" => svc'.on
        /\ l \in {"start", "stop"} => Answered(c)
        /\ l \notin {"register", "seRegister"} => lib'.listener = lib.listener
        /\ l = "register" => "registerRefused" \in hist' \/ lib'.listener = "discovery"

\* What it does to the driver, its thread and the switch.
ServiceEffect ==
    LET c == thread["service"]
        l == c.pc
    IN  /\ hist \subseteq hist'
        /\ l \notin {"configure", "unconfigure", "initFails", "deinit"} =>
             nat'.driver = nat.driver /\ nat'.clients = nat.clients /\ nat'.kill = nat.kill
        /\ l \notin {"enabled", "deinit"} => svc'.on = svc.on
        /\ l = "configure" =>
             /\ ~nat.kill /\ ~nat'.kill /\ nat'.driver
             /\ nat'.clients = IF nat.driver THEN nat.clients ELSE nat.clients + 1
        /\ l = "unconfigure" => ~nat'.driver /\ nat'.kill = nat.kill /\ nat'.clients = nat.clients
        /\ l = "initFails" => "initFailed" \in hist'
        /\ l = "deinit" =>
             /\ Answered(c) /\ c.frame["call"].ok /\ ~svc'.on
             /\ nat'.kill /\ ~nat'.driver /\ nat'.clients = nat.clients
        /\ SwitchEffect

\* A request of the service that fails.
LEMMA ServiceFails ==
    ASSUME Shape, "service" \in roles, thread["service"].pc \in Requests, NEW refused \in BOOLEAN
    PROVE  ServiceGoes(Failed("service", refused))
<1> DEFINE c == thread["service"]
           l == c.pc
           R == Names(c.rest)
<1>1. l \in ServiceLabels
  <2>1. l \notin Mutex
    BY DEF Requests, ManagerAsks, OpenAsks, CloseAsks, Mutex
  <2>2. QED
    BY <2>1, AtWork, RoleHas DEF Shape
<1>2. l \notin {"connect", "p2pConnect", "check", "accepting", "tagDisconnect", "p2pDisconnect"}
  BY <1>1 DEF ServiceLabels, InitLabels, BootLabels, RouteLabels, OpenLabels, CloseLabels
<1>3. Names(Failed("service", refused)) = FailNames("service", refused)
  BY <1>2, AtWork, FailedPlan DEF Shape
<1>4. CASE l \in {"init", "fwLoad", "fwInit", "eeprom"} \/ (l \in {"seOff", "llcpConfig"} /\ refused)
  <2>1. l \in InitLabels \ {"configure", "enabled"}
    BY <1>4 DEF InitLabels
  <2>2. FailNames("service", refused) \in {{"fwFailed"}, {"initFails"}, Again}
    BY <1>4 DEF FailNames, OpenAsks, CloseAsks, Again
  <2>3. QED
    BY <1>3, <2>1, <2>2 DEF ServiceGoes
<1>5. CASE l \in OpenAsks \cup CloseAsks
  <2>1. FailNames("service", refused) = IF l \in OpenAsks THEN {"seFailed"} ELSE {"seClosed"}
    BY <1>5 DEF FailNames, OpenAsks, CloseAsks
  <2>2. QED
    BY <1>3, <1>5, <2>1 DEF ServiceGoes
<1>6. CASE /\ l \notin {"init", "fwLoad", "fwInit", "eeprom"} /\ ~(l \in {"seOff", "llcpConfig"} /\ refused)
           /\ l \notin OpenAsks \cup CloseAsks
  <2>1. FailNames("service", refused) = R
    BY <1>2, <1>6 DEF FailNames
  <2>2. l \notin {"seWired", "init", "fwInit", "eeprom", "seFailed", "seClosed", "enabled"}
    BY <1>6 DEF OpenAsks, Requests, ManagerAsks, CloseAsks
  <2>3. QED
    BY <1>3, <2>1, <2>2 DEF ServiceGoes
<1>7. QED
  BY <1>4, <1>5, <1>6

LEMMA ServiceStep ==
    ASSUME Shape, "service" \in roles, Step("service")
    PROVE  \/ accepts("service")
           \/ /\ thread["service"].st = "runs" /\ Sleeps("service", "waits") /\ UNCHANGED <<msgs, nat, lib, svc>>
              /\ hist \subseteq hist' /\ thread["service"].pc \in {"seNotified", "gpioGet"}
              /\ thread["service"].pc = "gpioGet" => "gpioRefused" \in hist'
           \/ /\ msgs' = msgs /\ ServiceEffect /\ \E p : Moves("service", p) /\ ServiceGoes(p) /\ ServiceLeads(p)
              /\ \/ thread["service"].st = "runs" \/ thread["service"].pc = "fwDeinit" \/ Answered(thread["service"])
<1> DEFINE c == thread["service"]
           l == c.pc
           R == Names(c.rest)
<1>0. ContextInv /\ RoleLabels("service") = ServiceLabels /\ (l \notin Mutex => l \in ServiceLabels) /\ SvcOK /\ NatOK
  BY AtWork, RoleHas DEF Shape, TypeInv
<1>1. CASE accepts("service")
  BY <1>1
<1>2. CASE awaitElement("service") \/ gpioRefused("service")
  <2>1. UNCHANGED <<msgs, nat, lib, svc>> /\ hist \subseteq hist' /\ (l = "gpioGet" => "gpioRefused" \in hist')
    BY <1>2 DEF awaitElement, gpioRefused, At, Silent, adapter
  <2>2. QED
    BY <1>2, <2>1, AwaitSteps
<1>3. SUFFICES ASSUME ~accepts("service"), ~awaitElement("service"), ~gpioRefused("service")
               PROVE  ServiceEffect /\ \E p : Moves("service", p) /\ ServiceGoes(p)
  <2>1. ~accept("service")
    BY AcceptStep
  <2>2. StepMoves("service") /\ (accepts("service") \/ ~Sleeps("service", "cond"))
    <3>1. StepMoves("service")
      BY StepGoes
    <3>2. Sleeps("service", "cond") => thread'["service"].st = "cond"
      BY DEF Sleeps
    <3>3. ContextInv' /\ "service" \in roles'
      BY StepKeeps DEF Shape, StepFrame
    <3>4. thread'["service"].st = "cond" => accept("service")
      BY StepKeeps DEF StepFrame
    <3>5. QED
      BY <2>1, <3>1, <3>2, <3>4
  <2>3. CASE Sleeps("service", "waits") /\ thread["service"].st = "runs" /\ ~(\E p : Moves("service", p))
    BY <1>1, <1>2, <1>3, <2>3
  <2>4. QED
    BY <1>1, <1>2, <1>3, <2>2, <2>3, GoesLeads DEF StepMoves
<1>20. ASSUME UNCHANGED svc, lib'.listener = lib.listener, l \notin {"seOpened", "seClosed", "seFailed", "enabled", "register"},
              l \in {"start", "stop"} => Answered(c)
       PROVE  SwitchEffect
  <2>1. svc.polling \in BOOLEAN /\ svc.ee \in BOOLEAN
    BY <1>0 DEF SvcOK
  <2>2. QED
    BY <1>20, <2>1 DEF SwitchEffect
<1>4. CASE takeLock("service") \/ giveLock("service")
  <2>1. Moves("service", c.rest) /\ l \in {"lock", "unlock"} /\ UNCHANGED <<nat, lib, svc, hist>>
    BY <1>4, LockSteps DEF takeLock, giveLock, adapter
  <2>2. SwitchEffect
    BY <1>20, <2>1
  <2>4. ServiceGoes(c.rest) /\ ServiceEffect
    BY <2>1, <2>2 DEF ServiceGoes, ServiceEffect
  <2>3. QED
    BY <2>1, <2>4
<1>5. CASE refuses("service")
  <2>1. /\ Moves("service", Failed("service", TRUE)) /\ l \in Requests \ (Fatal \cup {"seNotified", "gpioGet"})
        /\ nat'.driver = nat.driver /\ nat'.clients = nat.clients /\ nat'.kill = nat.kill /\ UNCHANGED <<lib, svc, hist>>
    BY <1>5, RefusesStep DEF refuses
  <2>2. l \notin {"configure", "unconfigure", "initFails", "deinit", "enabled", "start", "stop", "seOpened", "seClosed",
                  "seFailed", "register"}
    BY <2>1 DEF Requests, ManagerAsks, OpenAsks, CloseAsks, Fatal
  <2>3. ServiceGoes(Failed("service", TRUE))
    BY <2>1, ServiceFails
  <2>4. ServiceEffect
    <3>1. SwitchEffect
      BY <1>20, <2>1, <2>2
    <3>2. QED
      BY <2>1, <2>2, <3>1 DEF ServiceEffect
  <2>5. QED
    BY <2>1, <2>3, <2>4
<1>6. CASE wakes("service")
  <2>1. Answered(c) /\ l # "deinit" /\ UNCHANGED adapter /\ l \in Requests
    BY <1>6, WakesStep
  <2>2. l \notin {"configure", "unconfigure", "initFails", "deinit", "enabled", "seOpened", "seClosed", "seFailed", "register"}
    BY <2>1 DEF Requests, ManagerAsks, OpenAsks, CloseAsks
  <2>3. ServiceEffect
    <3>1. UNCHANGED <<nat, lib, svc, hist>>
      BY <2>1 DEF adapter
    <3>2. SwitchEffect
      BY <1>20, <2>1, <2>2, <3>1
    <3>3. QED
      BY <2>2, <3>1, <3>2 DEF ServiceEffect
  <2>4. CASE Status("service") /\ Moves("service", c.rest)
    <3>1. l = "seWired" => c.frame["call"].ok
      BY <2>4 DEF Status, FrameOf
    <3>2. ServiceGoes(c.rest)
      BY <2>1, <2>2, <3>1 DEF ServiceGoes
    <3>3. QED
      BY <2>3, <2>4, <3>2
  <2>5. CASE Moves("service", Failed("service", FALSE))
    BY <2>1, <2>3, <2>5, ServiceFails
  <2>6. CASE l = "init" /\ Moves("service", download_locked(TRUE) \o initializeTail)
    <3> DEFINE q == download_locked(TRUE) \o initializeTail
    <3>1. Names(q) = {"fwDeinit"} \cup {"fwLoad", "fwInit", "eeprom", "seOff", "llcpConfig", "seListen", "enabled"}
      BY DownloadPlan
    <3> HIDE DEF q
    <3>2. Names(q) = {"fwDeinit"} \cup Again
      BY <3>1 DEF Again
    <3>4. ServiceGoes(q)
      BY <2>6, <3>2 DEF ServiceGoes, InitLabels
    <3>3. QED
      BY <2>3, <2>6, <3>4 DEF q
  <2>7. QED
    BY <1>6, <2>4, <2>5, <2>6, WakesStep
<1>7. CASE activate("service") \/ connected("service") \/ released("service") \/ ignored("service") \/ accept("service")
  BY <1>7, ActivateStep, DeviceSteps, AcceptStep DEF DeviceThreads
<1>8. CASE timeoutStep("service")
  <2>1. l \in {"setTimeout", "resetTimeouts"}
    BY <1>8, TimeoutSteps
  <2>2. l \notin ServiceLabels \cup Mutex
    BY <2>1 DEF ServiceLabels, InitLabels, BootLabels, RouteLabels, OpenLabels, CloseLabels, Mutex
  <2>3. QED
    BY <1>0, <2>2
<1>9. CASE seCheck("service") \/ seRegister("service") \/ seListen("service")
  <2>1. UNCHANGED <<nat, svc, hist>> /\ l \in {"seCheck", "seRegister", "seListen"} /\ (l # "seRegister" => UNCHANGED lib)
    BY <1>9 DEF seCheck, seRegister, seListen, adapter, At
  <2>2. ServiceEffect
    <3>1. svc.polling \in BOOLEAN /\ svc.ee \in BOOLEAN
      BY <1>0 DEF SvcOK
    <3>2. SwitchEffect
      BY <2>1, <3>1 DEF SwitchEffect
    <3>3. QED
      BY <2>1, <3>2 DEF ServiceEffect
  <2> DEFINE p == <<"unlock", "seFailed">>
             q == <<"initFails">>
  <2>3. Names(p) = {"seFailed"} /\ Names(q) = {"initFails"}
    BY ShortPlans
  <2> HIDE DEF p, q
  <2>4. ServiceGoes(c.rest)
    BY <2>1 DEF ServiceGoes
  <2>5. l \in {"seCheck", "seRegister"} => ServiceGoes(p)
    BY <2>3 DEF ServiceGoes
  <2>6. l = "seListen" => ServiceGoes(q)
    BY <2>3 DEF ServiceGoes, InitLabels
  <2>7. \/ Moves("service", c.rest)
        \/ Moves("service", p) /\ l \in {"seCheck", "seRegister"}
        \/ Moves("service", q) /\ l = "seListen"
    BY <1>9, LookSteps DEF p, q
  <2>8. QED
    BY <2>2, <2>4, <2>5, <2>6, <2>7
<1>10. CASE seFailed("service") \/ seOpened("service") \/ seClosed("service") \/ enabled("service")
  <2>1. UNCHANGED <<nat, lib, hist>> /\ l \in {"seFailed", "seOpened", "seClosed", "enabled"}
    BY <1>10 DEF seFailed, seOpened, seClosed, enabled, At
  <2>2. CASE l = "seFailed"
    <3> DEFINE p == IF svc.restore THEN enableDiscovery ELSE <<>>
    <3>1. svc' = [svc EXCEPT !.polling = @ \/ svc.restore, !.restore = FALSE] /\ Moves("service", p)
      BY <1>10, <2>2, EndSteps
    <3>2. Names(p) = IF svc.restore THEN {"register", "start"} ELSE {}
      BY RoutePlans, EmptyPlan
    <3> HIDE DEF p
    <3>3. svc'.on = svc.on /\ svc'.polling = (svc.polling \/ svc.restore) /\ svc'.ee = svc.ee /\ svc.ee \in BOOLEAN
      BY <1>0, <3>1 DEF SvcOK
    <3>6. SwitchEffect
      BY <2>1, <2>2, <3>3 DEF SwitchEffect
    <3>4. ServiceEffect /\ ServiceGoes(p)
      BY <2>1, <2>2, <3>2, <3>3, <3>6 DEF ServiceEffect, ServiceGoes
    <3>5. QED
      BY <3>1, <3>4
  <2>3. CASE l = "seOpened"
    <3>1. svc' = [svc EXCEPT !.ee = TRUE, !.restore = FALSE] /\ Moves("service", c.rest)
      BY <1>10, <2>3, EndSteps
    <3>2. svc'.on = svc.on /\ svc'.polling = svc.polling /\ svc'.ee = TRUE /\ svc.polling \in BOOLEAN
      BY <1>0, <3>1 DEF SvcOK
    <3>4. SwitchEffect
      BY <2>1, <2>3, <3>2 DEF SwitchEffect
    <3>3. ServiceEffect /\ ServiceGoes(c.rest)
      BY <2>1, <2>3, <3>2, <3>4 DEF ServiceEffect, ServiceGoes
    <3>7. QED
      BY <3>1, <3>3
  <2>4. CASE l \in {"seClosed", "enabled"}
    <3>1. PICK polling \in BOOLEAN : \E p :
            /\ svc' = IF l = "enabled" THEN [svc EXCEPT !.on = TRUE, !.polling = polling]
                      ELSE [svc EXCEPT !.ee = FALSE, !.polling = polling]
            /\ Moves("service", p) /\ Names(p) = {"register", "seMode", IF polling THEN "start" ELSE "stop"}
      BY <1>10, <2>4, EndSteps
    <3>2. PICK p :
            /\ svc' = IF l = "enabled" THEN [svc EXCEPT !.on = TRUE, !.polling = polling]
                      ELSE [svc EXCEPT !.ee = FALSE, !.polling = polling]
            /\ Moves("service", p) /\ Names(p) = {"register", "seMode", IF polling THEN "start" ELSE "stop"}
      BY <3>1
    <3>3. /\ svc'.polling = polling /\ svc'.ee = (svc.ee /\ l # "seClosed")
          /\ IF l = "enabled" THEN svc'.on ELSE svc'.on = svc.on
      <4>1. CASE l = "enabled"
        <5>1. svc' = [svc EXCEPT !.on = TRUE, !.polling = polling] /\ svc.ee \in BOOLEAN
          BY <1>0, <3>2, <4>1 DEF SvcOK
        <5>2. svc'.polling = polling /\ svc'.on = TRUE /\ svc'.ee = svc.ee
          BY <1>0, <5>1 DEF SvcOK
        <5>3. QED
          BY <4>1, <5>1, <5>2
      <4>2. CASE l = "seClosed"
        <5>1. svc' = [svc EXCEPT !.ee = FALSE, !.polling = polling]
          BY <3>2, <4>2
        <5>2. svc'.polling = polling /\ svc'.on = svc.on /\ svc'.ee = FALSE
          BY <1>0, <5>1 DEF SvcOK
        <5>3. QED
          BY <4>2, <5>2
      <4>3. QED
        BY <2>4, <4>1, <4>2
    <3>4. Names(p) = {"register", "seMode", IF svc'.polling THEN "start" ELSE "stop"}
      BY <3>2, <3>3
    <3>7. SwitchEffect
      BY <1>0, <2>1, <2>4, <3>3 DEF SwitchEffect
    <3>5. ServiceEffect /\ ServiceGoes(p)
      BY <2>1, <2>4, <3>3, <3>4, <3>7 DEF ServiceEffect, ServiceGoes
    <3>6. QED
      BY <3>2, <3>5
  <2>5. QED
    BY <2>1, <2>2, <2>3, <2>4
<1>11. CASE configure("service") \/ unconfigure("service") \/ initFails("service")
  <2> DEFINE p == <<"unlock">>
  <2>1. UNCHANGED <<lib, svc>>
    BY <1>11 DEF configure, unconfigure, initFails
  <2>2. /\ l \in {"configure", "unconfigure", "initFails"}
        /\ Moves("service", IF l = "initFails" THEN p ELSE c.rest)
        /\ l = "configure" =>
             /\ ~nat.kill /\ ~nat'.kill /\ nat'.driver /\ UNCHANGED hist
             /\ nat'.clients = IF nat.driver THEN nat.clients ELSE nat.clients + 1
        /\ l = "unconfigure" => ~nat'.driver /\ nat'.kill = nat.kill /\ nat'.clients = nat.clients /\ UNCHANGED hist
        /\ l = "initFails" => hist' = hist \cup {"initFailed"}
    BY <1>11, DriverSteps
  <2>3. Names(p) = {}
    BY ShortPlans
  <2> HIDE DEF p
  <2>8. SwitchEffect
    BY <1>20, <2>1, <2>2
  <2>4. ServiceEffect
    BY <2>1, <2>2, <2>8 DEF ServiceEffect
  <2>5. l # "initFails" => ServiceGoes(c.rest)
    BY <2>2 DEF ServiceGoes
  <2>6. l = "initFails" => ServiceGoes(p)
    BY <2>3 DEF ServiceGoes, InitLabels
  <2>7. QED
    BY <2>2, <2>4, <2>5, <2>6
<1>12. CASE register("service")
  <2>1. UNCHANGED <<nat, svc>> /\ l = "register"
    BY <1>12 DEF register, At
  <2>2. /\ hist \subseteq hist'
        /\ "registerRefused" \in hist' \/ lib'.listener = "discovery"
        /\ \E p : /\ Moves("service", p)
                 /\ \/ Names(p) = R
                    \/ "registerRefused" \in hist' /\ Names(p) \subseteq R /\ ("stop" \in R => "stop" \in Names(p))
    <3>1. LibOK
      BY DEF Shape, TypeInv
    <3>2. QED
      BY <1>12, <3>1, RegisterStep DEF LibOK
  <2>3. svc.polling \in BOOLEAN /\ svc.ee \in BOOLEAN
    BY <1>0 DEF SvcOK
  <2>4. SwitchEffect
    BY <2>1, <2>2, <2>3 DEF SwitchEffect
  <2>5. ServiceEffect
    BY <2>1, <2>2, <2>4 DEF ServiceEffect
  <2>6. PICK p : /\ Moves("service", p)
                 /\ \/ Names(p) = R
                    \/ "registerRefused" \in hist' /\ Names(p) \subseteq R /\ ("stop" \in R => "stop" \in Names(p))
    BY <2>2
  <2>7. ServiceGoes(p)
    BY <2>1, <2>6 DEF ServiceGoes
  <2>8. QED
    BY <2>5, <2>6, <2>7
<1>13. CASE fwDeinitTimesOut("service")
  <2>1. UNCHANGED <<nat, lib, svc, hist>> /\ l = "fwDeinit" /\ Moves("service", c.rest)
    BY <1>13, UpdateTimesOut DEF fwDeinitTimesOut, adapter
  <2>2. SwitchEffect
    BY <1>20, <2>1
  <2>3. QED
    BY <2>1, <2>2 DEF ServiceEffect, ServiceGoes
<1>14. CASE deinitialized("service")
  <2>1. /\ l = "deinit" /\ Answered(c) /\ Moves("service", c.rest) /\ c.frame["call"].ok
        /\ svc' = [svc EXCEPT !.on = FALSE] /\ nat'.kill /\ ~nat'.driver /\ nat'.clients = nat.clients /\ UNCHANGED <<lib, hist>>
    BY <1>14, DeinitStep DEF deinitialized
  <2>2. ~svc'.on /\ svc'.polling = svc.polling /\ svc'.ee = svc.ee /\ svc.polling \in BOOLEAN /\ svc.ee \in BOOLEAN
    BY <1>0, <2>1 DEF SvcOK
  <2>4. SwitchEffect
    BY <2>1, <2>2 DEF SwitchEffect
  <2>3. QED
    BY <2>1, <2>2, <2>4 DEF ServiceEffect, ServiceGoes
<1>15. CASE fwFailed("service")
  <2>1. UNCHANGED <<nat, lib, svc, hist>> /\ l = "fwFailed"
    BY <1>15 DEF fwFailed, At, adapter
  <2>2. PICK p : /\ Moves("service", p)
                 /\ \/ Names(p) = {"initFails"}
                    \/ Names(p) = {"fwLoad", "fwInit", "eeprom", "seOff", "llcpConfig", "seListen", "enabled"}
    BY <1>0, <1>15, FailedAgain
  <2>3. ServiceGoes(p)
    BY <2>1, <2>2 DEF ServiceGoes, InitLabels, Again
  <2>4. ServiceEffect
    <3>1. SwitchEffect
      BY <1>20, <2>1
    <3>2. QED
      BY <2>1, <3>1 DEF ServiceEffect
  <2>5. QED
    BY <2>2, <2>3, <2>4
<1>16. QED
  BY <1>3, <1>4, <1>5, <1>6, <1>7, <1>8, <1>9, <1>10, <1>11, <1>12, <1>13, <1>14, <1>15 DEF Step

-----------------------------------------------------------------------------
(* The client thread *)

\* What the service has still to do, and what excludes what.
Doing == IF "service" \in roles THEN Todo(thread["service"]) ELSE {}
Phases ==
    /\ "deinit" \in Doing => Doing = {"deinit"}
    /\ "unconfigure" \in Doing => Doing \subseteq BootLabels
    /\ "register" \in Doing => Doing \subseteq RouteLabels

\* There is a link, or will be, only while the library is initialised.
LinkOn ==
    /\ lib.link \in {"checked", "activating", "up"} => lib.on
    /\ \A m \in msgs : m.what = "check" => lib.on
NoLink == ~lib.on /\ lib.link \in {"none", "lost"}

\* A client thread that nobody has asked to end is there as long as the
\* driver is, and the driver as long as an answer is to come.
Driven ==
    /\ nat.clients >= (IF nat.kill THEN 1 ELSE 0)
    /\ nat.driver => nat.clients > (IF nat.kill THEN 1 ELSE 0)
    /\ lib.on \/ svc.on \/ msgs # {} \/ "deinit" \in Doing => nat.driver
    /\ Doing \cap (InitLabels \ {"configure"}) # {} /\ "configure" \notin Doing => nat.driver
    /\ "service" \in roles =>
         LET c == thread["service"]
         IN  c.pc = "deinit" /\ Answered(c) /\ c.frame["call"].ok => msgs = {} /\ NoLink
    /\ "unconfigure" \in Doing => ~svc.on /\ NoLink /\ \A m \in msgs : m.what = "bootLoad"
ClientInv == Phases /\ LinkOn /\ ("initFailed" \notin hist => Driven)

LEMMA LinkOfStep ==
    ASSUME Shape, NEW t \in roles, Step(t)
    PROVE  lib'.on = lib.on /\ (lib'.link = lib.link \/ (lib.link = "checked" /\ lib'.link = "activating"))
<1>0. lib'.on = lib.on /\ LibOK
  BY StepKeeps DEF StepFrame, Shape, TypeInv
<1>1. CASE activate(t)
  BY <1>0, <1>1 DEF activate, LibOK
<1>2. CASE register(t)
  BY <1>0, <1>2 DEF register, LibOK
<1>3. CASE seRegister(t)
  BY <1>0, <1>3 DEF seRegister, LibOK
<1>4. CASE \/ takeLock(t) \/ giveLock(t) \/ accepts(t) \/ refuses(t) \/ wakes(t) \/ ignored(t) \/ accept(t)
           \/ timeoutStep(t) \/ connected(t) \/ released(t)
  BY <1>0, <1>4 DEF takeLock, giveLock, accepts, refuses, wakes, ignored, accept, timeoutStep, connected, released, adapter
<1>5. CASE \/ seCheck(t) \/ awaitElement(t) \/ gpioRefused(t) \/ seFailed(t) \/ seOpened(t) \/ seClosed(t)
           \/ configure(t) \/ unconfigure(t) \/ fwFailed(t) \/ initFails(t) \/ seListen(t)
           \/ enabled(t) \/ fwDeinitTimesOut(t) \/ deinitialized(t)
  BY <1>0, <1>5 DEF seCheck, awaitElement, gpioRefused, seFailed, seOpened, seClosed, configure, unconfigure,
                    fwFailed, initFails, seListen, enabled, fwDeinitTimesOut, deinitialized, adapter
<1>6. QED
  BY <1>1, <1>2, <1>3, <1>4, <1>5 DEF Step

\* libnfc accepts nothing while it is off, but for its initialisation.
LEMMA AcceptsOn ==
    ASSUME Shape, NEW t \in roles, accepts(t)
    PROVE  /\ \/ lib.on \/ lib.link = "up"
              \/ t = "service" /\ thread[t].pc \in {"init", "fwInit"}
              \/ t = "service" /\ thread[t].pc \in {"fwLoad", "bootLoad"} /\ nat.driver
           /\ thread[t].pc = "check" => lib.on
<1> DEFINE l == thread[t].pc
<1>1. l \in RoleLabels(t) /\ MayAccept(t, l)
  BY AcceptsStep
<1>2. l \in {"init", "fwInit", "fwLoad", "bootLoad"} => t = "service"
  BY <1>1, RoleOf DEF ServiceLabels, InitLabels, BootLabels
<1> HIDE DEF l
<1>3. CASE l \in {"init", "fwInit"}
  BY <1>2, <1>3 DEF l
<1>4. CASE l \in {"fwLoad", "bootLoad"}
  BY <1>1, <1>2, <1>4 DEF MayAccept, l
<1>5. CASE l \in {"llcp", "accepting"}
  BY <1>1, <1>5 DEF MayAccept, l
<1>6. CASE l \notin {"init", "fwInit", "fwLoad", "bootLoad", "llcp", "accepting"}
  <2>1. lib.on
    BY <1>1, <1>6 DEF MayAccept
  <2>2. QED
    BY <2>1
<1>7. QED
  BY <1>3, <1>4, <1>5, <1>6

\* Where the service is and what is left, by the order of its plans.
LEMMA DoingFacts ==
    ASSUME Shape, "service" \in roles
    PROVE  LET c == thread["service"]
               R == Names(c.rest)
           IN  /\ "service" \in Threads /\ Doing = ({c.pc} \ Mutex) \cup R /\ R \subseteq Doing /\ R \cap Mutex = {}
               /\ c.pc \notin Mutex => c.pc \in Doing /\ "configure" \notin R
               /\ c.pc = "deinit" => "deinit" \notin R
               /\ c.pc = "unconfigure" => "unconfigure" \notin R
<1> DEFINE c == thread["service"]
           R == Names(c.rest)
<1>1. "service" \in Threads /\ c \in Contexts /\ Orderly(c) /\ Todo(c) \subseteq ServiceLabels
  BY ThreadsOfRoles, RoleHas DEF Shape, ContextInv, ThreadOK
<1>2. Doing = ({c.pc} \ Mutex) \cup R /\ R \cap Mutex = {}
  BY DEF Doing, Todo, Names
<1>3. \A b \in R : Fits(c.pc, b)
  BY <1>1 DEF Orderly
<1>4. c.pc \notin Mutex => Rank(c.pc) >= 1
  <2>1. c.pc \notin Mutex => c.pc \in ServiceLabels
    BY <1>1 DEF Todo
  <2>2. c.pc \in ServiceLabels => Rank(c.pc) >= 1
    BY DEF ServiceLabels, InitLabels, BootLabels, RouteLabels, OpenLabels, CloseLabels, Rank
  <2>3. QED
    BY <2>1, <2>2
<1>5. c.pc \notin Mutex => "configure" \notin R
  <2> SUFFICES ASSUME c.pc \notin Mutex, "configure" \in R PROVE FALSE
    OBVIOUS
  <2>1. Fits(c.pc, "configure")
    BY <1>3
  <2>2. Rank("configure") = 1 /\ "configure" \notin Mutex /\ "configure" \notin {"register", "seMode"}
    BY DEF Rank, Mutex
  <2>3. Rank(c.pc) \in Nat
    BY DEF Rank
  <2>4. Rank(c.pc) < 1
    BY <2>1, <2>2 DEF Fits
  <2>5. QED
    BY <1>4, <2>3, <2>4
<1>6. c.pc = "deinit" => "deinit" \notin R
  BY <1>3 DEF Fits, Rank, Mutex
<1>7. c.pc = "unconfigure" => "unconfigure" \notin R
  BY <1>3 DEF Fits, Rank, Mutex
<1>8. QED
  BY <1>1, <1>2, <1>5, <1>6, <1>7

\* The phases of the service, as it goes on.
LEMMA PhasesGo ==
    ASSUME Shape, Phases, "service" \in roles, UNCHANGED roles,
           NEW p, Moves("service", p), ServiceLeads(p)
    PROVE  /\ Phases' /\ Doing' = Names(p)
           /\ "deinit" \in Doing' => "deinit" \in Doing
           /\ "unconfigure" \in Doing' => "unconfigure" \in Doing
           /\ Doing' \cap (InitLabels \ {"configure"}) # {} /\ "configure" \notin Doing' =>
                \/ thread["service"].pc = "configure"
                \/ Doing \cap (InitLabels \ {"configure"}) # {} /\ "configure" \notin Doing
<1> DEFINE c == thread["service"]
           l == c.pc
           R == Names(c.rest)
           D == Names(p)
<1>1. Doing' = D
  BY DEF Moves, Doing
<1>2. /\ Doing = ({l} \ Mutex) \cup R /\ R \subseteq Doing
      /\ l \notin Mutex => l \in Doing /\ "configure" \notin R
  BY DoingFacts
<1>3. \/ D = R
      \/ l = "register" /\ D \subseteq R
      \/ l \in InitLabels \ {"configure"} /\ D \subseteq InitLabels \ {"configure"}
      \/ l \in {"seFailed", "seClosed", "enabled"} /\ D \subseteq RouteLabels
      \/ l \in OpenLabels \cup CloseLabels /\ D \subseteq {"seFailed", "seClosed"}
  BY DEF ServiceLeads
<1>4. /\ "deinit" \in Doing => Doing = {"deinit"}
      /\ "unconfigure" \in Doing => Doing \subseteq BootLabels
      /\ "register" \in Doing => Doing \subseteq RouteLabels
  BY DEF Phases
<1> HIDE DEF D, R
<1>5. "deinit" \in D => "deinit" \in R
  BY <1>3 DEF InitLabels, RouteLabels
<1>6. "unconfigure" \in D => "unconfigure" \in R
  BY <1>3 DEF InitLabels, RouteLabels
<1>7. l = "register" => l \notin Mutex
  BY DEF Mutex
<1>8. "deinit" \in D => D = {"deinit"}
  <2> SUFFICES ASSUME "deinit" \in D PROVE D = {"deinit"}
    OBVIOUS
  <2>1. Doing = {"deinit"}
    BY <1>2, <1>4, <1>5
  <2>2. D \subseteq R
    BY <1>3, <1>5, <2>1 DEF InitLabels, RouteLabels
  <2>3. QED
    BY <1>2, <2>1, <2>2
<1>9. "unconfigure" \in D => D \subseteq BootLabels
  <2> SUFFICES ASSUME "unconfigure" \in D PROVE D \subseteq BootLabels
    OBVIOUS
  <2>1. Doing \subseteq BootLabels
    BY <1>2, <1>4, <1>6
  <2>2. D \subseteq R
    BY <1>3 DEF InitLabels, RouteLabels
  <2>3. QED
    BY <1>2, <2>1, <2>2
<1>10. "register" \in D => D \subseteq RouteLabels
  <2> SUFFICES ASSUME "register" \in D PROVE D \subseteq RouteLabels
    OBVIOUS
  <2>1. D \subseteq RouteLabels \/ ("register" \in R /\ D \subseteq R)
    BY <1>3 DEF InitLabels
  <2>2. QED
    BY <1>2, <1>4, <2>1
<1>11. ASSUME D \cap (InitLabels \ {"configure"}) # {}, "configure" \notin D, l # "configure"
       PROVE  Doing \cap (InitLabels \ {"configure"}) # {} /\ "configure" \notin Doing
  <2>1. CASE D = R
    BY <1>2, <1>11, <2>1
  <2>2. CASE l = "register" /\ D \subseteq R
    <3>1. Doing \subseteq RouteLabels
      BY <1>2, <1>4, <1>7, <2>2
    <3>2. QED
      BY <1>2, <1>11, <2>2, <3>1 DEF RouteLabels, InitLabels
  <2>3. CASE l \in InitLabels \ {"configure"}
    <3>1. l \notin Mutex
      BY <2>3 DEF InitLabels, Mutex
    <3>2. QED
      BY <1>2, <2>3, <3>1
  <2>4. CASE D \subseteq RouteLabels \/ D \subseteq {"seFailed", "seClosed"}
    BY <1>11, <2>4 DEF RouteLabels, InitLabels
  <2>5. QED
    BY <1>3, <2>1, <2>2, <2>3, <2>4
<1>12. Phases'
  BY <1>1, <1>8, <1>9, <1>10 DEF Phases
<1>13. QED
  BY <1>1, <1>2, <1>5, <1>6, <1>11, <1>12 DEF D

\* A step of another thread.
LEMMA OthersClient ==
    ASSUME Shape, ClientInv, NEW t \in roles, t # "service", Step(t)
    PROVE  ClientInv'
<1>1. /\ UNCHANGED <<roles, svc, hist>> /\ (msgs' = msgs \/ accepts(t))
      /\ nat'.driver = nat.driver /\ nat'.clients = nat.clients /\ nat'.kill = nat.kill
      /\ "service" \in roles => thread'["service"] = thread["service"]
  BY StepKeeps, ThreadsOfRoles DEF StepFrame, Shape
<1>2. lib'.on = lib.on /\ (lib'.link = lib.link \/ (lib.link = "checked" /\ lib'.link = "activating"))
  BY LinkOfStep
<1>3. Doing' = Doing
  BY <1>1 DEF Doing
<1>4. accepts(t) => /\ msgs' = msgs \cup {Request(t, thread[t].pc)} /\ Request(t, thread[t].pc).what = thread[t].pc
                    /\ lib.on /\ (thread[t].pc = "check" => lib.on)
  BY AcceptsStep, AcceptsOn DEF Request, ClientInv, LinkOn
<1>5. Phases'
  BY <1>3 DEF ClientInv, Phases
<1>6. LinkOn'
  BY <1>1, <1>2, <1>4 DEF ClientInv, LinkOn
<1>7. ASSUME Driven PROVE Driven'
  <2>1. NoLink => NoLink' /\ msgs' = msgs
    BY <1>1, <1>2, <1>4 DEF NoLink
  <2>2. msgs' # {} => nat.driver
    BY <1>1, <1>4, <1>7 DEF Driven
  <2>3. QED
    BY <1>1, <1>2, <1>3, <1>7, <2>1, <2>2 DEF Driven
<1>8. QED
  BY <1>1, <1>5, <1>6, <1>7 DEF ClientInv

\* A step of the service.
LEMMA ServiceClient ==
    ASSUME Shape, Asked, ClientInv, "service" \in roles, Step("service")
    PROVE  ClientInv'
<1> DEFINE c == thread["service"]
           l == c.pc
<1>1. /\ UNCHANGED roles /\ "service" \in Threads /\ c \in Contexts /\ NatOK
      /\ lib'.on = lib.on /\ (lib'.link = lib.link \/ (lib.link = "checked" /\ lib'.link = "activating"))
  BY StepKeeps, LinkOfStep, AtWork DEF StepFrame, Shape, TypeInv
<1>2. NoLink => NoLink'
  BY <1>1 DEF NoLink
<1>3. Phases /\ LinkOn /\ ("initFailed" \notin hist => Driven)
  BY DEF ClientInv
<1>4. l \notin Mutex => l \in Doing /\ "configure" \notin Names(c.rest)
  BY DoingFacts
<1>5. CASE accepts("service")
  <2>1. /\ Sleeps("service", "waits") /\ c.st = "runs" /\ l \notin Mutex
        /\ msgs' = msgs \cup {Request("service", l)} /\ Request("service", l).what = l
        /\ nat'.driver = nat.driver /\ nat'.clients = nat.clients /\ nat'.kill = nat.kill
        /\ UNCHANGED <<lib, svc, hist>>
    BY <1>5, AcceptsStep DEF accepts, Request, Requests, ManagerAsks, OpenAsks, CloseAsks, Mutex
  <2>2. thread'["service"].pc = l /\ Doing' = Doing /\ thread'["service"].frame = c.frame
    BY <1>1, <2>1 DEF Sleeps, Doing, Todo
  <2>3. c.frame["call"].sem \in BOOLEAN /\ ~c.frame["call"].sem
    BY <1>1, <2>1 DEF Asked, Contexts, Frames
  <2>4. Phases' /\ LinkOn'
    BY <1>3, <1>5, <2>1, <2>2, AcceptsOn DEF Phases, LinkOn
  <2>5. ASSUME Driven PROVE Driven'
    <3>1. nat.driver
      <4>1. l \in {"init", "fwInit"} => Doing \cap (InitLabels \ {"configure"}) # {} /\ "configure" \notin Doing
        BY <1>4, <2>1, DoingFacts DEF InitLabels
      <4>2. QED
        BY <1>3, <1>5, <2>5, <4>1, AcceptsOn DEF Driven, LinkOn
    <3>2. ~(thread'["service"].pc = "deinit" /\ Answered(thread'["service"]))
      BY <2>2, <2>3 DEF Answered, FrameOf
    <3>3. "unconfigure" \in Doing => l = "bootLoad"
      <4>1. "unconfigure" \in Doing => l \in BootLabels /\ ~lib.on /\ lib.link # "up"
        BY <1>3, <1>4, <2>1, <2>5 DEF Phases, Driven, NoLink
      <4>2. QED
        BY <1>5, <4>1, AcceptsOn DEF BootLabels
    <3>4. QED
      BY <1>1, <1>2, <2>1, <2>2, <2>5, <3>1, <3>2, <3>3 DEF Driven
  <2>6. QED
    BY <1>3, <2>1, <2>4, <2>5 DEF ClientInv
<1>6. CASE /\ c.st = "runs" /\ Sleeps("service", "waits") /\ UNCHANGED <<msgs, nat, lib, svc>>
           /\ hist \subseteq hist' /\ l \in {"seNotified", "gpioGet"}
  <2>1. thread'["service"].pc = l /\ Doing' = Doing
    BY <1>1, <1>6 DEF Sleeps, Doing, Todo
  <2>2. Phases' /\ LinkOn'
    BY <1>3, <1>6, <2>1 DEF Phases, LinkOn
  <2>3. ASSUME Driven PROVE Driven'
    BY <1>1, <1>2, <1>6, <2>1, <2>3 DEF Driven
  <2>4. QED
    BY <1>3, <1>6, <2>2, <2>3 DEF ClientInv
<1>7. CASE msgs' = msgs /\ ServiceEffect /\ \E p : Moves("service", p) /\ ServiceLeads(p)
  <2>1. PICK p : Moves("service", p) /\ ServiceLeads(p)
    BY <1>7
  <2>2. /\ Phases' /\ Doing' = Names(p)
        /\ "deinit" \in Doing' => "deinit" \in Doing
        /\ "unconfigure" \in Doing' => "unconfigure" \in Doing
        /\ Doing' \cap (InitLabels \ {"configure"}) # {} /\ "configure" \notin Doing' =>
             l = "configure" \/ (Doing \cap (InitLabels \ {"configure"}) # {} /\ "configure" \notin Doing)
    BY <1>1, <1>3, <2>1, PhasesGo
  <2>3. ~Answered(thread'["service"])
    BY <2>1 DEF Moves, Answered
  <2>4. LinkOn'
    BY <1>1, <1>3, <1>7 DEF LinkOn
  <2>5. ASSUME Driven, "initFailed" \notin hist' PROVE Driven'
    <3>0. /\ nat.clients >= (IF nat.kill THEN 1 ELSE 0) /\ (nat.driver => nat.clients > (IF nat.kill THEN 1 ELSE 0))
          /\ lib.on \/ svc.on \/ msgs # {} \/ "deinit" \in Doing => nat.driver
          /\ Doing \cap (InitLabels \ {"configure"}) # {} /\ "configure" \notin Doing => nat.driver
          /\ l = "deinit" /\ Answered(c) /\ c.frame["call"].ok => msgs = {} /\ NoLink
          /\ "unconfigure" \in Doing => ~svc.on /\ NoLink /\ \A m \in msgs : m.what = "bootLoad"
      BY <2>5 DEF Driven
    <3>1. l \in {"configure", "unconfigure", "deinit", "enabled", "initFails"} => l \in Doing
      BY <1>4 DEF Mutex
    <3>2. l \in {"enabled"} => nat.driver
      BY <1>4, <3>0, <3>1, DoingFacts DEF InitLabels, Mutex
    <3>3. "deinit" \in Doing' => l \notin {"configure", "unconfigure", "deinit"}
      <4>1. "deinit" \in Doing' => Doing = {"deinit"} /\ "deinit" \in Names(c.rest)
        <5>1. "deinit" \in Doing' => Doing = {"deinit"}
          BY <1>3, <2>2 DEF Phases
        <5>2. "deinit" \in Doing' => "deinit" \in Names(c.rest)
          BY <2>1, <2>2 DEF ServiceLeads, InitLabels, RouteLabels
        <5>3. QED
          BY <5>1, <5>2
      <4>2. QED
        BY <3>1, <4>1, DoingFacts
    <3>4. CASE l = "configure"
      <4>1. /\ ~nat.kill /\ ~nat'.kill /\ nat'.driver /\ svc'.on = svc.on
            /\ nat'.clients = IF nat.driver THEN nat.clients ELSE nat.clients + 1
        BY <1>7, <3>4 DEF ServiceEffect
      <4>2. nat.clients \in Nat
        BY <1>1 DEF NatOK
      <4>3. nat'.clients > (IF nat'.kill THEN 1 ELSE 0) /\ nat'.clients >= (IF nat'.kill THEN 1 ELSE 0)
        BY <3>0, <4>1, <4>2
      <4>4. "unconfigure" \in Doing' => ~svc'.on /\ NoLink' /\ \A m \in msgs' : m.what = "bootLoad"
        BY <1>2, <1>7, <2>2, <3>0, <4>1
      <4>5. QED
        BY <2>3, <4>1, <4>3, <4>4 DEF Driven
    <3>5. CASE l = "unconfigure"
      <4>1. ~nat'.driver /\ nat'.kill = nat.kill /\ nat'.clients = nat.clients /\ svc'.on = svc.on
        BY <1>7, <3>5 DEF ServiceEffect
      <4>2. ~svc.on /\ NoLink /\ \A m \in msgs : m.what = "bootLoad"
        BY <3>0, <3>1, <3>5
      <4>3. msgs = {}
        <5>1. ASSUME NEW m \in msgs PROVE FALSE
          <6>1. m.what = "bootLoad" /\ m.what \in RoleLabels(m.to)
            BY <4>2 DEF Shape, MsgType
          <6>2. m.to = "service"
            BY <6>1, RoleOf DEF ServiceLabels, BootLabels
          <6>3. c.pc = "bootLoad"
            BY <6>1, <6>2 DEF Asked, FrameOf
          <6>4. QED
            BY <3>5, <6>3
        <5>2. QED
          BY <5>1
      <4>4. "unconfigure" \notin Doing' /\ Doing' \subseteq BootLabels
        <5>1. Doing \subseteq BootLabels /\ "unconfigure" \notin Names(c.rest)
          BY <1>3, <3>1, <3>5, DoingFacts DEF Phases
        <5>2. Doing' = Names(c.rest)
          BY <2>1, <2>2, <3>5 DEF ServiceLeads, InitLabels, OpenLabels, CloseLabels
        <5>3. QED
          BY <5>1, <5>2, DoingFacts
      <4>5. Doing' \cap (InitLabels \ {"configure"}) = {} /\ "deinit" \notin Doing'
        BY <4>4 DEF BootLabels, InitLabels
      <4>6. QED
        BY <1>1, <1>2, <1>7, <2>3, <3>0, <4>1, <4>2, <4>3, <4>4, <4>5 DEF Driven, NoLink
    <3>6. CASE l = "deinit"
      <4>1. /\ Answered(c) /\ c.frame["call"].ok /\ ~svc'.on
            /\ nat'.kill /\ ~nat'.driver /\ nat'.clients = nat.clients
        BY <1>7, <3>6 DEF ServiceEffect
      <4>2. msgs = {} /\ NoLink /\ nat.driver /\ nat.clients \in Nat
        BY <1>1, <3>0, <3>1, <3>6, <4>1 DEF NatOK
      <4>3. Doing' = {}
        <5>1. Doing = {"deinit"} /\ "deinit" \notin Names(c.rest)
          BY <1>3, <3>1, <3>6, DoingFacts DEF Phases
        <5>2. Doing' = Names(c.rest)
          BY <2>1, <2>2, <3>6 DEF ServiceLeads, InitLabels, OpenLabels, CloseLabels
        <5>3. QED
          BY <5>1, <5>2, DoingFacts
      <4>4. nat'.clients >= 1
        BY <3>0, <4>1, <4>2
      <4>5. QED
        BY <1>1, <1>2, <1>7, <2>3, <4>1, <4>2, <4>3, <4>4 DEF Driven, NoLink
    <3>7. CASE l \notin {"configure", "unconfigure", "deinit"}
      <4>1. l # "initFails"
        BY <1>7, <2>5 DEF ServiceEffect
      <4>2. nat'.driver = nat.driver /\ nat'.clients = nat.clients /\ nat'.kill = nat.kill
        BY <1>7, <3>7, <4>1 DEF ServiceEffect
      <4>3. svc'.on => nat.driver
        BY <1>7, <3>0, <3>2, <3>7 DEF ServiceEffect
      <4>4. "unconfigure" \in Doing' => ~svc'.on /\ NoLink'
        <5>1. "unconfigure" \in Doing => l # "enabled"
          BY <1>3, <3>1 DEF Phases, BootLabels
        <5>2. QED
          BY <1>2, <1>7, <2>2, <3>0, <3>7, <5>1 DEF ServiceEffect
      <4>5. QED
        BY <1>1, <1>7, <2>2, <2>3, <3>0, <3>7, <4>2, <4>3, <4>4 DEF Driven
    <3>8. QED
      BY <3>4, <3>5, <3>6, <3>7
  <2>6. "initFailed" \notin hist' => "initFailed" \notin hist
    BY <1>7 DEF ServiceEffect
  <2>7. QED
    BY <1>3, <2>2, <2>4, <2>5, <2>6 DEF ClientInv
<1>8. QED
  BY <1>5, <1>6, <1>7, ServiceStep

\* What begins.
LEMMA CallsClient ==
    ASSUME Shape, ClientInv, ServiceCalls \/ TagCalls \/ PeerStarts \/ SocketCalls \/ TimeoutCalls
    PROVE  ClientInv'
<1>1. UNCHANGED <<nat, lib, hist>>
  BY ServiceCallsStep, OtherCallsStep DEF adapter
<1>2. CASE TagCalls \/ PeerStarts \/ SocketCalls \/ TimeoutCalls
  <2>1. PICK t \in roles : \E p : Starts(t, p) /\ t # "service"
    BY <1>2, OtherCallsStep
  <2>2. UNCHANGED <<roles, msgs, svc>> /\ ("service" \in roles => thread'["service"] = thread["service"])
    BY <1>2, <2>1, OtherCallsStep, ThreadsOfRoles DEF Starts, Shape, adapter
  <2>3. Doing' = Doing /\ (NoLink' <=> NoLink)
    BY <1>1, <2>2 DEF Doing, NoLink
  <2>4. QED
    BY <1>1, <2>2, <2>3 DEF ClientInv, Phases, LinkOn, Driven
<1>3. CASE ServiceCalls
  <2>1. PICK p :
          /\ Starts("service", p)
          /\ \/ ~svc.on /\ UNCHANGED svc /\ Names(p) = {"configure", "init", "eeprom", "seOff", "llcpConfig", "seListen", "enabled"}
             \/ ~svc.on /\ ~nat.driver /\ UNCHANGED svc /\ Names(p) = {"configure", "bootLoad", "unconfigure"}
             \/ svc.on /\ Names(p) = {"deinit"} /\ UNCHANGED svc
             \/ /\ svc'.on = svc.on
                /\ \/ Names(p) \subseteq RouteLabels
                   \/ Names(p) \cap (InitLabels \cup BootLabels \cup {"deinit", "register"}) = {}
    <3>1. SvcOK
      BY DEF Shape, TypeInv
    <3>2. PICK p :
                /\ Starts("service", p)
                /\ \/ ~svc.on /\ UNCHANGED svc /\ Names(p) = {"configure", "init", "eeprom", "seOff", "llcpConfig", "seListen", "enabled"}
                   \/ /\ ~svc.on /\ ~nat.driver /\ UNCHANGED svc
                      /\ Names(p) = {"configure", "bootLoad", "unconfigure"}
                   \/ svc.on /\ Names(p) = {"deinit"} /\ UNCHANGED svc
                   \/ \E polling \in BOOLEAN :
                           /\ svc' = [svc EXCEPT !.polling = polling]
                           /\ Names(p) = {"register", "seMode", IF polling THEN "start" ELSE "stop"}
                   \/ Names(p) = {"start"} /\ UNCHANGED svc
                   \/ /\ svc' = [svc EXCEPT !.polling = FALSE, !.restore = svc.polling]
                      /\ Names(p) = OpenNames \cup (IF svc.polling THEN {"stop"} ELSE {})
                   \/ UNCHANGED svc /\ Names(p) = {"seDisconnect", "gpioBack", "gpioClear", "seClosed"}
                   \/ UNCHANGED svc /\ Names(p) = {"seAsk"}
      BY <1>3, ServiceCallsStep
    <3>3. CASE \E polling \in BOOLEAN :
                           /\ svc' = [svc EXCEPT !.polling = polling]
                           /\ Names(p) = {"register", "seMode", IF polling THEN "start" ELSE "stop"}
      BY <3>1, <3>2, <3>3 DEF SvcOK, RouteLabels
    <3>4. CASE Names(p) = {"start"} /\ UNCHANGED svc
      BY <3>2, <3>4 DEF RouteLabels
    <3>5. CASE /\ svc' = [svc EXCEPT !.polling = FALSE, !.restore = svc.polling]
               /\ Names(p) = OpenNames \cup (IF svc.polling THEN {"stop"} ELSE {})
      <4>1. svc'.on = svc.on
        BY <3>1, <3>5 DEF SvcOK
      <4>2. (OpenNames \cup {"stop"}) \cap (InitLabels \cup BootLabels \cup {"deinit", "register"}) = {}
        BY DEF OpenNames, InitLabels, BootLabels
      <4>3. QED
        BY <3>2, <3>5, <4>1, <4>2
    <3>6. CASE UNCHANGED svc /\ Names(p) \in {{"seDisconnect", "gpioBack", "gpioClear", "seClosed"}, {"seAsk"}}
      BY <3>2, <3>6 DEF InitLabels, BootLabels
    <3>7. QED
      BY <3>2, <3>3, <3>4, <3>5, <3>6
  <2>2. /\ UNCHANGED <<roles, msgs>> /\ Doing = {} /\ Doing' = Names(p) /\ ~Answered(thread'["service"])
    BY <1>3, <2>1, ServiceCallsStep, IdleFacts DEF Starts, Doing, Answered
  <2>3. Phases'
    BY <2>1, <2>2 DEF Phases, BootLabels, RouteLabels, InitLabels
  <2>4. LinkOn'
    BY <1>1, <2>2 DEF ClientInv, LinkOn
  <2>5. ASSUME Driven PROVE Driven'
    <3>0. LibOK
      BY DEF Shape, TypeInv
    <3>1. NoLink' <=> NoLink
      BY <1>1 DEF NoLink
    <3>2. /\ Names(p) \cap (InitLabels \ {"configure"}) # {} => "configure" \in Names(p)
          /\ "deinit" \in Names(p) => svc.on
          /\ svc'.on => svc.on
          /\ "unconfigure" \in Names(p) => ~nat.driver /\ ~svc'.on
      BY <2>1 DEF InitLabels, BootLabels, RouteLabels
    <3>3. ~nat.driver => NoLink /\ msgs = {}
      BY <2>5, <3>0 DEF Driven, ClientInv, LinkOn, LibOK, NoLink
    <3>4. QED
      BY <1>1, <2>2, <2>5, <3>1, <3>2, <3>3 DEF Driven
  <2>6. QED
    BY <1>1, <2>3, <2>4, <2>5 DEF ClientInv
<1>4. QED
  BY <1>2, <1>3

\* The callbacks.
LEMMA AnswersClient ==
    ASSUME Shape, Asked, ClientInv, answers
    PROVE  ClientInv'
<1>1. PICK m \in msgs, good \in BOOLEAN :
        /\ Posts(m, good) /\ msgs' = (msgs \ {m}) \cup ElementNotified(m, good) /\ lib' = LibAfter(m, good)
        /\ m.what \in {"deinit", "fwDeinit"} => msgs = {m}
        /\ hist' = IF m.what \in {"start", "restart", "stop"} /\ ~good THEN hist \cup {"startFailed"} ELSE hist
  BY AnswersStep
<1>2. /\ m.what \in Requests /\ LibOK /\ UNCHANGED <<nat, svc, roles>> /\ LibOK'
      /\ m.what \in RoleLabels(m.to)
  BY <1>1, AnswersStep DEF Shape, MsgType, TypeInv
<1>3. "service" \in roles =>
        /\ Todo(thread'["service"]) = Todo(thread["service"]) /\ thread'["service"].pc = thread["service"].pc
  BY <1>1, PostsKeeps, ThreadsOfRoles DEF Shape
<1>4. Doing' = Doing
  BY <1>2, <1>3 DEF Doing
<1>5. Phases'
  BY <1>4 DEF ClientInv, Phases
<1>6. /\ lib'.link = "checked" => lib.link = "checked" \/ m.what = "check"
      /\ lib'.link \in {"activating", "up"} => lib.link = lib'.link
      /\ lib'.on => lib.on \/ m.what \in {"init", "fwInit"}
      /\ ~lib'.on => ~lib.on \/ (m.what \in {"deinit", "fwDeinit"} /\ lib'.link \in {"none", "lost"})
      /\ m.what = "bootLoad" => lib' = lib
      /\ m.what = "deinit" /\ good => ~lib'.on /\ lib'.link \in {"none", "lost"}
  <2>1. m.what = "bootLoad" => lib' = lib
    BY <1>1 DEF LibAfter
  <2>2. QED
    BY <1>1, <1>2, <2>1, LibAfterFacts
<1>7. \A n \in ElementNotified(m, good) : n.what = "seNotified" /\ m.what = "seWired"
  BY <1>2 DEF ElementNotified, Shape, MsgType
<1>8. LinkOn'
  <2>1. ASSUME NEW n \in msgs', n.what = "check" PROVE lib'.on
    <3>1. n \in msgs /\ n # m
      BY <1>1, <1>7, <2>1
    <3>2. lib.on /\ m.what \notin {"deinit", "fwDeinit"}
      BY <1>1, <2>1, <3>1 DEF ClientInv, LinkOn
    <3>3. QED
      BY <1>6, <3>2
  <2>2. lib'.link \in {"checked", "activating", "up"} => lib'.on
    BY <1>6 DEF ClientInv, LinkOn
  <2>3. QED
    BY <2>1, <2>2 DEF LinkOn
<1>9. ASSUME Driven PROVE Driven'
  <2>1. nat.driver
    BY <1>9 DEF Driven
  <2>2. ASSUME "service" \in roles, thread'["service"].pc = "deinit", Answered(thread'["service"]),
               thread'["service"].frame["call"].ok
        PROVE  msgs' = {} /\ NoLink'
    <3>1. thread["service"].pc = "deinit" /\ "service" \in Threads
      BY <1>3, <2>2, ThreadsOfRoles DEF Shape
    <3>2. ~(Answered(thread["service"]) /\ thread["service"].frame["call"].ok)
      BY <1>9, <2>2, <3>1 DEF Driven
    <3>3. m.to = "service" /\ Alive(m) /\ FrameOf(m.what) = "call" /\ good
      <4>1. CASE m.to # "service" \/ ~Alive(m)
        <5>1. thread'["service"] = thread["service"]
          BY <1>1, <3>1, <4>1 DEF Posts
        <5>2. QED
          BY <2>2, <3>2, <5>1
      <4>2. CASE m.to = "service" /\ Alive(m)
        <5>1. /\ thread'["service"].st = thread["service"].st
              /\ \A f \in Frames : thread'["service"].frame[f] =
                   IF f = FrameOf(m.what) THEN [sem |-> TRUE, ok |-> good] ELSE thread["service"].frame[f]
          BY <1>1, <4>2 DEF Posts
        <5>2. FrameOf("deinit") = "call" /\ "call" \in Frames
          BY DEF FrameOf, Frames
        <5>3. FrameOf(m.what) # "call" => FALSE
          BY <2>2, <3>1, <3>2, <5>1, <5>2 DEF Answered
        <5>4. thread'["service"].frame["call"].ok = good
          BY <5>1, <5>2, <5>3
        <5>5. QED
          BY <2>2, <4>2, <5>3, <5>4
      <4>3. QED
        BY <4>1, <4>2
    <3>4. m.what = "deinit"
      BY <3>1, <3>3 DEF Asked
    <3>5. msgs' = {}
      <4>1. msgs = {m} /\ ElementNotified(m, good) = {}
        BY <1>1, <1>7, <3>4
      <4>2. QED
        BY <1>1, <4>1
    <3>6. QED
      BY <1>6, <3>3, <3>4, <3>5 DEF NoLink
  <2>3. "unconfigure" \in Doing => NoLink' /\ \A n \in msgs' : n.what = "bootLoad"
    <3>1. "unconfigure" \in Doing => m.what = "bootLoad" /\ NoLink /\ \A n \in msgs : n.what = "bootLoad"
      BY <1>9 DEF Driven
    <3>2. m.what = "bootLoad" => ElementNotified(m, good) = {}
      BY <1>7
    <3>3. QED
      BY <1>1, <1>6, <3>1, <3>2 DEF NoLink
  <2>4. QED
    BY <1>2, <1>4, <1>9, <2>1, <2>2, <2>3 DEF Driven
<1>10. "initFailed" \notin hist' => "initFailed" \notin hist
  BY <1>1
<1>11. QED
  BY <1>5, <1>8, <1>9, <1>10 DEF ClientInv

\* The end of a client thread, the link, the remote device and the sockets.
LEMMA EventsClient ==
    ASSUME Shape, ClientInv,
           \/ clientStops \/ linkStatus \/ RemoteLeaves \/ Discovered \/ \E s \in Servers : listenCallback(s)
           \/ createServiceSocket \/ createLlcpSocket \/ createConnectionlessSocket
           \/ closeSocket \/ closeConnectionless \/ \E t \in Servers : closeServiceSocket(t)
    PROVE  ClientInv'
<1>1. /\ UNCHANGED <<msgs, svc, hist, roles>> /\ lib'.on = lib.on /\ nat'.driver = nat.driver
      /\ UNCHANGED thread \/ Stirs
  BY LinkEvents, SocketSteps
<1>2. "service" \in roles =>
        /\ Todo(thread'["service"]) = Todo(thread["service"]) /\ thread'["service"].pc = thread["service"].pc
        /\ Answered(thread'["service"]) <=> Answered(thread["service"])
  BY <1>1, StirsKeeps, ThreadsOfRoles DEF Shape
<1>3. "service" \in roles => thread'["service"].frame = thread["service"].frame
  BY <1>1, ThreadsOfRoles DEF Stirs, Shape
<1>4. Doing' = Doing
  BY <1>1, <1>2 DEF Doing
<1>5. /\ lib'.link \in {"checked", "activating", "up"} => lib.link \in {"checked", "activating", "up"}
      /\ NoLink => NoLink'
  <2>0. LibOK
    BY DEF Shape, TypeInv
  <2>1. lib'.link = lib.link \/ lib'.link \in {"none", "lost"} \/ (lib.link = "activating" /\ lib'.link = "up")
    <3>1. CASE linkStatus
      BY <2>0, <3>1 DEF linkStatus, LibOK
    <3>2. CASE RemoteLeaves
      <4>1. CASE lib.passive
        BY <2>0, <3>2, <4>1, FreedFacts DEF RemoteLeaves, LibOK
      <4>2. CASE ~lib.passive
        BY <2>0, <3>2, <4>2 DEF RemoteLeaves, LibOK
      <4>3. QED
        BY <4>1, <4>2
    <3>3. CASE Discovered
      BY <2>0, <3>3 DEF Discovered, LibOK
    <3>4. CASE clientStops \/ \E s \in Servers : listenCallback(s)
      BY <3>4 DEF clientStops, listenCallback
    <3>5. CASE \/ createServiceSocket \/ createLlcpSocket \/ createConnectionlessSocket
               \/ closeSocket \/ closeConnectionless \/ \E t \in Servers : closeServiceSocket(t)
      BY <3>5, SocketSteps
    <3>6. QED
      BY <3>1, <3>2, <3>3, <3>4, <3>5
  <2>2. QED
    BY <1>1, <2>1 DEF NoLink
<1>6. Phases' /\ LinkOn'
  BY <1>1, <1>4, <1>5 DEF ClientInv, Phases, LinkOn
<1>7. ASSUME Driven PROVE Driven'
  <2>1. NatOK
    BY DEF Shape, TypeInv
  <2>2. CASE clientStops
    <3>1. nat.kill /\ ~nat'.kill /\ nat'.clients = nat.clients - 1 /\ nat.clients > 0
      BY <2>2, LinkEvents
    <3>2. nat'.clients >= 0 /\ (nat.driver => nat'.clients > 0)
      BY <1>7, <2>1, <3>1 DEF Driven, NatOK
    <3>3. QED
      BY <1>1, <1>2, <1>3, <1>4, <1>5, <1>7, <3>1, <3>2 DEF Driven
  <2>3. CASE nat'.kill = nat.kill /\ nat'.clients = nat.clients
    BY <1>1, <1>2, <1>3, <1>4, <1>5, <1>7, <2>3 DEF Driven
  <2>4. clientStops \/ (nat'.kill = nat.kill /\ nat'.clients = nat.clients)
    BY LinkEvents, SocketSteps
  <2>5. QED
    BY <2>2, <2>3, <2>4
<1>8. QED
  BY <1>1, <1>6, <1>7 DEF ClientInv

LEMMA FreshClient ==
    ASSUME Shape, Fresh,
           \/ nat = NatOff /\ lib = LibOff /\ svc = SvcOff
           \/ nat = [NatOff EXCEPT !.driver = TRUE, !.clients = 1] /\ lib = FirstOn
    PROVE  ClientInv
<1>1. /\ msgs = {} /\ hist = {} /\ \A t \in Threads : thread[t] = IdleThread
  BY DEF Fresh
<1>2. Doing = {} /\ ("service" \in roles => thread["service"].pc # "deinit")
  BY <1>1, IdleFacts, ThreadsOfRoles DEF Doing, Shape
<1>3. lib.link = "none"
  BY LibOffFacts DEF FirstOn
<1>4. CASE nat = NatOff /\ lib = LibOff /\ svc = SvcOff
  <2>1. nat.clients = 0 /\ ~nat.kill /\ ~nat.driver /\ ~svc.on
    BY <1>4 DEF NatOff, SvcOff
  <2>2. ~lib.on
    BY <1>4, LibOffFacts
  <2>3. QED
    BY <1>1, <1>2, <1>3, <2>1, <2>2 DEF ClientInv, Phases, LinkOn, Driven
<1>5. CASE nat = [NatOff EXCEPT !.driver = TRUE, !.clients = 1]
  <2>1. nat.clients = 1 /\ ~nat.kill /\ nat.driver
    BY <1>5 DEF NatOff
  <2>2. QED
    BY <1>1, <1>2, <1>3, <2>1 DEF ClientInv, Phases, LinkOn, Driven
<1>6. QED
  BY <1>4, <1>5

LEMMA NextClient ==
    ASSUME Shape, Asked, ClientInv, [Next]_vars
    PROVE  ClientInv'
<1>1. CASE UNCHANGED vars
  <2>1. UNCHANGED <<thread, msgs, nat, lib, svc, hist, roles>>
    BY <1>1 DEF vars, adapter, bounds
  <2>2. Doing' = Doing /\ (NoLink' <=> NoLink)
    BY <2>1 DEF Doing, NoLink
  <2>3. QED
    BY <2>1, <2>2 DEF ClientInv, Phases, LinkOn, Driven
<1>2. CASE ServiceCalls \/ TagCalls \/ PeerStarts \/ SocketCalls \/ TimeoutCalls
  BY <1>2, CallsClient
<1>3. CASE \/ clientStops \/ linkStatus \/ RemoteLeaves \/ Discovered \/ \E s \in Servers : listenCallback(s)
           \/ createServiceSocket \/ createLlcpSocket \/ createConnectionlessSocket
           \/ closeSocket \/ closeConnectionless \/ \E t \in Servers : closeServiceSocket(t)
  BY <1>3, EventsClient
<1>4. CASE answers
  BY <1>4, AnswersClient
<1>5. CASE Aborts
  <2>1. Shape' /\ Fresh' /\ nat' = NatOff /\ lib' = LibOff /\ svc' = SvcOff
    BY <1>5, AbortsFresh
  <2>2. /\ msgs' = {} /\ hist' = {} /\ \A t \in Threads : thread'[t] = IdleThread
    BY <2>1 DEF Fresh
  <2>3. Doing' = {} /\ ("service" \in roles' => thread'["service"].pc # "deinit")
    BY <2>1, <2>2, IdleFacts, RolesAssumption DEF Doing, Shape, ContextInv
  <2>4. nat'.clients = 0 /\ ~nat'.kill /\ ~nat'.driver /\ ~svc'.on /\ ~lib'.on /\ lib'.link = "none"
    BY <2>1, LibOffFacts DEF NatOff, SvcOff
  <2>5. QED
    BY <2>2, <2>3, <2>4 DEF ClientInv, Phases, LinkOn, Driven
<1>6. CASE \E t \in roles : Step(t)
  BY <1>6, ServiceClient, OthersClient
<1>7. QED
  BY <1>1, <1>2, <1>3, <1>4, <1>5, <1>6 DEF Next, Calls, Events

-----------------------------------------------------------------------------
(* The answers to come *)

\* The element of an open is in wired mode, and its notification is to come.
Notification ==
    /\ "service" \in roles
    /\ LET c == thread["service"]
       IN  /\ "seNotified" \in Todo(c) /\ c.frame["notified"].sem = FALSE
           /\ "seWired" \notin Todo(c) \/ (c.pc = "seWired" /\ Answered(c) /\ c.frame["call"].ok)

\* The request of a thread that sleeps is with libnfc, and the notification
\* of an element in wired mode.
Pending ==
    "gpioRefused" \notin hist =>
      /\ \A t \in roles :
           LET c == thread[t]
           IN  c.st = "waits" /\ ~Answered(c) /\ FrameOf(c.pc) # "notified" => Request(t, c.pc) \in msgs
      /\ Notification =>
           \E m \in msgs : m.what = "seNotified" /\ m.to = "service" /\ m.id = thread["service"].id

LEMMA PendingKept ==
    ASSUME Pending, msgs \subseteq msgs', hist \subseteq hist', UNCHANGED roles,
           \A u \in roles : \/ thread'[u] = thread[u] \/ thread'[u].st # "waits" \/ FrameOf(thread'[u].pc) = "notified"
                            \/ Request(u, thread[u].pc)' \in msgs' \/ "gpioRefused" \in hist',
           Notification' => Notification /\ thread'["service"].id = thread["service"].id
    PROVE  Pending'
<1> SUFFICES ASSUME "gpioRefused" \notin hist'
             PROVE  /\ \A t \in roles :
                         LET c == thread'[t]
                         IN  c.st = "waits" /\ ~Answered(c) /\ FrameOf(c.pc) # "notified" => Request(t, thread[t].pc)' \in msgs'
                    /\ Notification' =>
                         \E m \in msgs' : m.what = "seNotified" /\ m.to = "service" /\ m.id = thread'["service"].id
  BY DEF Pending
<1>1. "gpioRefused" \notin hist
  OBVIOUS
<1>2. ASSUME NEW t \in roles, thread'[t].st = "waits", ~Answered(thread'[t]), FrameOf(thread'[t].pc) # "notified"
      PROVE  Request(t, thread[t].pc)' \in msgs'
  <2>1. CASE thread'[t] = thread[t]
    <3>1. Request(t, thread[t].pc) \in msgs
      BY <1>1, <1>2, <2>1 DEF Pending
    <3>2. Request(t, thread[t].pc)' = Request(t, thread[t].pc)
      BY <2>1 DEF Request
    <3>3. QED
      BY <3>1, <3>2
  <2>2. QED
    BY <1>2, <2>1
<1>3. Notification' => \E m \in msgs' : m.what = "seNotified" /\ m.to = "service" /\ m.id = thread'["service"].id
  BY <1>1 DEF Pending
<1>4. QED
  BY <1>2, <1>3

LEMMA StepPending ==
    ASSUME Shape, Asked, Phases, Pending, NEW t \in roles, Step(t)
    PROVE  Pending'
<1> DEFINE c == thread[t]
           d == thread'[t]
<1>1. /\ UNCHANGED roles /\ StepMoves(t) /\ t \in Threads /\ c \in Contexts
      /\ \A u \in roles : u # t => thread'[u] = thread[u]
      /\ t # "service" => hist' = hist
  BY StepKeeps, StepGoes, AtWork, ThreadsOfRoles DEF StepFrame, Shape
<1>2. c.frame["call"].sem \in BOOLEAN /\ c.frame["notified"].sem \in BOOLEAN
  BY <1>1 DEF Contexts, Frames
<1>3. c.pc = "seNotified" \/ c.pc = "gpioGet" => t = "service"
  BY AtWork, RoleOf DEF Shape, Mutex, ServiceLabels, OpenLabels
<1>4. ASSUME Sleeps(t, "waits") \/ Sleeps(t, "cond"), c.st = "runs", t = "service"
      PROVE  Notification' => Notification /\ thread'["service"].id = thread["service"].id
  <2>1. d.pc = c.pc /\ Todo(d) = Todo(c) /\ d.frame = c.frame /\ d.id = c.id
    BY <1>4 DEF Sleeps, Todo
  <2>2. ~c.frame["call"].sem
    BY <1>1, <1>4 DEF Asked
  <2>3. c.pc = "seWired" => ~Answered(d)
    BY <2>1, <2>2 DEF Answered, FrameOf
  <2>4. QED
    BY <1>1, <1>4, <2>1, <2>3 DEF Notification
<1>5. CASE accepts(t)
  <2>1. /\ Sleeps(t, "waits") /\ c.st = "runs" /\ msgs' = msgs \cup {Request(t, c.pc)} /\ hist' = hist
    BY <1>5, AcceptsStep DEF accepts
  <2>2. Request(t, thread[t].pc)' = Request(t, c.pc)
    BY <2>1 DEF Request, Sleeps
  <2>3. Notification' => Notification /\ thread'["service"].id = thread["service"].id
    BY <1>1, <1>4, <2>1 DEF Notification
  <2>4. QED
    BY <1>1, <2>1, <2>2, <2>3, PendingKept
<1>6. CASE t # "service" /\ ~accepts(t)
  <2>1. msgs' = msgs /\ hist' = hist /\ (d.st # "waits")
    BY <1>1, <1>3, <1>6 DEF StepMoves, Moves, Sleeps
  <2>2. Notification' => Notification /\ thread'["service"].id = thread["service"].id
    BY <1>1, <1>6 DEF Notification
  <2>3. QED
    BY <1>1, <2>1, <2>2, PendingKept
<1>7. CASE t = "service" /\ ~accepts(t)
  <2>1. CASE /\ c.st = "runs" /\ Sleeps(t, "waits") /\ msgs' = msgs
             /\ hist \subseteq hist' /\ c.pc \in {"seNotified", "gpioGet"}
             /\ c.pc = "gpioGet" => "gpioRefused" \in hist'
    <3>1. Notification' => Notification /\ thread'["service"].id = thread["service"].id
      BY <1>4, <1>7, <2>1
    <3>2. d.pc = c.pc /\ FrameOf("seNotified") = "notified"
      BY <2>1 DEF Sleeps, FrameOf
    <3>3. QED
      BY <1>1, <2>1, <3>1, <3>2, PendingKept
  <2>2. CASE /\ msgs' = msgs /\ ServiceEffect /\ \E p : Moves(t, p) /\ ServiceLeads(p)
    <3>1. PICK p : Moves("service", p) /\ ServiceLeads(p)
      BY <1>7, <2>2
    <3>2. hist \subseteq hist' /\ d.st = "runs" /\ ~Answered(d) /\ Todo(d) = Names(p)
      BY <1>7, <2>2, <3>1 DEF ServiceEffect, Moves, Answered
    <3>3. ASSUME Notification' PROVE Notification /\ thread'["service"].id = thread["service"].id
      <4>1. "seNotified" \in Names(p) /\ "seWired" \notin Names(p) /\ d.frame["notified"].sem = FALSE
        BY <1>7, <3>2, <3>3 DEF Notification
      <4>2. p # <<>>
        BY <4>1 DEF Names
      <4>3. d.id = c.id /\ d.frame["notified"].sem = (c.frame["notified"].sem /\ ~(Answered(c) /\ "notified" = FrameOf(c.pc)))
        BY <1>7, <3>1, <4>2 DEF Moves
      <4>4. c.pc # "register"
        <5>1. c.pc = "register" => "seNotified" \in Names(c.rest)
          BY <1>7, <3>1, <4>1 DEF ServiceLeads, InitLabels, OpenLabels, CloseLabels
        <5>2. c.pc = "register" => "seNotified" \in Doing /\ Doing \subseteq RouteLabels
          BY <1>7, <5>1, DoingFacts DEF Phases, Mutex
        <5>3. QED
          BY <5>2 DEF RouteLabels
      <4>5. Names(p) = Names(c.rest) /\ (c.pc = "seWired" => Answered(c) /\ c.frame["call"].ok)
        BY <1>7, <3>1, <4>1, <4>4 DEF ServiceLeads, InitLabels, RouteLabels
      <4>6. Todo(c) = ({c.pc} \ Mutex) \cup Names(c.rest) /\ Orderly(c)
        BY AtWork DEF Shape
      <4>7. c.pc # "seNotified"
        BY <4>1, <4>5, <4>6 DEF Orderly, Fits, Rank, Mutex
      <4>8. FrameOf(c.pc) # "notified"
        BY <4>7 DEF FrameOf
      <4>9. c.frame["notified"].sem = FALSE
        BY <1>2, <4>1, <4>3, <4>8
      <4>10. "seNotified" \in Todo(c) /\ ("seWired" \notin Todo(c) \/ c.pc = "seWired")
        BY <4>1, <4>5, <4>6
      <4>11. QED
        BY <1>7, <4>3, <4>5, <4>9, <4>10 DEF Notification
    <3>4. QED
      BY <1>1, <1>7, <2>2, <3>2, <3>3, PendingKept
  <2>3. QED
    BY <1>7, <2>1, <2>2, ServiceStep
<1>8. QED
  BY <1>5, <1>6, <1>7

LEMMA AnswersPending ==
    ASSUME Shape, Asked, Pending, answers
    PROVE  Pending'
<1>1. PICK m \in msgs, good \in BOOLEAN :
        /\ Posts(m, good) /\ msgs' = (msgs \ {m}) \cup ElementNotified(m, good)
        /\ hist \subseteq hist'
  BY AnswersStep
<1>2. m.to \in roles /\ m.to \in Threads /\ FrameOf(m.what) \in Frames /\ UNCHANGED roles /\ roles \subseteq Threads
  BY MessageFacts, AnswersStep, ThreadsOfRoles DEF Shape
<1>3. ASSUME NEW u \in roles
      PROVE  /\ thread'[u].pc = thread[u].pc /\ thread'[u].st = thread[u].st /\ thread'[u].id = thread[u].id
             /\ thread'[u].tries = thread[u].tries /\ Todo(thread'[u]) = Todo(thread[u])
             /\ Answered(thread[u]) => Answered(thread'[u])
             /\ ~(u = m.to /\ Alive(m)) => thread'[u] = thread[u]
             /\ u = m.to /\ Alive(m) =>
                  \A f \in Frames : thread'[u].frame[f] =
                    IF f = FrameOf(m.what) THEN [sem |-> TRUE, ok |-> good] ELSE thread[u].frame[f]
  BY <1>1, <1>2, PostsKeeps DEF Posts
<1>4. SUFFICES ASSUME "gpioRefused" \notin hist'
               PROVE  /\ \A t \in roles :
                           LET c == thread'[t]
                           IN  c.st = "waits" /\ ~Answered(c) /\ FrameOf(c.pc) # "notified" => Request(t, thread[t].pc)' \in msgs'
                      /\ Notification' =>
                           \E n \in msgs' : n.what = "seNotified" /\ n.to = "service" /\ n.id = thread'["service"].id
  BY <1>2 DEF Pending
<1>5. "gpioRefused" \notin hist
  BY <1>1, <1>4
<1>6. ASSUME NEW t \in roles, thread'[t].st = "waits", ~Answered(thread'[t]), FrameOf(thread'[t].pc) # "notified"
      PROVE  Request(t, thread[t].pc)' \in msgs'
  <2>1. Request(t, thread[t].pc)' = Request(t, thread[t].pc)
    BY <1>3 DEF Request
  <2>2. Request(t, thread[t].pc) \in msgs
    BY <1>3, <1>5, <1>6 DEF Pending
  <2>3. Request(t, thread[t].pc) # m
    <3> SUFFICES ASSUME Request(t, thread[t].pc) = m PROVE FALSE
      OBVIOUS
    <3>1. m.to = t /\ m.what = thread[t].pc /\ m.id = thread[t].id /\ m.tries = thread[t].tries
      BY DEF Request
    <3>2. Alive(m)
      BY <3>1 DEF Alive, FrameOf
    <3>3. thread'[t].frame[FrameOf(m.what)].sem
      BY <1>2, <1>3, <3>1, <3>2
    <3>4. Answered(thread'[t])
      BY <1>3, <1>6, <3>1, <3>3 DEF Answered
    <3>5. QED
      BY <1>6, <3>4
  <2>4. QED
    BY <1>1, <2>1, <2>2, <2>3
<1>7. ASSUME Notification'
      PROVE  \E n \in msgs' : n.what = "seNotified" /\ n.to = "service" /\ n.id = thread'["service"].id
  <2> DEFINE c == thread["service"]
             d == thread'["service"]
  <2>1. /\ "service" \in roles /\ "seNotified" \in Todo(c) /\ d.frame["notified"].sem = FALSE
        /\ "seWired" \notin Todo(c) \/ (c.pc = "seWired" /\ Answered(d) /\ d.frame["call"].ok)
        /\ d.id = c.id /\ c \in Contexts
    BY <1>2, <1>3, <1>7 DEF Notification, Shape, ContextInv
  <2>2. c.frame["notified"].sem = FALSE
    BY <1>3, <2>1 DEF Frames
  <2>3. CASE Notification
    <3>1. PICK n \in msgs : n.what = "seNotified" /\ n.to = "service" /\ n.id = c.id
      BY <1>5, <2>3 DEF Pending
    <3>2. n # m
      <4> SUFFICES ASSUME n = m PROVE FALSE
        OBVIOUS
      <4>1. Alive(m) /\ FrameOf(m.what) = "notified"
        BY <3>1 DEF Alive, FrameOf
      <4>2. d.frame["notified"].sem
        BY <1>2, <1>3, <3>1, <4>1
      <4>3. QED
        BY <2>1, <4>2
    <3>3. QED
      BY <1>1, <2>1, <3>1, <3>2
  <2>4. CASE ~Notification
    <3>1. c.pc = "seWired" /\ Answered(d) /\ d.frame["call"].ok /\ ~(Answered(c) /\ c.frame["call"].ok)
      BY <2>1, <2>2, <2>4 DEF Notification
    <3>2. m.to = "service" /\ Alive(m)
      BY <1>3, <2>1, <3>1
    <3>3. FrameOf("seWired") = "call" /\ "call" \in Frames
      BY DEF FrameOf, Frames
    <3>4. FrameOf(m.what) = "call"
      BY <1>3, <2>1, <3>1, <3>2, <3>3 DEF Answered
    <3>5. m.what = "seWired" /\ good /\ m.id = c.id
      BY <1>3, <2>1, <3>1, <3>2, <3>3, <3>4 DEF Asked
    <3>6. m \in [to : roles, id : 1..calls, tries : Nat, what : Requests]
      BY DEF Shape, MsgType
    <3> DEFINE n == [m EXCEPT !.what = "seNotified"]
    <3>7. n.what = "seNotified" /\ n.to = m.to /\ n.id = m.id
      BY <3>6
    <3>8. n \in msgs'
      BY <1>1, <3>5 DEF ElementNotified
    <3>9. QED
      BY <2>1, <3>2, <3>5, <3>7, <3>8
  <2>5. QED
    BY <2>3, <2>4
<1>8. QED
  BY <1>6, <1>7

LEMMA NextPending ==
    ASSUME Shape, Asked, Phases, Pending, [Next]_vars
    PROVE  Pending'
<1>0. roles \subseteq Threads
  BY ThreadsOfRoles DEF Shape
<1>1. ASSUME UNCHANGED <<thread, msgs, hist, roles>> PROVE Pending'
  <2>1. Notification' => Notification /\ thread'["service"].id = thread["service"].id
    BY <1>1 DEF Notification
  <2>2. QED
    BY <1>1, <2>1, PendingKept
<1>2. CASE UNCHANGED vars
  BY <1>1, <1>2 DEF vars, adapter, bounds
<1>3. CASE TagCalls \/ PeerStarts \/ SocketCalls \/ TimeoutCalls
  <2>1. PICK t \in roles : \E p : Starts(t, p) /\ t # "service"
    BY <1>3, OtherCallsStep
  <2>2. /\ UNCHANGED <<roles, msgs, hist>> /\ \A u \in roles : u # t => thread'[u] = thread[u]
        /\ thread'[t].st = "runs"
    BY <1>0, <1>3, <2>1, OtherCallsStep DEF Starts, adapter
  <2>3. Notification' => Notification /\ thread'["service"].id = thread["service"].id
    BY <2>1, <2>2 DEF Notification
  <2>4. QED
    BY <2>2, <2>3, PendingKept
<1>4. CASE ServiceCalls
  <2>1. PICK p :
          /\ Starts("service", p)
          /\ "seNotified" \in Names(p) => "seWired" \in Names(p)
    <3>1. {"seNotified", "seWired"} \subseteq OpenNames
      BY DEF OpenNames
    <3>2. QED
      BY <1>4, <3>1, ServiceCallsStep
  <2>2. /\ UNCHANGED <<roles, msgs, hist>> /\ \A u \in roles : u # "service" => thread'[u] = thread[u]
        /\ thread'["service"].st = "runs" /\ Todo(thread'["service"]) = Names(p)
    BY <1>0, <1>4, <2>1, ServiceCallsStep DEF Starts
  <2>3. ~Notification'
    BY <2>1, <2>2 DEF Notification, Answered
  <2>4. QED
    BY <2>2, <2>3, PendingKept
<1>5. CASE \/ clientStops \/ linkStatus \/ RemoteLeaves \/ Discovered \/ \E s \in Servers : listenCallback(s)
           \/ createServiceSocket \/ createLlcpSocket \/ createConnectionlessSocket
           \/ closeSocket \/ closeConnectionless \/ \E t \in Servers : closeServiceSocket(t)
  <2>1. UNCHANGED <<msgs, hist, roles>> /\ (UNCHANGED thread \/ Stirs)
    BY <1>5, LinkEvents, SocketSteps
  <2>2. CASE UNCHANGED thread
    BY <1>1, <2>1, <2>2
  <2>3. CASE Stirs
    <3>1. \A u \in roles : thread'[u] = thread[u] \/ thread'[u].st # "waits"
      BY <1>0, <2>3 DEF Stirs
    <3>2. ASSUME "service" \in roles PROVE thread'["service"] = thread["service"]
      <4>1. thread["service"].st # "cond"
        <5>1. thread["service"].st = "cond" => thread["service"].pc = "accept"
          BY <1>0, <3>2 DEF Shape, ContextInv, ThreadOK
        <5>2. thread["service"].pc # "accept"
          BY <3>2, AtWork, RoleOf DEF Shape, Mutex, OtherLabels
        <5>3. QED
          BY <5>1, <5>2
      <4>2. QED
        BY <1>0, <2>3, <3>2, <4>1 DEF Stirs
    <3>3. Notification' => Notification /\ thread'["service"].id = thread["service"].id
      BY <2>1, <3>2 DEF Notification
    <3>4. QED
      BY <2>1, <3>1, <3>3, PendingKept
  <2>4. QED
    BY <2>1, <2>2, <2>3
<1>6. CASE answers
  BY <1>6, AnswersPending
<1>7. CASE Aborts
  <2>1. UNCHANGED roles /\ \A u \in roles : thread'[u] = IdleThread
    BY <1>0, <1>7, AbortsFresh DEF Fresh
  <2>2. ~Notification'
    BY <2>1, IdleFacts DEF Notification
  <2>3. QED
    BY <2>1, <2>2, IdleFacts DEF Pending
<1>8. CASE \E t \in roles : Step(t)
  BY <1>8, StepPending
<1>9. QED
  BY <1>2, <1>3, <1>4, <1>5, <1>6, <1>7, <1>8 DEF Next, Calls, Events

\* A call that sleeps on its semaphore without a limit of time is woken:
\* the answer to the frame it sleeps on is still to come, and a client
\* thread is there to run the callback, unless an initialisation failed or
\* libnfc refused a GPIO read.
THEOREM AnswerCorrect == Spec => []AnswerComes
<1> DEFINE Inv == Shape /\ Asked /\ ClientInv /\ Pending
<1>1. Init => Inv
  <2> SUFFICES ASSUME Init PROVE Inv
    OBVIOUS
  <2>1. Shape /\ Fresh /\ msgs = {} /\ \A t \in Threads : thread[t] = IdleThread
    BY InitFresh DEF Fresh
  <2>2. Asked
    BY <2>1 DEF Asked, IdleThread, NewFrame, Frames
  <2>3. ClientInv
    BY <2>1, InitFresh, FreshClient
  <2>4. \A t \in roles : thread[t] = IdleThread
    BY <2>1, ThreadsOfRoles DEF Shape
  <2>5. Pending
    BY <2>4, IdleFacts DEF Pending, Notification
  <2>6. QED
    BY <2>1, <2>2, <2>3, <2>5
<1>2. Inv /\ [Next]_vars => Inv'
  <2> SUFFICES ASSUME Shape, Asked, ClientInv, Pending, [Next]_vars PROVE Shape' /\ Asked' /\ ClientInv' /\ Pending'
    OBVIOUS
  <2>1. Phases
    BY DEF ClientInv
  <2>2. QED
    BY <2>1, NextShape, NextAsked, NextClient, NextPending
<1>3. Inv => AnswerComes
  <2> SUFFICES ASSUME Shape, Asked, ClientInv, Pending, hist \cap {"initFailed", "gpioRefused"} = {},
                      NEW t \in roles, thread[t].st = "waits", ~Woken(t), thread[t].pc \notin {"deinit", "fwDeinit"}
               PROVE  /\ nat.clients > (IF nat.kill THEN 1 ELSE 0)
                      /\ \E m \in msgs : m.to = t /\ Alive(m) /\ FrameOf(m.what) = FrameOf(thread[t].pc)
    BY DEF AnswerComes
  <2> DEFINE c == thread[t]
  <2>1. ~Answered(c) /\ t \in Threads /\ c \in Contexts
    BY AtWork DEF Answered, Woken, Shape
  <2>2. \E m \in msgs : m.to = t /\ Alive(m) /\ FrameOf(m.what) = FrameOf(c.pc)
    <3>1. CASE FrameOf(c.pc) # "notified"
      <4> DEFINE m == Request(t, c.pc)
      <4>1. m \in msgs
        BY <2>1, <3>1 DEF Pending
      <4>2. m.to = t /\ m.what = c.pc /\ m.id = c.id /\ m.tries = c.tries
        BY DEF Request
      <4>3. Alive(m)
        BY <4>2 DEF Alive, FrameOf
      <4>4. QED
        BY <4>1, <4>2, <4>3
    <3>2. CASE FrameOf(c.pc) = "notified"
      <4>1. c.pc = "seNotified"
        BY <3>2 DEF FrameOf
      <4>2. t = "service"
        BY <4>1, AtWork, RoleOf DEF Shape, Mutex, ServiceLabels, OpenLabels
      <4>3. "seNotified" \in Todo(c) /\ "seWired" \notin Todo(c)
        <5>1. Todo(c) = ({c.pc} \ Mutex) \cup Names(c.rest) /\ Orderly(c)
          BY AtWork DEF Shape
        <5>2. "seWired" \notin Names(c.rest)
          BY <4>1, <5>1 DEF Orderly, Fits, Rank, Mutex
        <5>3. QED
          BY <4>1, <5>1, <5>2 DEF Mutex
      <4>4. c.frame["notified"].sem = FALSE
        <5>1. c.frame["notified"].sem \in BOOLEAN
          BY <2>1 DEF Contexts, Frames
        <5>2. QED
          BY <2>1, <3>2, <5>1 DEF Answered
      <4>5. Notification
        BY <4>2, <4>3, <4>4 DEF Notification
      <4>6. PICK m \in msgs : m.what = "seNotified" /\ m.to = "service" /\ m.id = c.id
        BY <4>2, <4>5 DEF Pending
      <4>7. Alive(m) /\ FrameOf(m.what) = "notified"
        BY <4>2, <4>6 DEF Alive, FrameOf
      <4>8. QED
        BY <3>2, <4>2, <4>6, <4>7
    <3>3. QED
      BY <3>1, <3>2
  <2>3. nat.clients > (IF nat.kill THEN 1 ELSE 0)
    BY <2>2 DEF ClientInv, Driven
  <2>4. QED
    BY <2>2, <2>3
<1>4. QED
  BY <1>1, <1>2, <1>3, PTL DEF Spec
-----------------------------------------------------------------------------
(* The polling loop and the element *)

\* What the service has in hand, and what it holds the loop and the element to be.
Switch ==
    /\ "start" \in Doing => svc.polling
    /\ "stop" \in Doing => ~svc.polling /\ Doing \subseteq RouteLabels \cup OpenLabels
    /\ Doing \cap OpenLabels # {} => ~svc.polling
    /\ Doing \cap (RouteLabels \cup OpenLabels \cup CloseLabels \cup {"deinit"}) # {} => svc.on
    /\ Doing \cap (InitLabels \cup BootLabels) # {} => ~svc.on
    /\ svc.ee => ~svc.polling /\ svc.on /\ Doing \subseteq CloseLabels

\* A stop of the discovery is still to be answered.
StopLeft == "stop" \in Doing /\ ~(thread["service"].pc = "stop" /\ Answered(thread["service"]))
\* A start, likewise.
StartLeft == "start" \in Doing /\ ~(thread["service"].pc = "start" /\ Answered(thread["service"]))

\* Without a polling loop, and with no stop left, the controller does not poll.
Quiet == "startFailed" \notin hist /\ ~svc.polling /\ ~StopLeft => ~lib.cfg /\ lib.target = None

\* What follows a label in a plan of the service.
LEMMA RestFacts ==
    ASSUME Shape, "service" \in roles
    PROVE  LET c == thread["service"]
               R == Names(c.rest)
           IN  /\ c.pc \in {"seFailed", "seOpened", "seClosed", "enabled"} => R = {}
               /\ c.pc \in {"start", "stop"} => {"start", "stop"} \cap R = {}
               /\ c.pc \in OpenLabels \cup (CloseLabels \ {"seAsk"}) => {"start", "stop"} \cap R = {}
               /\ c.pc = "start" => {"register", "deinit"} \cap R = {}
<1> DEFINE c == thread["service"]
           R == Names(c.rest)
<1>1. \A b \in R : Fits(c.pc, b)
  BY AtWork DEF Shape, Orderly
<1>2. \A b \in R : b \notin Mutex
  BY DEF Names
<1>3. ASSUME c.pc \in {"seFailed", "seOpened", "seClosed", "enabled"} PROVE R = {}
  <2>1. ASSUME NEW b \in R PROVE FALSE
    <3>1. c.pc \notin Mutex /\ Rank(c.pc) = 11 /\ c.pc \notin {"register", "seMode"}
      BY <1>3 DEF Mutex, Rank
    <3>2. Rank(b) \in Nat /\ Rank(b) <= 11
      BY DEF Rank
    <3>3. Rank(c.pc) < Rank(b)
      BY <1>1, <1>2, <3>1 DEF Fits
    <3>4. QED
      BY <3>1, <3>2, <3>3
  <2>2. QED
    BY <2>1
<1>4. ASSUME c.pc \in {"start", "stop"} \cup OpenLabels \cup (CloseLabels \ {"seAsk"})
      PROVE  {"start", "stop"} \cap R = {}
  <2>1. ASSUME NEW b \in R, b \in {"start", "stop"} PROVE FALSE
    <3>1. c.pc \notin Mutex /\ Rank(c.pc) >= 2 /\ c.pc \notin {"register", "seMode"}
      BY <1>4 DEF Mutex, Rank, OpenLabels, CloseLabels
    <3>2. Rank(b) = 2 /\ Rank(c.pc) \in Nat
      BY <2>1 DEF Rank
    <3>3. Rank(c.pc) < Rank(b)
      BY <1>1, <1>2, <3>1 DEF Fits
    <3>4. QED
      BY <3>1, <3>2, <3>3
  <2>2. QED
    BY <2>1
<1>5. ASSUME c.pc = "start" PROVE {"register", "deinit"} \cap R = {}
  <2>1. ASSUME NEW b \in R, b \in {"register", "deinit"} PROVE FALSE
    <3>1. c.pc \notin Mutex /\ Rank(c.pc) = 2 /\ c.pc \notin {"register", "seMode"}
      BY <1>5 DEF Mutex, Rank
    <3>2. Rank(b) = 1
      BY <2>1 DEF Rank
    <3>3. Rank(c.pc) < Rank(b)
      BY <1>1, <1>2, <3>1 DEF Fits
    <3>4. QED
      BY <3>1, <3>2, <3>3
  <2>2. QED
    BY <2>1
<1>6. QED
  BY <1>3, <1>4, <1>5

LEMMA ServiceSwitch ==
    ASSUME Shape, Phases, Switch, "service" \in roles, UNCHANGED roles,
           NEW p, Moves("service", p), ServiceGoes(p), ServiceEffect
    PROVE  Switch' /\ Doing' = Names(p)
<1> DEFINE c == thread["service"]
           l == c.pc
           R == Names(c.rest)
           D == Names(p)
<1>1. Doing' = D
  BY DEF Moves, Doing
<1>2. Doing = ({l} \ Mutex) \cup R /\ R \subseteq Doing /\ (l \notin Mutex => l \in Doing)
  BY DoingFacts
<1>3. svc.on \in BOOLEAN /\ svc.polling \in BOOLEAN /\ svc.ee \in BOOLEAN
  BY DEF Shape, TypeInv, SvcOK
<1>4. /\ l \notin {"enabled", "deinit"} => svc'.on = svc.on
      /\ l \notin {"seClosed", "enabled"} => svc'.polling = (svc.polling \/ (l = "seFailed" /\ svc.restore))
      /\ svc'.ee = ((svc.ee \/ l = "seOpened") /\ l # "seClosed")
      /\ l = "enabled" => svc'.on
      /\ l = "deinit" => ~svc'.on
  BY DEF ServiceEffect, SwitchEffect
<1>5. /\ "start" \in Doing => svc.polling
      /\ "stop" \in Doing => ~svc.polling /\ Doing \subseteq RouteLabels \cup OpenLabels
      /\ Doing \cap OpenLabels # {} => ~svc.polling
      /\ Doing \cap (RouteLabels \cup OpenLabels \cup CloseLabels \cup {"deinit"}) # {} => svc.on
      /\ Doing \cap (InitLabels \cup BootLabels) # {} => ~svc.on
      /\ svc.ee => ~svc.polling /\ svc.on /\ Doing \subseteq CloseLabels
  BY DEF Switch
<1>6. l \in {"seFailed", "seOpened", "seClosed", "enabled"} => R = {}
  BY RestFacts
<1>7. l \in {"seFailed", "seOpened", "seClosed", "enabled", "deinit"} => l \in Doing
  BY <1>2 DEF Mutex
<1>8. svc.ee => l \notin {"seFailed", "seOpened", "enabled", "deinit"}
  BY <1>5, <1>7 DEF CloseLabels
<1>9. l = "deinit" => R = {}
  <2>1. l = "deinit" => Doing = {"deinit"} /\ "deinit" \notin R
    BY <1>7, DoingFacts DEF Phases
  <2>2. QED
    BY <1>2, <2>1
<1> HIDE DEF R, D
<1>10. CASE D = R \/ (l = "register" /\ D \subseteq R)
  <2>1. CASE l \notin {"seFailed", "seOpened", "seClosed", "enabled", "deinit"}
    <3>1. D \subseteq Doing /\ svc'.on = svc.on /\ svc'.polling = svc.polling /\ svc'.ee = svc.ee
      BY <1>2, <1>3, <1>4, <1>10, <2>1
    <3>2. QED
      BY <1>1, <1>5, <3>1 DEF Switch, D
  <2>2. CASE l \in {"seFailed", "seOpened", "seClosed", "enabled", "deinit"}
    <3>1. D = {}
      BY <1>6, <1>9, <1>10, <2>2
    <3>2. svc'.ee => l = "seOpened"
      BY <1>4, <1>8, <2>2
    <3>3. l = "seOpened" => ~svc'.polling /\ svc'.on
      BY <1>3, <1>4, <1>5, <1>7 DEF OpenLabels
    <3>4. QED
      BY <1>1, <3>1, <3>2, <3>3 DEF Switch, D
  <2>3. QED
    BY <2>1, <2>2
<1>11. CASE l \in InitLabels \ {"configure", "enabled"} /\ D \subseteq InitLabels
  <2>1. l \in Doing /\ l \notin {"seFailed", "seOpened", "seClosed", "enabled", "deinit"} /\ l \notin CloseLabels
    BY <1>2, <1>11 DEF InitLabels, Mutex, CloseLabels
  <2>2. ~svc'.on /\ ~svc'.ee
    BY <1>4, <1>5, <1>11, <2>1
  <2>3. D \cap (RouteLabels \cup OpenLabels \cup CloseLabels \cup {"deinit"}) = {} /\ "start" \notin D /\ "stop" \notin D
    BY <1>11 DEF InitLabels, RouteLabels, OpenLabels, CloseLabels
  <2>4. QED
    BY <1>1, <2>2, <2>3 DEF Switch, D
<1>12. CASE l = "seFailed" /\ D = (IF svc.restore THEN {"register", "start"} ELSE {})
  <2>1. ~svc'.ee /\ svc'.on /\ (svc.restore => svc'.polling)
    BY <1>4, <1>5, <1>7, <1>8, <1>12 DEF OpenLabels
  <2>2. D \cap OpenLabels = {} /\ D \cap (InitLabels \cup BootLabels) = {} /\ "stop" \notin D /\ ("start" \in D => svc.restore)
    BY <1>12 DEF OpenLabels, InitLabels, BootLabels
  <2>3. QED
    BY <1>1, <2>1, <2>2 DEF Switch, D
<1>13. CASE l \in {"seClosed", "enabled"} /\ D = {"register", "seMode", IF svc'.polling THEN "start" ELSE "stop"}
  <2>1. ~svc'.ee /\ svc'.on
    BY <1>4, <1>5, <1>7, <1>8, <1>13 DEF CloseLabels
  <2>2. /\ D \cap OpenLabels = {} /\ D \cap (InitLabels \cup BootLabels) = {} /\ D \subseteq RouteLabels
        /\ ("start" \in D => svc'.polling) /\ ("stop" \in D => ~svc'.polling)
    BY <1>13 DEF OpenLabels, InitLabels, BootLabels, RouteLabels
  <2>3. QED
    BY <1>1, <2>1, <2>2 DEF Switch, D
<1>14. CASE l \in OpenAsks \cup {"seCheck", "seRegister"} /\ D = {"seFailed"}
  <2>1. l \in Doing /\ l \in OpenLabels /\ l \notin {"seFailed", "seOpened", "seClosed", "enabled", "deinit"} /\ l \notin CloseLabels
    BY <1>2, <1>14 DEF OpenAsks, OpenLabels, CloseLabels, Mutex
  <2>2. ~svc'.polling /\ svc'.on /\ ~svc'.ee
    BY <1>3, <1>4, <1>5, <2>1
  <2>3. D \cap (InitLabels \cup BootLabels) = {} /\ "start" \notin D /\ "stop" \notin D
    BY <1>14 DEF InitLabels, BootLabels
  <2>4. QED
    BY <1>1, <2>2, <2>3 DEF Switch, D
<1>15. CASE l \in CloseAsks /\ D = {"seClosed"}
  <2>1. l \in Doing /\ l \in CloseLabels /\ l \notin {"seFailed", "seOpened", "seClosed", "enabled", "deinit"}
    BY <1>2, <1>15 DEF CloseAsks, CloseLabels, Mutex
  <2>2. svc'.on /\ svc'.polling = svc.polling /\ svc'.ee = svc.ee
    BY <1>3, <1>4, <1>5, <2>1
  <2>3. D \cap (InitLabels \cup BootLabels) = {} /\ D \cap OpenLabels = {} /\ "start" \notin D /\ "stop" \notin D /\ D \subseteq CloseLabels
    BY <1>15 DEF InitLabels, BootLabels, OpenLabels, CloseLabels
  <2>4. QED
    BY <1>1, <1>5, <2>2, <2>3 DEF Switch, D
<1>16. {"fwFailed", "initFails", "fwDeinit"} \cup Again \subseteq InitLabels
  BY DEF Again, InitLabels
<1>17. \/ D = R
       \/ l = "register" /\ D \subseteq R
       \/ l \in InitLabels \ {"configure", "enabled"} /\ D \in {{}, {"fwFailed"}, {"initFails"}, Again, {"fwDeinit"} \cup Again}
       \/ l = "seFailed" /\ D = (IF svc.restore THEN {"register", "start"} ELSE {})
       \/ l \in {"seClosed", "enabled"} /\ D = {"register", "seMode", IF svc'.polling THEN "start" ELSE "stop"}
       \/ l \in OpenAsks \cup {"seCheck", "seRegister"} /\ D = {"seFailed"}
       \/ l \in CloseAsks /\ D = {"seClosed"}
  BY DEF ServiceGoes, D, R
<1>18. D \in {{}, {"fwFailed"}, {"initFails"}, Again, {"fwDeinit"} \cup Again} => D \subseteq InitLabels
  BY <1>16
<1>19. QED
  BY <1>1, <1>10, <1>11, <1>12, <1>13, <1>14, <1>15, <1>17, <1>18 DEF D
\* What begins.
LEMMA CallsSwitch ==
    ASSUME Shape, Switch, ServiceCalls
    PROVE  Switch' /\ (svc'.polling \/ StopLeft' \/ ~svc.polling) /\ ~StopLeft
<1>1. SvcOK
  BY DEF Shape, TypeInv
<1>2. PICK p :
        /\ Starts("service", p)
        /\ \/ ~svc.on /\ UNCHANGED svc /\ Names(p) = {"configure", "init", "eeprom", "seOff", "llcpConfig", "seListen", "enabled"}
           \/ ~svc.on /\ ~nat.driver /\ UNCHANGED svc /\ Names(p) = {"configure", "bootLoad", "unconfigure"}
           \/ svc.on /\ ~svc.ee /\ Names(p) = {"deinit"} /\ UNCHANGED svc
           \/ /\ svc.on /\ ~svc.ee
              /\ \E polling \in BOOLEAN :
                   /\ svc' = [svc EXCEPT !.polling = polling]
                   /\ Names(p) = {"register", "seMode", IF polling THEN "start" ELSE "stop"}
           \/ svc.on /\ ~svc.ee /\ svc.polling /\ Names(p) = {"start"} /\ UNCHANGED svc
           \/ /\ svc.on /\ ~svc.ee
              /\ svc' = [svc EXCEPT !.polling = FALSE, !.restore = svc.polling]
              /\ Names(p) = OpenNames \cup (IF svc.polling THEN {"stop"} ELSE {})
           \/ svc.ee /\ UNCHANGED svc /\ Names(p) = {"seDisconnect", "gpioBack", "gpioClear", "seClosed"}
           \/ svc.ee /\ UNCHANGED svc /\ Names(p) = {"seAsk"}
  BY ServiceCallsStep
<1>3. /\ UNCHANGED roles /\ "service" \in roles /\ Doing = {} /\ Doing' = Names(p) /\ ~Answered(thread'["service"])
  BY <1>2, ServiceCallsStep, IdleFacts DEF Starts, Doing, Answered
<1>4. ~StopLeft /\ (StopLeft' <=> "stop" \in Names(p))
  BY <1>3 DEF StopLeft
<1>5. svc.ee => ~svc.polling /\ svc.on
  BY DEF Switch
<1>6. CASE UNCHANGED svc /\ ~svc.on /\ Names(p) \subseteq InitLabels \cup BootLabels
  <2>1. Names(p) \cap (RouteLabels \cup OpenLabels \cup CloseLabels \cup {"deinit"}) = {} /\ {"start", "stop"} \cap Names(p) = {}
    BY <1>6 DEF InitLabels, BootLabels, RouteLabels, OpenLabels, CloseLabels
  <2>2. QED
    BY <1>3, <1>4, <1>5, <1>6, <2>1 DEF Switch
<1>7. CASE svc.on /\ ~svc.ee /\ UNCHANGED svc /\ (Names(p) = {"deinit"} \/ (Names(p) = {"start"} /\ svc.polling))
  <2>1. Names(p) \cap (InitLabels \cup BootLabels \cup OpenLabels) = {} /\ "stop" \notin Names(p)
    BY <1>7 DEF InitLabels, BootLabels, OpenLabels
  <2>2. QED
    BY <1>3, <1>4, <1>7, <2>1 DEF Switch
<1>8. CASE /\ svc.on /\ ~svc.ee
           /\ \E polling \in BOOLEAN :
                /\ svc' = [svc EXCEPT !.polling = polling]
                /\ Names(p) = {"register", "seMode", IF polling THEN "start" ELSE "stop"}
  <2>1. PICK polling \in BOOLEAN :
          /\ svc' = [svc EXCEPT !.polling = polling]
          /\ Names(p) = {"register", "seMode", IF polling THEN "start" ELSE "stop"}
    BY <1>8
  <2>2. svc'.polling = polling /\ svc'.on /\ ~svc'.ee
    BY <1>1, <1>8, <2>1 DEF SvcOK
  <2>3. Names(p) \cap (InitLabels \cup BootLabels \cup OpenLabels) = {} /\ Names(p) \subseteq RouteLabels
    BY <2>1 DEF InitLabels, BootLabels, OpenLabels, RouteLabels
  <2>4. ("start" \in Names(p) => polling) /\ ("stop" \in Names(p) <=> ~polling)
    BY <2>1
  <2>5. QED
    BY <1>3, <1>4, <2>2, <2>3, <2>4 DEF Switch
<1>9. CASE /\ svc.on /\ ~svc.ee
           /\ svc' = [svc EXCEPT !.polling = FALSE, !.restore = svc.polling]
           /\ Names(p) = OpenNames \cup (IF svc.polling THEN {"stop"} ELSE {})
  <2>1. ~svc'.polling /\ svc'.on /\ ~svc'.ee
    BY <1>1, <1>9 DEF SvcOK
  <2>2. /\ OpenNames \subseteq OpenLabels /\ (OpenLabels \cup {"stop"}) \cap (InitLabels \cup BootLabels) = {}
        /\ "start" \notin OpenLabels /\ "stop" \in RouteLabels
    BY DEF OpenNames, InitLabels, BootLabels, OpenLabels, RouteLabels
  <2>3. /\ Names(p) \subseteq RouteLabels \cup OpenLabels /\ Names(p) \cap (InitLabels \cup BootLabels) = {}
        /\ "start" \notin Names(p) /\ (svc.polling => "stop" \in Names(p))
    BY <1>9, <2>2
  <2>4. QED
    BY <1>3, <1>4, <2>1, <2>3 DEF Switch
<1>10. CASE svc.ee /\ UNCHANGED svc /\ Names(p) \subseteq CloseLabels
  <2>1. CloseLabels \cap (InitLabels \cup BootLabels \cup OpenLabels \cup {"start", "stop"}) = {}
    BY DEF InitLabels, BootLabels, OpenLabels, CloseLabels
  <2>2. Names(p) \cap (InitLabels \cup BootLabels \cup OpenLabels \cup {"start", "stop"}) = {}
    BY <1>10, <2>1
  <2>3. QED
    BY <1>3, <1>4, <1>5, <1>10, <2>2 DEF Switch
<1>11. /\ {"configure", "init", "eeprom", "seOff", "llcpConfig", "seListen", "enabled"} \subseteq InitLabels
       /\ {"configure", "bootLoad", "unconfigure"} \subseteq BootLabels
       /\ {"seDisconnect", "gpioBack", "gpioClear", "seClosed", "seAsk"} \subseteq CloseLabels
  BY DEF InitLabels, BootLabels, CloseLabels
<1>12. QED
  BY <1>2, <1>6, <1>7, <1>8, <1>9, <1>10, <1>11

\* What the service and the answers do not do leaves the service as it was.
LEMMA ServiceKept ==
    ASSUME Shape, [Next]_vars, ~ServiceCalls, ~answers, ~Aborts, ~("service" \in roles /\ Step("service"))
    PROVE  /\ UNCHANGED <<svc, hist, roles>> /\ Doing' = Doing
           /\ (StopLeft' <=> StopLeft) /\ (StartLeft' <=> StartLeft)
           /\ "service" \in roles =>
                /\ thread'["service"].pc = thread["service"].pc
                /\ thread'["service"].st = "waits" => thread["service"].st = "waits"
           /\ \A m \in msgs' : m \in msgs \/ m.what \notin {"init", "fwInit", "fwDeinit"}
           /\ lib'.on = lib.on /\ lib'.cfg = lib.cfg /\ lib'.listener = lib.listener
           /\ lib'.target = lib.target \/ lib'.target = None \/ lib.cfg
<1>0. "service" \in roles => "service" \in Threads
  BY ThreadsOfRoles DEF Shape
<1>1. ASSUME UNCHANGED roles, "service" \in roles =>
                 /\ Todo(thread'["service"]) = Todo(thread["service"]) /\ thread'["service"].pc = thread["service"].pc
                 /\ Answered(thread'["service"]) <=> Answered(thread["service"])
      PROVE  Doing' = Doing /\ (StopLeft' <=> StopLeft) /\ (StartLeft' <=> StartLeft)
  BY <1>1 DEF Doing, StopLeft, StartLeft
<1>2. CASE UNCHANGED vars
  <2>1. UNCHANGED <<thread, msgs, lib, svc, hist, roles>>
    BY <1>2 DEF vars, adapter, bounds
  <2>2. QED
    BY <1>1, <2>1
<1>3. CASE TagCalls \/ PeerStarts \/ SocketCalls \/ TimeoutCalls
  <2>1. PICK t \in roles : \E p : Starts(t, p) /\ t # "service"
    BY <1>3, OtherCallsStep
  <2>2. UNCHANGED <<roles, msgs, lib, svc, hist>> /\ ("service" \in roles => thread'["service"] = thread["service"])
    BY <1>0, <1>3, <2>1, OtherCallsStep DEF Starts, adapter
  <2>3. QED
    BY <1>1, <2>2
<1>4. CASE \/ clientStops \/ linkStatus \/ RemoteLeaves \/ Discovered \/ \E s \in Servers : listenCallback(s)
  <2>1. /\ UNCHANGED <<msgs, svc, hist, roles>> /\ (UNCHANGED thread \/ Stirs)
        /\ lib'.on = lib.on /\ lib'.cfg = lib.cfg /\ lib'.listener = lib.listener
    BY <1>4, LinkEvents
  <2>2. lib'.target = lib.target \/ lib'.target = None \/ lib.cfg
    <3>0. LibOK
      BY DEF Shape, TypeInv
    <3>1. CASE linkStatus
      BY <3>0, <3>1 DEF linkStatus, LibOK
    <3>2. CASE RemoteLeaves
      <4>1. CASE lib.passive
        BY <3>0, <3>2, <4>1, FreedFacts DEF RemoteLeaves
      <4>2. CASE ~lib.passive
        BY <3>0, <3>2, <4>2 DEF RemoteLeaves, LibOK
      <4>3. QED
        BY <4>1, <4>2
    <3>3. CASE Discovered
      BY <3>3 DEF Discovered
    <3>4. CASE clientStops \/ \E s \in Servers : listenCallback(s)
      BY <3>4 DEF clientStops, listenCallback
    <3>5. QED
      BY <1>4, <3>1, <3>2, <3>3, <3>4
  <2>3. QED
    BY <1>0, <1>1, <2>1, <2>2, StirsKeeps DEF Stirs
<1>5. CASE \/ createServiceSocket \/ createLlcpSocket \/ createConnectionlessSocket
           \/ closeSocket \/ closeConnectionless \/ \E t \in Servers : closeServiceSocket(t)
  <2>1. UNCHANGED <<msgs, svc, hist, lib, roles>> /\ (UNCHANGED thread \/ Stirs)
    BY <1>5, SocketSteps
  <2>2. QED
    BY <1>0, <1>1, <2>1, StirsKeeps DEF Stirs
<1>6. CASE \E t \in roles : Step(t)
  <2>1. PICK t \in roles : Step(t)
    BY <1>6
  <2>2. t # "service" /\ StepFrame(t)
    BY <2>1, StepKeeps
  <2>3. /\ UNCHANGED <<svc, hist, roles>> /\ ("service" \in roles => thread'["service"] = thread["service"])
        /\ lib'.on = lib.on /\ lib'.cfg = lib.cfg /\ lib'.listener = lib.listener /\ lib'.target = lib.target
    BY <1>0, <2>2 DEF StepFrame
  <2>4. ASSUME NEW m \in msgs', m \notin msgs PROVE m.what \notin {"init", "fwInit", "fwDeinit"}
    <3>1. m = Request(t, thread[t].pc) /\ thread[t].pc \in RoleLabels(t)
      BY <2>1, <2>2, <2>4, AcceptsStep DEF StepFrame
    <3>2. thread[t].pc \notin ServiceLabels
      BY <2>2, <3>1, RoleOf
    <3>3. QED
      BY <3>1, <3>2 DEF Request, ServiceLabels, InitLabels
  <2>5. QED
    BY <1>1, <2>3, <2>4
<1>7. QED
  BY <1>2, <1>3, <1>4, <1>5, <1>6 DEF Next, Calls, Events

\* The steps of the service, as it sleeps or goes on.
LEMMA ServiceDoes ==
    ASSUME Shape, Asked, "service" \in roles, Step("service")
    PROVE  /\ UNCHANGED roles
           /\ \/ /\ UNCHANGED <<lib, svc>> /\ hist \subseteq hist' /\ Doing' = Doing
                 /\ (StopLeft' <=> StopLeft) /\ (StartLeft' <=> StartLeft)
                 /\ thread["service"].st = "runs" /\ thread'["service"].pc = thread["service"].pc
                 /\ accepts("service") \/ msgs' = msgs
              \/ /\ msgs' = msgs /\ ServiceEffect /\ \E p : Moves("service", p) /\ ServiceGoes(p)
                 /\ \/ thread["service"].st = "runs" \/ thread["service"].pc = "fwDeinit" \/ Answered(thread["service"])
<1> DEFINE c == thread["service"]
           d == thread'["service"]
<1>1. UNCHANGED roles /\ "service" \in Threads /\ c \in Contexts
  BY StepKeeps, AtWork DEF StepFrame, Shape
<1>2. CASE accepts("service")
  <2>1. Sleeps("service", "waits") /\ c.st = "runs" /\ UNCHANGED <<lib, svc, hist>>
    BY <1>2, AcceptsStep DEF accepts
  <2>2. d.pc = c.pc /\ d.frame = c.frame /\ Doing' = Doing
    BY <1>1, <2>1 DEF Sleeps, Doing, Todo
  <2>3. c.frame["call"].sem = FALSE
    <3>1. c.frame["call"].sem \in BOOLEAN
      BY <1>1 DEF Contexts, Frames
    <3>2. QED
      BY <1>1, <2>1, <3>1 DEF Asked
  <2>4. (StopLeft' <=> StopLeft) /\ (StartLeft' <=> StartLeft)
    <3>1. c.pc \in {"start", "stop"} => ~Answered(c) /\ ~Answered(d)
      BY <2>1, <2>2, <2>3 DEF Answered, FrameOf
    <3>2. QED
      BY <2>2, <3>1 DEF StopLeft, StartLeft
  <2>5. QED
    BY <1>1, <1>2, <2>1, <2>2, <2>4
<1>3. CASE /\ c.st = "runs" /\ Sleeps("service", "waits") /\ UNCHANGED <<msgs, nat, lib, svc>>
           /\ hist \subseteq hist' /\ c.pc \in {"seNotified", "gpioGet"}
  <2>1. d.pc = c.pc /\ Doing' = Doing
    BY <1>1, <1>3 DEF Sleeps, Doing, Todo
  <2>2. (StopLeft' <=> StopLeft) /\ (StartLeft' <=> StartLeft)
    BY <1>3, <2>1 DEF StopLeft, StartLeft
  <2>3. QED
    BY <1>1, <1>3, <2>1, <2>2
<1>4. QED
  BY <1>1, <1>2, <1>3, ServiceStep

LEMMA NextSwitch ==
    ASSUME Shape, Asked, Phases, Switch, [Next]_vars
    PROVE  Switch'
<1>1. ASSUME UNCHANGED <<svc, roles>>, Doing' = Doing PROVE Switch'
  BY <1>1 DEF Switch
<1>2. CASE ServiceCalls
  BY <1>2, CallsSwitch
<1>3. CASE answers
  <2>1. PICK m \in msgs, good \in BOOLEAN : Posts(m, good)
    BY <1>3, AnswersStep
  <2>2. UNCHANGED <<svc, roles>>
    BY <1>3, AnswersStep
  <2>3. "service" \in roles => Todo(thread'["service"]) = Todo(thread["service"])
    BY <2>1, PostsKeeps, ThreadsOfRoles DEF Shape
  <2>4. Doing' = Doing
    BY <2>2, <2>3 DEF Doing
  <2>5. QED
    BY <1>1, <2>2, <2>4
<1>4. CASE Aborts
  <2>1. Fresh' /\ svc' = SvcOff /\ Shape'
    BY <1>4, AbortsFresh
  <2>2. Doing' = {}
    BY <2>1, IdleFacts, RolesAssumption DEF Doing, Shape, ContextInv, Fresh
  <2>3. ~svc'.ee
    BY <2>1 DEF SvcOff
  <2>4. QED
    BY <2>2, <2>3 DEF Switch
<1>5. CASE "service" \in roles /\ Step("service")
  <2>1. CASE UNCHANGED svc /\ Doing' = Doing /\ UNCHANGED roles
    BY <1>1, <2>1
  <2>2. CASE UNCHANGED roles /\ ServiceEffect /\ \E p : Moves("service", p) /\ ServiceGoes(p)
    BY <1>5, <2>2, ServiceSwitch
  <2>3. QED
    BY <1>5, <2>1, <2>2, ServiceDoes
<1>6. CASE ~ServiceCalls /\ ~answers /\ ~Aborts /\ ~("service" \in roles /\ Step("service"))
  BY <1>1, <1>6, ServiceKept
<1>7. QED
  BY <1>2, <1>3, <1>4, <1>5, <1>6
\* The answer to a start or a stop comes to the service, which waits for it.
LEMMA AnswersSwitch ==
    ASSUME Shape, Asked, Switch, answers
    PROVE  /\ UNCHANGED <<svc, roles>> /\ Doing' = Doing
           /\ \E m \in msgs, good \in BOOLEAN :
                /\ Posts(m, good) /\ msgs' = (msgs \ {m}) \cup ElementNotified(m, good) /\ lib' = LibAfter(m, good)
                /\ m.what \in Requests /\ (m.what \in {"deinit", "fwDeinit"} => msgs = {m})
                /\ hist' = IF m.what \in {"start", "restart", "stop"} /\ ~good THEN hist \cup {"startFailed"} ELSE hist
                /\ "service" \in roles => thread'["service"].pc = thread["service"].pc
                /\ m.what = "start" => svc.polling
                /\ m.what # "stop" => (StopLeft' <=> StopLeft)
                /\ m.what # "start" => (StartLeft' <=> StartLeft)
                /\ m.what = "stop" => "stop" \in Doing
<1>1. PICK m \in msgs, good \in BOOLEAN :
        /\ Posts(m, good) /\ msgs' = (msgs \ {m}) \cup ElementNotified(m, good) /\ lib' = LibAfter(m, good)
        /\ m.what \in {"deinit", "fwDeinit"} => msgs = {m}
        /\ hist' = IF m.what \in {"start", "restart", "stop"} /\ ~good THEN hist \cup {"startFailed"} ELSE hist
  BY AnswersStep
<1>2. UNCHANGED <<svc, roles>> /\ m.what \in Requests /\ m.to \in Threads /\ m.to \in roles /\ m.what \in RoleLabels(m.to)
  BY <1>1, AnswersStep, MessageFacts DEF Shape, MsgType
<1>3. "service" \in roles =>
        /\ "service" \in Threads /\ Todo(thread'["service"]) = Todo(thread["service"])
        /\ thread'["service"].pc = thread["service"].pc
        /\ Answered(thread["service"]) => Answered(thread'["service"])
  BY <1>1, PostsKeeps, ThreadsOfRoles DEF Shape
<1>4. Doing' = Doing
  BY <1>2, <1>3 DEF Doing
<1>5. ASSUME m.what \in {"start", "stop"} PROVE m.what \in Doing
  <2>1. m.to = "service"
    BY <1>2, <1>5, RoleOf DEF ServiceLabels, RouteLabels
  <2>2. thread["service"].pc = m.what /\ "service" \in roles
    BY <1>2, <1>5, <2>1 DEF Asked, FrameOf
  <2>3. QED
    BY <1>5, <2>2, DoingFacts DEF Mutex
<1>6. ASSUME NEW l \in {"start", "stop"}, m.what # l, "service" \in roles, thread["service"].pc = l
      PROVE  Answered(thread'["service"]) <=> Answered(thread["service"])
  <2> SUFFICES ASSUME ~Answered(thread["service"]) PROVE ~Answered(thread'["service"])
    BY <1>3, <1>6
  <2>1. CASE m.to # "service" \/ ~Alive(m)
    BY <1>1, <1>3, <1>6, <2>1 DEF Posts
  <2>2. CASE m.to = "service" /\ Alive(m)
    <3>1. /\ thread'["service"].st = thread["service"].st
          /\ \A f \in Frames : thread'["service"].frame[f] =
               IF f = FrameOf(m.what) THEN [sem |-> TRUE, ok |-> good] ELSE thread["service"].frame[f]
      BY <1>1, <2>2 DEF Posts
    <3>2. FrameOf(l) = "call" /\ "call" \in Frames
      BY <1>6 DEF FrameOf, Frames
    <3>3. FrameOf(m.what) # "call"
      BY <1>6, <2>2 DEF Asked
    <3>4. thread'["service"].frame["call"] = thread["service"].frame["call"]
      BY <3>1, <3>2, <3>3
    <3>5. QED
      BY <1>3, <1>6, <3>1, <3>2, <3>4 DEF Answered
  <2>3. QED
    BY <2>1, <2>2
<1>7. "service" \notin roles => ~StopLeft /\ ~StopLeft' /\ ~StartLeft /\ ~StartLeft'
  BY <1>2, <1>4 DEF StopLeft, StartLeft, Doing
<1>8. m.what # "stop" => (StopLeft' <=> StopLeft)
  BY <1>3, <1>4, <1>6, <1>7 DEF StopLeft
<1>9. m.what # "start" => (StartLeft' <=> StartLeft)
  BY <1>3, <1>4, <1>6, <1>7 DEF StartLeft
<1>10. m.what = "start" => svc.polling
  BY <1>5 DEF Switch
<1>11. QED
  BY <1>1, <1>2, <1>3, <1>4, <1>5, <1>8, <1>9, <1>10

LEMMA NextQuiet ==
    ASSUME Shape, Asked, Phases, Switch, Quiet, [Next]_vars
    PROVE  Quiet'
<1>0. svc.polling \in BOOLEAN /\ LibOK
  BY DEF Shape, TypeInv, SvcOK
<1>1. CASE ServiceCalls
  <2>1. UNCHANGED <<lib, hist>> /\ (svc'.polling \/ StopLeft' \/ ~svc.polling) /\ ~StopLeft
    BY <1>1, CallsSwitch, ServiceCallsStep
  <2>2. QED
    BY <2>1 DEF Quiet
<1>2. CASE answers
  <2>1. UNCHANGED svc
    BY <1>2, AnswersSwitch
  <2>2. PICK m \in msgs, good \in BOOLEAN :
          /\ lib' = LibAfter(m, good) /\ m.what \in Requests
          /\ hist' = IF m.what \in {"start", "restart", "stop"} /\ ~good THEN hist \cup {"startFailed"} ELSE hist
          /\ m.what = "start" => svc.polling
          /\ m.what # "stop" => (StopLeft' <=> StopLeft)
    BY <1>2, AnswersSwitch
  <2>3. CASE m.what = "stop" /\ good
    BY <1>0, <2>2, <2>3, LibAfterFacts DEF Quiet
  <2>4. CASE m.what \in {"start", "stop"} /\ (m.what = "start" \/ ~good)
    BY <2>1, <2>2, <2>4 DEF Quiet
  <2>5. CASE m.what \notin {"start", "stop"}
    <3>1. (~lib'.cfg \/ lib'.cfg = lib.cfg) /\ (lib'.target = None \/ lib'.target = lib.target)
      BY <1>0, <2>2, <2>5, LibAfterFacts
    <3>2. "startFailed" \notin hist' => "startFailed" \notin hist
      BY <2>2
    <3>3. QED
      BY <2>1, <2>2, <2>5, <3>1, <3>2 DEF Quiet
  <2>6. QED
    BY <2>3, <2>4, <2>5
<1>3. CASE Aborts
  <2>1. lib' = LibOff
    BY <1>3, AbortsFresh
  <2>2. QED
    BY <2>1, LibOffFacts DEF Quiet
<1>4. CASE "service" \in roles /\ Step("service")
  <2> DEFINE c == thread["service"]
             l == c.pc
             R == Names(c.rest)
  <2>1. lib'.cfg = lib.cfg /\ lib'.target = lib.target
    BY <1>4, StepKeeps DEF StepFrame
  <2>2. CASE UNCHANGED <<lib, svc>> /\ hist \subseteq hist' /\ (StopLeft' <=> StopLeft)
    BY <2>1, <2>2 DEF Quiet
  <2>3. CASE UNCHANGED roles /\ ServiceEffect /\ \E p : Moves("service", p) /\ ServiceGoes(p)
    <3>1. PICK p : Moves("service", p) /\ ServiceGoes(p)
      BY <2>3
    <3>2. Doing' = Names(p) /\ Switch'
      BY <1>4, <2>3, <3>1, ServiceSwitch
    <3>3. StopLeft' <=> "stop" \in Names(p)
      BY <3>1, <3>2 DEF StopLeft, Moves, Answered
    <3>4. hist \subseteq hist' /\ (l = "stop" => Answered(c))
      BY <2>3 DEF ServiceEffect, SwitchEffect
    <3>5. /\ Doing = ({l} \ Mutex) \cup R /\ (l \notin Mutex => l \in Doing)
      BY <1>4, DoingFacts
    <3>6. ASSUME ~svc'.polling, ~StopLeft' PROVE ~svc.polling /\ ~StopLeft
      <4>1. l \notin {"seClosed", "enabled"}
        <5> SUFFICES ASSUME l \in {"seClosed", "enabled"} PROVE FALSE
          OBVIOUS
        <5>1. /\ l \notin {"register", "seFailed"} /\ l \notin OpenAsks \cup {"seCheck", "seRegister"} /\ l \notin CloseAsks
              /\ l \notin InitLabels \ {"configure", "enabled"}
          BY DEF OpenAsks, CloseAsks, InitLabels
        <5>2. "stop" \in Names(p)
          BY <3>1, <3>6, <5>1 DEF ServiceGoes
        <5>3. QED
          BY <3>3, <3>6, <5>2
      <4>2. ~svc.polling
        BY <1>0, <2>3, <3>6, <4>1 DEF ServiceEffect, SwitchEffect
      <4>3. "stop" \in R => FALSE
        <5> SUFFICES ASSUME "stop" \in R PROVE FALSE
          OBVIOUS
        <5>1. l \in Mutex \cup {"register", "seMode"}
          <6>1. l \notin Mutex => l \in RouteLabels \cup OpenLabels
            BY <3>5 DEF Switch
          <6>2. l \notin {"start", "stop"} /\ l \notin OpenLabels
            BY <1>4, RestFacts
          <6>3. QED
            BY <6>1, <6>2 DEF RouteLabels
        <5>2. /\ l \notin {"seFailed", "seClosed", "enabled"} /\ l \notin OpenAsks \cup {"seCheck", "seRegister"} /\ l \notin CloseAsks
              /\ l \notin InitLabels \ {"configure", "enabled"}
          BY <5>1 DEF OpenAsks, CloseAsks, InitLabels, Mutex
        <5>3. "stop" \in Names(p)
          BY <3>1, <5>2 DEF ServiceGoes
        <5>4. QED
          BY <3>3, <3>6, <5>3
      <4>4. QED
        BY <3>4, <3>5, <4>2, <4>3 DEF StopLeft
    <3>7. QED
      BY <2>1, <3>4, <3>6 DEF Quiet
  <2>4. QED
    BY <1>4, <2>2, <2>3, ServiceDoes
<1>5. CASE ~ServiceCalls /\ ~answers /\ ~Aborts /\ ~("service" \in roles /\ Step("service"))
  BY <1>5, ServiceKept DEF Quiet
<1>6. QED
  BY <1>1, <1>2, <1>3, <1>4, <1>5

LEMMA FreshSwitch ==
    ASSUME Shape, Fresh,
           \/ lib = LibOff /\ svc = SvcOff
           \/ lib = FirstOn /\ svc = [SvcOff EXCEPT !.on = TRUE, !.polling = TRUE]
    PROVE  Switch /\ Quiet
<1>1. \A t \in Threads : thread[t] = IdleThread
  BY DEF Fresh
<1>2. Doing = {}
  BY <1>1, IdleFacts, ThreadsOfRoles DEF Doing, Shape
<1>3. CASE lib = LibOff /\ svc = SvcOff
  <2>1. ~svc.ee
    BY <1>3 DEF SvcOff
  <2>2. QED
    BY <1>2, <1>3, <2>1, LibOffFacts DEF Switch, Quiet
<1>4. CASE svc = [SvcOff EXCEPT !.on = TRUE, !.polling = TRUE]
  <2>1. ~svc.ee /\ svc.polling
    BY <1>4 DEF SvcOff
  <2>2. QED
    BY <1>2, <2>1 DEF Switch, Quiet
<1>5. QED
  BY <1>3, <1>4

\* While the secure element is open the controller does not poll and holds no
\* tag or peer, unless libnfc failed a start or a stop of the discovery: the
\* service has turned the polling loop off, waits for the answer before it
\* looks for the element, and polls again only once it has let it go.
THEOREM ElementCorrect == Spec => []ElementAlone
<1> DEFINE Inv == Shape /\ Asked /\ ClientInv /\ Switch /\ Quiet
<1>1. Init => Inv
  <2> SUFFICES ASSUME Init PROVE Inv
    OBVIOUS
  <2>1. Shape /\ Fresh /\ msgs = {} /\ \A t \in Threads : thread[t] = IdleThread
    BY InitFresh DEF Fresh
  <2>2. Asked
    BY <2>1 DEF Asked, IdleThread, NewFrame, Frames
  <2>3. ClientInv
    BY <2>1, InitFresh, FreshClient
  <2>4. Switch /\ Quiet
    BY InitFresh, FreshSwitch
  <2>5. QED
    BY <2>1, <2>2, <2>3, <2>4
<1>2. Inv /\ [Next]_vars => Inv'
  <2> SUFFICES ASSUME Shape, Asked, ClientInv, Switch, Quiet, [Next]_vars
               PROVE  Shape' /\ Asked' /\ ClientInv' /\ Switch' /\ Quiet'
    OBVIOUS
  <2>1. Phases
    BY DEF ClientInv
  <2>2. QED
    BY <2>1, NextShape, NextAsked, NextClient, NextSwitch, NextQuiet
<1>3. Inv => ElementAlone
  <2> SUFFICES ASSUME Switch, Quiet, svc.ee, "startFailed" \notin hist PROVE ~lib.cfg /\ lib.target = None
    BY DEF ElementAlone
  <2>1. "stop" \notin Doing
    BY DEF Switch, CloseLabels
  <2>2. QED
    BY <2>1 DEF Switch, Quiet, StopLeft
<1>4. QED
  BY <1>1, <1>2, <1>3, PTL DEF Spec
-----------------------------------------------------------------------------
(* The listener *)

\* An initialisation reads the settings only once libnfc is initialised, and
\* libnfc is initialised again whenever the firmware is loaded.
Steps ==
    /\ Doing \cap {"fwDeinit", "fwLoad"} # {} => "fwInit" \in Doing
    /\ Doing \cap {"init", "fwInit"} # {} => "eeprom" \in Doing

\* What the service sleeps on, if it does.
SleepsAt(l) == "service" \in roles /\ thread["service"].pc = l /\ thread["service"].st = "waits"

\* No initialisation ends while libnfc has still to close or to initialise,
\* in answer to an update that stopped waiting.
Late ==
    /\ \A m \in msgs : m.what = "fwDeinit" =>
         /\ lib.on /\ ~svc.on /\ ~SleepsAt("init") /\ ~SleepsAt("fwInit")
         /\ "enabled" \in Doing => Doing \cap {"init", "fwInit"} # {}
    /\ \A m \in msgs : m.what \in {"init", "fwInit"} =>
         /\ ~lib.on /\ ~svc.on /\ ~SleepsAt("eeprom")
         /\ "enabled" \in Doing => "eeprom" \in Doing
    /\ \A m, n \in msgs : {m.what, n.what} \subseteq {"init", "fwInit"} => m = n

\* With the polling loop on, the listener is the one of discovery, or is
\* about to be.
Listens ==
    /\ hist \cap {"startFailed", "registerRefused"} = {} /\ svc.on /\ svc.polling
    /\ Doing \cap {"register", "deinit"} = {}
    => lib.listener = "discovery"

LEMMA ServiceSteps ==
    ASSUME Shape, Phases, Steps, "service" \in roles, UNCHANGED roles,
           NEW p, Moves("service", p), ServiceGoes(p)
    PROVE  /\ Steps' /\ Doing' = Names(p)
           /\ "enabled" \in Names(p) =>
                \/ {"fwInit", "eeprom"} \subseteq Names(p)
                \/ LET c == thread["service"]
                   IN  Names(p) = Names(c.rest) /\ (c.pc \in {"init", "fwInit", "eeprom"} => Answered(c))
<1> DEFINE c == thread["service"]
           l == c.pc
           R == Names(c.rest)
           D == Names(p)
<1>1. Doing' = D
  BY DEF Moves, Doing
<1>2. Doing = ({l} \ Mutex) \cup R /\ R \subseteq Doing /\ (l \notin Mutex => l \in Doing)
  BY DoingFacts
<1>3. \A b \in R : Fits(l, b)
  BY AtWork DEF Shape, Orderly
<1>4. \A b \in R : b \notin Mutex
  BY DEF Names
<1>5. l = "register" => Doing \subseteq RouteLabels
  BY <1>2 DEF Phases, Mutex
<1>6. R \cap {"fwDeinit", "fwLoad"} # {} => "fwInit" \in R
  <2> SUFFICES ASSUME NEW b \in R, b \in {"fwDeinit", "fwLoad"} PROVE "fwInit" \in R
    OBVIOUS
  <2>1. "fwInit" \in Doing
    BY <1>2 DEF Steps
  <2>2. l = "fwInit" => FALSE
    <3> SUFFICES ASSUME l = "fwInit" PROVE FALSE
      OBVIOUS
    <3>1. Rank(l) = 5 /\ Rank(b) <= 4 /\ Rank(b) \in Nat /\ l \notin Mutex /\ l \notin {"register", "seMode"}
      BY DEF Rank, Mutex
    <3>2. QED
      BY <1>3, <1>4, <3>1 DEF Fits
  <2>3. QED
    BY <1>2, <2>1, <2>2
<1>7. R \cap {"init", "fwInit"} # {} => "eeprom" \in R
  <2> SUFFICES ASSUME NEW b \in R, b \in {"init", "fwInit"} PROVE "eeprom" \in R
    OBVIOUS
  <2>1. "eeprom" \in Doing
    BY <1>2 DEF Steps
  <2>2. l = "eeprom" => FALSE
    <3> SUFFICES ASSUME l = "eeprom" PROVE FALSE
      OBVIOUS
    <3>1. Rank(l) = 6 /\ Rank(b) <= 5 /\ Rank(b) \in Nat /\ l \notin Mutex /\ l \notin {"register", "seMode"}
      BY DEF Rank, Mutex
    <3>2. QED
      BY <1>3, <1>4, <3>1 DEF Fits
  <2>3. QED
    BY <1>2, <2>1, <2>2
<1>8. \/ D = R /\ (l \in {"init", "fwInit", "eeprom"} => Answered(c))
      \/ l = "register" /\ D \subseteq R
      \/ D = Again \/ D = {"fwDeinit"} \cup Again
      \/ D \in {{}, {"fwFailed"}, {"initFails"}, {"register", "start"}, {"seFailed"}, {"seClosed"}}
      \/ D = {"register", "seMode", IF svc'.polling THEN "start" ELSE "stop"}
  BY DEF ServiceGoes
<1> HIDE DEF D, R
<1>9. CASE D = R /\ (l \in {"init", "fwInit", "eeprom"} => Answered(c))
  BY <1>1, <1>6, <1>7, <1>9 DEF Steps, D, R
<1>10. CASE l = "register" /\ D \subseteq R
  <2>1. D \subseteq RouteLabels
    BY <1>2, <1>5, <1>10
  <2>2. D \cap {"fwDeinit", "fwLoad", "init", "fwInit", "enabled"} = {}
    BY <2>1 DEF RouteLabels
  <2>3. QED
    BY <1>1, <2>2 DEF Steps, D, R
<1>11. CASE D = Again \/ D = {"fwDeinit"} \cup Again
  <2>1. "fwInit" \in D /\ "eeprom" \in D /\ "init" \notin D
    BY <1>11 DEF Again
  <2>2. QED
    BY <1>1, <2>1 DEF Steps, D, R
<1>12. CASE \/ D \in {{}, {"fwFailed"}, {"initFails"}, {"register", "start"}, {"seFailed"}, {"seClosed"}}
            \/ D = {"register", "seMode", IF svc'.polling THEN "start" ELSE "stop"}
  <2>1. D \cap {"fwDeinit", "fwLoad", "init", "fwInit", "enabled"} = {}
    BY <1>12
  <2>2. QED
    BY <1>1, <2>1 DEF Steps, D, R
<1>13. QED
  BY <1>8, <1>9, <1>10, <1>11, <1>12

LEMMA NextSteps ==
    ASSUME Shape, Asked, Phases, Switch, Steps, [Next]_vars
    PROVE  Steps'
<1>1. ASSUME Doing' = Doing PROVE Steps'
  BY <1>1 DEF Steps
<1>2. CASE ServiceCalls
  <2>1. PICK p :
          /\ Starts("service", p)
          /\ "eeprom" \in Names(p) \/ {"init", "fwInit"} \cap Names(p) = {}
          /\ {"fwDeinit", "fwLoad"} \cap Names(p) = {}
    <3>1. {"init", "fwInit", "fwDeinit", "fwLoad"} \cap (OpenNames \cup {"stop"}) = {}
      BY DEF OpenNames
    <3>2. QED
      BY <1>2, <3>1, ServiceCallsStep
  <2>2. UNCHANGED roles /\ "service" \in roles /\ Doing' = Names(p)
    BY <1>2, <2>1, ServiceCallsStep DEF Starts, Doing
  <2>3. QED
    BY <2>1, <2>2 DEF Steps
<1>3. CASE answers
  BY <1>1, <1>3, AnswersSwitch
<1>4. CASE Aborts
  <2>1. Fresh' /\ Shape'
    BY <1>4, AbortsFresh
  <2>2. Doing' = {}
    BY <2>1, IdleFacts, RolesAssumption DEF Doing, Shape, ContextInv, Fresh
  <2>3. QED
    BY <2>2 DEF Steps
<1>5. CASE "service" \in roles /\ Step("service")
  BY <1>1, <1>5, ServiceDoes, ServiceSteps
<1>6. CASE ~ServiceCalls /\ ~answers /\ ~Aborts /\ ~("service" \in roles /\ Step("service"))
  BY <1>1, <1>6, ServiceKept
<1>7. QED
  BY <1>2, <1>3, <1>4, <1>5, <1>6

\* The service, as what is late is still to come.
LEMMA ServiceLate ==
    ASSUME Shape, Asked, Phases, Switch, Steps, Late, "service" \in roles, Step("service")
    PROVE  Late'
<1> DEFINE c == thread["service"]
           l == c.pc
           R == Names(c.rest)
<1>1. /\ lib'.on = lib.on /\ UNCHANGED roles
  BY StepKeeps DEF StepFrame
<1>2. Doing = ({l} \ Mutex) \cup R /\ R \subseteq Doing /\ (l \notin Mutex => l \in Doing)
  BY DoingFacts
<1>3. /\ \A m \in msgs : m.what = "fwDeinit" =>
           /\ lib.on /\ ~svc.on /\ ~SleepsAt("init") /\ ~SleepsAt("fwInit")
           /\ "enabled" \in Doing => Doing \cap {"init", "fwInit"} # {}
      /\ \A m \in msgs : m.what \in {"init", "fwInit"} =>
           /\ ~lib.on /\ ~svc.on /\ ~SleepsAt("eeprom")
           /\ "enabled" \in Doing => "eeprom" \in Doing
      /\ \A m, n \in msgs : {m.what, n.what} \subseteq {"init", "fwInit"} => m = n
  BY DEF Late
<1>4. CASE accepts("service")
  <2>1. /\ Sleeps("service", "waits") /\ c.st = "runs" /\ UNCHANGED <<lib, svc, hist>>
        /\ msgs' = msgs \cup {Request("service", l)} /\ Request("service", l).what = l /\ MayAccept("service", l)
        /\ l \in Requests
    BY <1>4, AcceptsStep DEF accepts, Request
  <2>2. Doing' = Doing /\ thread'["service"].pc = l
    BY <1>1, <2>1 DEF Sleeps, Doing, Todo
  <2>3. l \in Doing
    BY <1>2, <2>1 DEF Requests, ManagerAsks, OpenAsks, CloseAsks, Mutex
  <2>4. ASSUME l \in {"init", "fwInit"}
        PROVE  ~lib.on /\ (\A m \in msgs : m.what \notin {"init", "fwInit"}) /\ ~svc.on /\ "eeprom" \in Doing
    <3>1. ~lib.on /\ \A m \in msgs : m.what \notin {"init", "fwInit"}
      BY <2>1, <2>4 DEF MayAccept
    <3>2. ~svc.on
      BY <2>3, <2>4 DEF Switch, InitLabels
    <3>3. "eeprom" \in Doing
      BY <2>3, <2>4 DEF Steps
    <3>4. QED
      BY <3>1, <3>2, <3>3
  <2>5. ASSUME l = "fwDeinit" PROVE lib.on /\ ~svc.on /\ "fwInit" \in Doing
    <3>1. lib.on
      BY <2>1, <2>5 DEF MayAccept
    <3>2. ~svc.on
      BY <2>3, <2>5 DEF Switch, InitLabels
    <3>3. "fwInit" \in Doing
      BY <2>3, <2>5 DEF Steps
    <3>4. QED
      BY <3>1, <3>2, <3>3
  <2>6. l = "eeprom" => lib.on
    BY <2>1 DEF MayAccept
  <2>7. \A k : SleepsAt(k)' <=> k = l
    BY <1>1, <2>1, <2>2 DEF SleepsAt, Sleeps
  <2>8. ASSUME NEW m \in msgs', m.what = "fwDeinit"
        PROVE  /\ lib'.on /\ ~svc'.on /\ ~SleepsAt("init")' /\ ~SleepsAt("fwInit")'
               /\ "enabled" \in Doing' => Doing' \cap {"init", "fwInit"} # {}
    <3>1. CASE m \in msgs
      BY <1>3, <2>1, <2>2, <2>4, <2>7, <2>8, <3>1
    <3>2. CASE m \notin msgs
      BY <2>1, <2>2, <2>5, <2>7, <2>8, <3>2
    <3>3. QED
      BY <3>1, <3>2
  <2>9. ASSUME NEW m \in msgs', m.what \in {"init", "fwInit"}
        PROVE  /\ ~lib'.on /\ ~svc'.on /\ ~SleepsAt("eeprom")'
               /\ "enabled" \in Doing' => "eeprom" \in Doing'
    <3>1. CASE m \in msgs
      BY <1>3, <2>1, <2>2, <2>6, <2>7, <2>9, <3>1
    <3>2. CASE m \notin msgs
      BY <2>1, <2>2, <2>4, <2>7, <2>9, <3>2
    <3>3. QED
      BY <3>1, <3>2
  <2>10. \A m, n \in msgs' : {m.what, n.what} \subseteq {"init", "fwInit"} => m = n
    <3>1. \A m \in msgs' : m \in msgs \/ (m = Request("service", l) /\ m.what = l)
      BY <2>1
    <3>2. QED
      BY <1>3, <2>4, <3>1
  <2>11. QED
    BY <2>8, <2>9, <2>10 DEF Late
<1>5. CASE /\ c.st = "runs" /\ Sleeps("service", "waits") /\ UNCHANGED <<msgs, nat, lib, svc>>
           /\ l \in {"seNotified", "gpioGet"}
  <2>0. Doing' = Doing /\ thread'["service"].pc = l
    BY <1>1, <1>5 DEF Sleeps, Doing, Todo
  <2>1. ~SleepsAt("init")' /\ ~SleepsAt("fwInit")' /\ ~SleepsAt("eeprom")'
    BY <1>5, <2>0 DEF SleepsAt
  <2>2. QED
    BY <1>3, <1>5, <2>0, <2>1 DEF Late
<1>6. CASE msgs' = msgs /\ ServiceEffect /\ \E p : Moves("service", p) /\ ServiceGoes(p)
  <2>1. PICK p : Moves("service", p) /\ ServiceGoes(p)
    BY <1>6
  <2>2. /\ Doing' = Names(p)
        /\ "enabled" \in Names(p) =>
             \/ {"fwInit", "eeprom"} \subseteq Names(p)
             \/ Names(p) = R /\ (l \in {"init", "fwInit", "eeprom"} => Answered(c))
    BY <1>1, <2>1, ServiceSteps
  <2>3. ~SleepsAt("init")' /\ ~SleepsAt("fwInit")' /\ ~SleepsAt("eeprom")'
    BY <2>1 DEF SleepsAt, Moves
  <2>4. l = "enabled" => R = {} /\ "enabled" \in Doing
    BY <1>2, RestFacts DEF Mutex
  <2>5. l # "enabled" => svc'.on = svc.on \/ ~svc'.on
    BY <1>6 DEF ServiceEffect
  <2>6. l \in {"init", "fwInit", "eeprom"} /\ Answered(c) => SleepsAt(l)
    BY DEF Answered, SleepsAt
  <2>7. ASSUME NEW m \in msgs, m.what = "fwDeinit"
        PROVE  /\ lib'.on /\ ~svc'.on /\ ("enabled" \in Doing' => Doing' \cap {"init", "fwInit"} # {})
    <3>1. lib.on /\ ~svc.on /\ ~SleepsAt("init") /\ ~SleepsAt("fwInit") /\ ("enabled" \in Doing => Doing \cap {"init", "fwInit"} # {})
      BY <1>3, <2>7
    <3>2. l # "enabled"
      BY <1>2, <2>4, <3>1
    <3>3. "enabled" \in Doing' => Doing' \cap {"init", "fwInit"} # {}
      <4>1. CASE Names(p) = R /\ (l \in {"init", "fwInit", "eeprom"} => Answered(c))
        BY <1>2, <2>2, <2>6, <3>1, <4>1
      <4>2. QED
        BY <2>2, <4>1
    <3>4. QED
      BY <1>1, <2>5, <3>1, <3>2, <3>3
  <2>8. ASSUME NEW m \in msgs, m.what \in {"init", "fwInit"}
        PROVE  /\ ~lib'.on /\ ~svc'.on /\ ("enabled" \in Doing' => "eeprom" \in Doing')
    <3>1. ~lib.on /\ ~svc.on /\ ~SleepsAt("eeprom") /\ ("enabled" \in Doing => "eeprom" \in Doing)
      BY <1>3, <2>8
    <3>2. l # "enabled"
      BY <1>2, <2>4, <3>1
    <3>3. "enabled" \in Doing' => "eeprom" \in Doing'
      <4>1. CASE Names(p) = R /\ (l \in {"init", "fwInit", "eeprom"} => Answered(c))
        BY <1>2, <2>2, <2>6, <3>1, <4>1
      <4>2. QED
        BY <2>2, <4>1
    <3>4. QED
      BY <1>1, <2>5, <3>1, <3>2, <3>3
  <2>9. QED
    BY <1>3, <1>6, <2>3, <2>7, <2>8 DEF Late
<1>7. QED
  BY <1>4, <1>5, <1>6, ServiceStep

LEMMA NextLate ==
    ASSUME Shape, Asked, Phases, Switch, Steps, Late, [Next]_vars
    PROVE  Late'
<1>3. /\ \A m \in msgs : m.what = "fwDeinit" =>
           /\ lib.on /\ ~svc.on /\ ~SleepsAt("init") /\ ~SleepsAt("fwInit")
           /\ "enabled" \in Doing => Doing \cap {"init", "fwInit"} # {}
      /\ \A m \in msgs : m.what \in {"init", "fwInit"} =>
           /\ ~lib.on /\ ~svc.on /\ ~SleepsAt("eeprom")
           /\ "enabled" \in Doing => "eeprom" \in Doing
      /\ \A m, n \in msgs : {m.what, n.what} \subseteq {"init", "fwInit"} => m = n
  BY DEF Late
<1>1. CASE ServiceCalls
  <2>1. PICK p :
          /\ Starts("service", p)
          /\ ~svc.on /\ ~svc.ee => UNCHANGED svc
          /\ "enabled" \in Names(p) => {"init", "eeprom"} \subseteq Names(p)
          /\ svc.on \/ svc.ee \/ UNCHANGED svc
    <3>1. "enabled" \notin OpenNames \cup {"stop"}
      BY DEF OpenNames
    <3>2. QED
      BY <1>1, <3>1, ServiceCallsStep
  <2>2. /\ UNCHANGED <<roles, msgs, lib>> /\ "service" \in roles /\ Doing' = Names(p)
        /\ thread'["service"].st = "runs"
    BY <1>1, <2>1, ServiceCallsStep DEF Starts, Doing
  <2>3. \A k : ~SleepsAt(k)'
    BY <2>2 DEF SleepsAt
  <2>4. ~svc.on => UNCHANGED svc
    BY <2>1 DEF Switch
  <2>5. QED
    BY <1>3, <2>1, <2>2, <2>3, <2>4 DEF Late
<1>2. CASE answers
  <2>1. UNCHANGED <<svc, roles>> /\ Doing' = Doing
    BY <1>2, AnswersSwitch
  <2>2. PICK m \in msgs, good \in BOOLEAN :
          /\ Posts(m, good) /\ msgs' = (msgs \ {m}) \cup ElementNotified(m, good) /\ lib' = LibAfter(m, good)
          /\ m.what \in Requests /\ (m.what \in {"deinit", "fwDeinit"} => msgs = {m})
          /\ "service" \in roles => thread'["service"].pc = thread["service"].pc
    BY <1>2, AnswersSwitch
  <2>3. "service" \in roles => thread'["service"].st = thread["service"].st
    <3>1. "service" \in roles => "service" \in Threads
      BY ThreadsOfRoles DEF Shape
    <3>2. QED
      BY <2>2, <3>1 DEF Posts
  <2>4. \A k : SleepsAt(k)' <=> SleepsAt(k)
    BY <2>1, <2>2, <2>3 DEF SleepsAt
  <2>5. m \in [to : roles, id : 1..calls, tries : Nat, what : Requests] /\ LibOK
    BY DEF Shape, MsgType, TypeInv
  <2>6. \A n \in ElementNotified(m, good) : n.what = "seNotified" /\ m.what = "seWired"
    BY <2>5 DEF ElementNotified
  <2>7. \A n \in msgs' : (n \in msgs /\ n # m) \/ n.what = "seNotified"
    BY <2>2, <2>6
  <2>8. m.what \in {"deinit", "fwDeinit"} => \A n \in msgs' : n.what = "seNotified"
    BY <2>2, <2>7
  <2>9. /\ m.what \in {"init", "fwInit"} => (lib'.on \/ lib'.on = lib.on)
        /\ m.what \notin {"init", "fwInit", "deinit", "fwDeinit"} => lib'.on = lib.on
    BY <2>2, <2>5, LibAfterFacts
  <2>10. ASSUME NEW n \in msgs', n.what = "fwDeinit" PROVE lib'.on
    BY <1>3, <2>7, <2>8, <2>9, <2>10
  <2>11. ASSUME NEW n \in msgs', n.what \in {"init", "fwInit"} PROVE ~lib'.on
    <3>1. n \in msgs /\ n # m /\ m.what \notin {"deinit", "fwDeinit"} /\ ~lib.on
      BY <1>3, <2>7, <2>8, <2>11
    <3>2. m.what \notin {"init", "fwInit"}
      BY <1>3, <2>11, <3>1
    <3>3. QED
      BY <2>9, <3>1, <3>2
  <2>12. QED
    BY <1>3, <2>1, <2>4, <2>7, <2>10, <2>11 DEF Late
<1>4. CASE Aborts
  BY <1>4, AbortsFresh DEF Late, Fresh
<1>5. CASE "service" \in roles /\ Step("service")
  BY <1>5, ServiceLate
<1>6. CASE ~ServiceCalls /\ ~answers /\ ~Aborts /\ ~("service" \in roles /\ Step("service"))
  <2>1. /\ UNCHANGED <<svc, roles>> /\ Doing' = Doing /\ lib'.on = lib.on
        /\ "service" \in roles =>
             /\ thread'["service"].pc = thread["service"].pc
             /\ thread'["service"].st = "waits" => thread["service"].st = "waits"
        /\ \A m \in msgs' : m \in msgs \/ m.what \notin {"init", "fwInit", "fwDeinit"}
    BY <1>6, ServiceKept
  <2>2. \A k : SleepsAt(k)' => SleepsAt(k)
    BY <2>1 DEF SleepsAt
  <2>3. QED
    BY <1>3, <2>1, <2>2 DEF Late
<1>7. QED
  BY <1>1, <1>2, <1>4, <1>5, <1>6
LEMMA ServiceListens ==
    ASSUME Shape, Asked, Phases, Switch, Quiet, Listens, ListenerAlive, "service" \in roles, Step("service")
    PROVE  Listens' /\ ListenerAlive'
<1> DEFINE c == thread["service"]
           l == c.pc
           R == Names(c.rest)
<1>0. SvcOK /\ UNCHANGED roles /\ lib'.cfg = lib.cfg
  BY StepKeeps DEF Shape, TypeInv, StepFrame
<1>1. CASE UNCHANGED <<lib, svc>> /\ hist \subseteq hist' /\ Doing' = Doing
  <2>1. hist' \cap {"startFailed", "registerRefused"} = {} => hist \cap {"startFailed", "registerRefused"} = {}
    BY <1>1
  <2>2. QED
    BY <1>1, <2>1 DEF Listens, ListenerAlive
<1>2. CASE ServiceEffect /\ \E p : Moves("service", p) /\ ServiceGoes(p)
  <2>1. PICK p : Moves("service", p) /\ ServiceGoes(p)
    BY <1>2
  <2>2. Switch' /\ Doing' = Names(p)
    BY <1>0, <1>2, <2>1, ServiceSwitch
  <2>3. /\ hist' \cap {"startFailed", "registerRefused"} = {} => hist \cap {"startFailed", "registerRefused"} = {}
        /\ l \notin {"register", "seRegister"} => lib'.listener = lib.listener
        /\ l = "register" => "registerRefused" \in hist' \/ lib'.listener = "discovery"
        /\ l \notin {"seClosed", "enabled"} => svc'.polling = (svc.polling \/ (l = "seFailed" /\ svc.restore))
        /\ l \notin {"enabled", "deinit"} => svc'.on = svc.on
        /\ l = "deinit" => ~svc'.on
    <3>1. hist \subseteq hist'
      BY <1>2 DEF ServiceEffect
    <3>2. QED
      BY <1>2, <3>1 DEF ServiceEffect, SwitchEffect
  <2>4. Doing = ({l} \ Mutex) \cup R /\ R \subseteq Doing /\ (l \notin Mutex => l \in Doing)
    BY DoingFacts
  <2>5. /\ Doing \cap OpenLabels # {} => ~svc.polling
        /\ Doing \cap (InitLabels \cup BootLabels) # {} => ~svc.on
        /\ svc.polling \in BOOLEAN
    BY <1>0 DEF Switch, SvcOK
  <2>6. CASE l = "register"
    BY <2>3, <2>6 DEF Listens, ListenerAlive
  <2>7. CASE l \in OpenLabels
    <3>1. l \in Doing /\ l \notin {"enabled", "deinit", "seClosed", "register"}
      BY <2>4, <2>7 DEF OpenLabels, Mutex
    <3>2. ~svc.polling
      BY <2>5, <2>7, <3>1
    <3>3. svc'.polling => l = "seFailed" /\ svc.restore
      BY <2>3, <3>1, <3>2
    <3>4. l = "seFailed" /\ svc.restore => "register" \in Doing'
      <4>1. l = "seFailed" => /\ l \notin OpenAsks \cup {"seCheck", "seRegister"} /\ l \notin CloseAsks
                              /\ l \notin InitLabels \ {"configure", "enabled"}
        BY DEF OpenAsks, CloseAsks, InitLabels
      <4>2. l = "seFailed" => Names(p) = (IF svc.restore THEN {"register", "start"} ELSE {})
        BY <2>1, <4>1 DEF ServiceGoes
      <4>3. QED
        BY <2>2, <4>2
    <3>5. Listens'
      BY <3>3, <3>4 DEF Listens
    <3>6. "startFailed" \notin hist => ~lib.cfg
      <4>1. "stop" \notin Doing
        <5>1. "stop" \notin R /\ l # "stop"
          BY <2>7, RestFacts DEF OpenLabels
        <5>2. QED
          BY <2>4, <5>1
      <4>2. QED
        BY <3>2, <4>1 DEF Quiet, StopLeft
    <3>7. ListenerAlive'
      BY <1>0, <2>3, <3>6 DEF ListenerAlive
    <3>8. QED
      BY <3>5, <3>7
  <2>8. CASE l \notin {"register"} \cup OpenLabels
    <3>1. lib'.listener = lib.listener
      BY <2>3, <2>8 DEF OpenLabels
    <3>2. ListenerAlive'
      BY <1>0, <2>3, <3>1 DEF ListenerAlive
    <3>3. CASE l \in {"seClosed", "enabled"}
      <4>1. /\ l \notin OpenAsks \cup {"seCheck", "seRegister", "register", "seFailed"} /\ l \notin CloseAsks
            /\ l \notin InitLabels \ {"configure", "enabled"}
        BY <3>3 DEF OpenAsks, CloseAsks, InitLabels
      <4>2. "register" \in Names(p)
        BY <2>1, <3>3, <4>1 DEF ServiceGoes
      <4>3. QED
        BY <2>2, <3>2, <4>2 DEF Listens
    <3>4. CASE l = "deinit"
      BY <2>3, <3>2, <3>4 DEF Listens
    <3>5. CASE l \notin {"seClosed", "enabled", "deinit"}
      <4>1. l # "seFailed" /\ l \notin OpenAsks \cup {"seCheck", "seRegister"}
        BY <2>8 DEF OpenLabels, OpenAsks
      <4>2. svc'.on = svc.on /\ svc'.polling = svc.polling
        BY <2>3, <2>5, <3>5, <4>1
      <4>3. CASE Names(p) = R
        BY <2>2, <2>3, <2>4, <2>8, <3>1, <3>2, <3>5, <4>2, <4>3 DEF Listens
      <4>4. CASE l \in InitLabels \ {"configure", "enabled"}
        <5>1. ~svc.on
          BY <2>4, <2>5, <4>4 DEF InitLabels, Mutex
        <5>2. QED
          BY <3>2, <4>2, <5>1 DEF Listens
      <4>5. CASE l \in CloseAsks
        <5>1. l \in Doing /\ l \notin RouteLabels \cup {"deinit"}
          BY <2>4, <4>5 DEF CloseAsks, Mutex, RouteLabels
        <5>2. Doing \cap {"register", "deinit"} = {}
          BY <5>1 DEF Phases
        <5>3. QED
          BY <2>3, <3>1, <3>2, <4>2, <5>2 DEF Listens
      <4>6. QED
        BY <2>1, <2>8, <3>5, <4>1, <4>3, <4>4, <4>5 DEF ServiceGoes
    <3>6. QED
      BY <3>3, <3>4, <3>5
  <2>9. QED
    BY <2>6, <2>7, <2>8
<1>3. QED
  BY <1>1, <1>2, ServiceDoes

LEMMA NextListens ==
    ASSUME Shape, Asked, Phases, Switch, Quiet, Late, Listens, ListenerAlive, [Next]_vars
    PROVE  Listens' /\ ListenerAlive'
<1>0. SvcOK /\ LibOK
  BY DEF Shape, TypeInv
<1>1. CASE ServiceCalls
  <2>1. PICK p :
          /\ Starts("service", p)
          /\ \/ ~svc.on /\ UNCHANGED svc
             \/ Names(p) = {"deinit"}
             \/ \E polling \in BOOLEAN : Names(p) = {"register", "seMode", IF polling THEN "start" ELSE "stop"}
             \/ UNCHANGED svc /\ Names(p) = {"start"}
             \/ svc' = [svc EXCEPT !.polling = FALSE, !.restore = svc.polling]
             \/ svc.ee /\ UNCHANGED svc
    BY <1>1, ServiceCallsStep
  <2>2. UNCHANGED <<roles, lib, hist>> /\ "service" \in roles /\ Doing = {} /\ Doing' = Names(p)
    BY <1>1, <2>1, ServiceCallsStep, IdleFacts DEF Starts, Doing
  <2>3. ListenerAlive'
    BY <2>2 DEF ListenerAlive
  <2>4. CASE Names(p) \cap {"register", "deinit"} # {}
    BY <2>2, <2>3, <2>4 DEF Listens
  <2>5. CASE UNCHANGED svc
    BY <2>2, <2>3, <2>5 DEF Listens
  <2>6. CASE svc' = [svc EXCEPT !.polling = FALSE, !.restore = svc.polling]
    <3>1. ~svc'.polling
      BY <1>0, <2>6 DEF SvcOK
    <3>2. QED
      BY <2>3, <3>1 DEF Listens
  <2>7. QED
    BY <2>1, <2>4, <2>5, <2>6
<1>2. CASE answers
  <2>1. UNCHANGED <<svc, roles>> /\ Doing' = Doing
    BY <1>2, AnswersSwitch
  <2>2. PICK m \in msgs, good \in BOOLEAN :
          /\ lib' = LibAfter(m, good) /\ m.what \in Requests
          /\ hist' = IF m.what \in {"start", "restart", "stop"} /\ ~good THEN hist \cup {"startFailed"} ELSE hist
          /\ m.what = "start" => svc.polling
    BY <1>2, AnswersSwitch
  <2>3. hist' \cap {"startFailed", "registerRefused"} = {} => hist \cap {"startFailed", "registerRefused"} = {}
    BY <2>2
  <2>4. m.what \in RoleLabels(m.to) /\ m.to \in roles
    BY DEF Shape, MsgType
  <2>5. CASE m.what \in {"init", "fwInit", "deinit", "fwDeinit"} /\ good
    <3>1. ~lib'.cfg
      BY <1>0, <2>2, <2>5, LibAfterFacts
    <3>2. m.what # "deinit" => ~svc.on
      BY <2>5 DEF Late
    <3>3. m.what = "deinit" => "deinit" \in Doing
      <4> SUFFICES ASSUME m.what = "deinit" PROVE "deinit" \in Doing
        OBVIOUS
      <4>1. m.to = "service"
        BY <2>4, RoleOf DEF ServiceLabels
      <4>2. thread["service"].pc = "deinit" /\ "service" \in roles
        BY <2>4, <4>1 DEF Asked, FrameOf
      <4>3. QED
        BY <4>2, DoingFacts DEF Mutex
    <3>4. QED
      BY <2>1, <3>1, <3>2, <3>3 DEF Listens, ListenerAlive
  <2>6. CASE m.what = "start" /\ good
    <3>1. lib'.listener = lib.listener
      BY <1>0, <2>2, <2>6, LibAfterFacts
    <3>2. svc.polling /\ svc.on /\ Doing \cap {"register", "deinit"} = {}
      <4>1. m.to = "service"
        BY <2>4, <2>6, RoleOf DEF ServiceLabels, RouteLabels
      <4>2. thread["service"].pc = "start" /\ "service" \in roles
        BY <2>4, <2>6, <4>1 DEF Asked, FrameOf
      <4>3. "start" \in Doing /\ Doing \cap {"register", "deinit"} = {}
        BY <4>2, DoingFacts, RestFacts DEF Mutex
      <4>4. QED
        BY <2>2, <2>6, <4>3 DEF Switch, RouteLabels
    <3>3. QED
      BY <2>1, <2>3, <3>1, <3>2 DEF Listens, ListenerAlive
  <2>7. CASE ~(m.what \in {"init", "fwInit", "deinit", "fwDeinit", "start"} /\ good)
    <3>1. lib'.listener = lib.listener /\ (lib'.cfg = lib.cfg \/ ~lib'.cfg)
      BY <1>0, <2>2, <2>7, LibAfterFacts
    <3>2. QED
      BY <2>1, <2>3, <3>1 DEF Listens, ListenerAlive
  <2>8. QED
    BY <2>5, <2>6, <2>7
<1>3. CASE Aborts
  <2>1. lib' = LibOff /\ svc' = SvcOff
    BY <1>3, AbortsFresh
  <2>2. ~svc'.on
    BY <2>1 DEF SvcOff
  <2>3. QED
    BY <2>1, <2>2, LibOffFacts DEF Listens, ListenerAlive
<1>4. CASE "service" \in roles /\ Step("service")
  BY <1>4, ServiceListens
<1>5. CASE ~ServiceCalls /\ ~answers /\ ~Aborts /\ ~("service" \in roles /\ Step("service"))
  BY <1>5, ServiceKept DEF Listens, ListenerAlive
<1>6. QED
  BY <1>1, <1>2, <1>3, <1>4, <1>5

\* The controller polls only with the listener of discovery, and not with
\* that of the element, whose frame is gone: unless libnfc failed a start or
\* a stop, or refused to register it.
THEOREM ListenerCorrect == Spec => []ListenerAlive
<1> DEFINE Inv == Shape /\ Asked /\ ClientInv /\ Switch /\ Quiet /\ Steps /\ Late /\ Listens /\ ListenerAlive
<1>1. Init => Inv
  <2> SUFFICES ASSUME Init PROVE Inv
    OBVIOUS
  <2>1. Shape /\ Fresh /\ msgs = {} /\ \A t \in Threads : thread[t] = IdleThread
    BY InitFresh DEF Fresh
  <2>2. Asked
    BY <2>1 DEF Asked, IdleThread, NewFrame, Frames
  <2>3. ClientInv
    BY <2>1, InitFresh, FreshClient
  <2>4. Switch /\ Quiet
    BY InitFresh, FreshSwitch
  <2>5. Doing = {}
    BY <2>1, IdleFacts, ThreadsOfRoles DEF Doing, Shape
  <2>6. Steps /\ Late
    BY <2>1, <2>5 DEF Steps, Late
  <2>7. Listens /\ ListenerAlive
    <3>1. CASE lib = LibOff /\ svc = SvcOff
      <4>1. ~svc.on
        BY <3>1 DEF SvcOff
      <4>2. QED
        BY <3>1, <4>1, LibOffFacts DEF Listens, ListenerAlive
    <3>2. CASE lib = FirstOn
      <4>1. lib.listener = "discovery"
        BY <3>2, LibOffFacts DEF FirstOn, LibOff
      <4>2. QED
        BY <4>1 DEF Listens, ListenerAlive
    <3>3. QED
      BY <3>1, <3>2, InitFresh
  <2>8. QED
    BY <2>1, <2>2, <2>3, <2>4, <2>6, <2>7
<1>2. Inv /\ [Next]_vars => Inv'
  <2> SUFFICES ASSUME Shape, Asked, ClientInv, Switch, Quiet, Steps, Late, Listens, ListenerAlive, [Next]_vars
               PROVE  /\ Shape' /\ Asked' /\ ClientInv' /\ Switch' /\ Quiet'
                      /\ Steps' /\ Late' /\ Listens' /\ ListenerAlive'
    OBVIOUS
  <2>1. Phases
    BY DEF ClientInv
  <2>2. Shape' /\ Asked' /\ ClientInv' /\ Switch' /\ Quiet'
    BY <2>1, NextShape, NextAsked, NextClient, NextSwitch, NextQuiet
  <2>3. Steps' /\ Late' /\ Listens' /\ ListenerAlive'
    BY <2>1, NextSteps, NextLate, NextListens
  <2>4. QED
    BY <2>2, <2>3
<1>3. Inv => ListenerAlive
  OBVIOUS
<1>4. QED
  BY <1>1, <1>2, <1>3, PTL DEF Spec

-----------------------------------------------------------------------------
(* Timeouts *)

Pow(n) == 2^n

\* The powers of two that the registers can stand for.
LEMMA Powers ==
    /\ Pow(0) = 1 /\ Pow(1) = 2 /\ Pow(2) = 4 /\ Pow(3) = 8 /\ Pow(4) = 16
    /\ Pow(5) = 32 /\ Pow(6) = 64 /\ Pow(7) = 128 /\ Pow(8) = 256 /\ Pow(9) = 512
    /\ Pow(10) = 1024 /\ Pow(11) = 2048 /\ Pow(12) = 4096 /\ Pow(13) = 8192 /\ Pow(14) = 16384
    /\ \A n \in 0..20 : Pow(n) \in Nat
<1>1. /\ Pow(0) = 1 /\ Pow(1) = 2 /\ Pow(2) = 4 /\ Pow(3) = 8 /\ Pow(4) = 16
      /\ Pow(5) = 32 /\ Pow(6) = 64 /\ Pow(7) = 128 /\ Pow(8) = 256 /\ Pow(9) = 512
      /\ Pow(10) = 1024 /\ Pow(11) = 2048 /\ Pow(12) = 4096 /\ Pow(13) = 8192 /\ Pow(14) = 16384
  BY DEF Pow
<1>2. Pow(15) = 32768 /\ Pow(16) = 65536 /\ Pow(17) = 131072 /\ Pow(18) = 262144 /\ Pow(19) = 524288 /\ Pow(20) = 1048576
  BY DEF Pow
<1>3. ASSUME NEW n \in 0..20 PROVE Pow(n) \in Nat
  <2>1. n \in {0, 1, 2, 3, 4, 5, 6, 7, 8, 9, 10, 11, 12, 13, 14, 15, 16, 17, 18, 19, 20}
    OBVIOUS
  <2>2. QED
    BY <1>1, <1>2, <2>1
<1>4. QED
  BY <1>1, <1>3

\* The logarithm of a number that is between two powers.
LEMMA LogIs ==
    ASSUME NEW v, NEW n \in 0..20, v <= Pow(n), n = 0 \/ Pow(n - 1) < v
    PROVE  log2(v) \in 0..20 /\ v <= Pow(log2(v))
  BY Zenon DEF log2, Pow

\* The logarithm is rounded up.
LEMMA Log2Bounds ==
    ASSUME NEW v \in Nat, v <= 16384
    PROVE  log2(v) \in 0..20 /\ v <= Pow(log2(v))
<1>1. CASE v <= 1
  BY <1>1, LogIs, Powers
<1>2. ASSUME NEW k \in 1..14, Pow(k - 1) < v, v <= Pow(k) PROVE log2(v) \in 0..20 /\ v <= Pow(log2(v))
  <2>1. k \in 0..20
    OBVIOUS
  <2>2. QED
    BY <1>2, <2>1, LogIs
<1>3. /\ 1 - 1 = 0 /\ 2 - 1 = 1 /\ 3 - 1 = 2 /\ 4 - 1 = 3 /\ 5 - 1 = 4 /\ 6 - 1 = 5 /\ 7 - 1 = 6
      /\ 8 - 1 = 7 /\ 9 - 1 = 8 /\ 10 - 1 = 9 /\ 11 - 1 = 10 /\ 12 - 1 = 11 /\ 13 - 1 = 12 /\ 14 - 1 = 13
  OBVIOUS
<1>4. \/ v <= 1
      \/ (Pow(1 - 1) < v /\ v <= Pow(1)) \/ (Pow(2 - 1) < v /\ v <= Pow(2)) \/ (Pow(3 - 1) < v /\ v <= Pow(3))
      \/ (Pow(4 - 1) < v /\ v <= Pow(4)) \/ (Pow(5 - 1) < v /\ v <= Pow(5)) \/ (Pow(6 - 1) < v /\ v <= Pow(6))
      \/ (Pow(7 - 1) < v /\ v <= Pow(7)) \/ (Pow(8 - 1) < v /\ v <= Pow(8)) \/ (Pow(9 - 1) < v /\ v <= Pow(9))
      \/ (Pow(10 - 1) < v /\ v <= Pow(10)) \/ (Pow(11 - 1) < v /\ v <= Pow(11)) \/ (Pow(12 - 1) < v /\ v <= Pow(12))
      \/ (Pow(13 - 1) < v /\ v <= Pow(13)) \/ (Pow(14 - 1) < v /\ v <= Pow(14))
  BY <1>3, Powers
<1>5. \A k \in {1, 2, 3, 4, 5, 6, 7, 8, 9, 10, 11, 12, 13, 14} : k \in 1..14
  OBVIOUS
<1>6. QED
  BY <1>1, <1>2, <1>4, <1>5

\* What the controller waits is at least what was asked for, and not off.
LEMMA CalcEnough ==
    ASSUME NEW ms \in Nat, 0 < ms, ms <= 4900
    PROVE  calcTimeout(ms) # 0 /\ InMs(calcTimeout(ms)) \in Nat /\ InMs(calcTimeout(ms)) >= ms
<1>1. PICK v \in Nat : v = (ms * 13560 + 4095) \div 4096
  OBVIOUS
<1>2. 1 < v /\ v <= 16384 /\ v * 4096 >= ms * 13560
  BY <1>1
<1>3. PICK x \in 0..20 : x = log2(v) /\ v <= Pow(x)
  BY <1>2, Log2Bounds
<1>4. PICK p \in Nat : p = Pow(x)
  BY Powers
<1>5. x # 0
  BY <1>2, <1>3, Powers
<1>6. 4096 * p >= ms * 13560
  BY <1>2, <1>3, <1>4
<1>7. (4096 * p) \div 13560 \in Nat /\ (4096 * p) \div 13560 >= ms
  BY <1>6
<1>8. calcTimeout(ms) = x
  BY <1>1, <1>3 DEF calcTimeout
<1>9. InMs(x) = (4096 * p) \div 13560
  BY <1>4 DEF InMs, Pow
<1>10. QED
  BY <1>5, <1>7, <1>8, <1>9

\* The registers of the controller and what was asked for last.
TimeoutInv ==
    /\ DOMAIN nat.timeouts = {"raw", "iso", "felica", "hci"}
    /\ TimeoutKept

LEMMA SetEnough ==
    ASSUME NEW r, DOMAIN r = {"raw", "iso", "felica", "hci"}, NEW ms \in Nat, 0 < ms
    PROVE  /\ doGetTimeout(setNfcATimeout(r, ms), "raw") >= ms
           /\ doGetTimeout(setIsoDepTimeout(r, ms), "iso") >= ms
           /\ doGetTimeout(setFelicaTimeout(r, ms), "felica") >= ms
           /\ \A s \in {setNfcATimeout(r, ms), setIsoDepTimeout(r, ms), setFelicaTimeout(r, ms)} : DOMAIN s = DOMAIN r
<1>1. /\ \A s \in {setNfcATimeout(r, ms), setIsoDepTimeout(r, ms), setFelicaTimeout(r, ms)} : DOMAIN s = DOMAIN r
  BY DEF setNfcATimeout, setIsoDepTimeout, setFelicaTimeout
<1>2. ASSUME ms <= 4900
      PROVE  doGetTimeout(setNfcATimeout(r, ms), "raw") >= ms /\ doGetTimeout(setIsoDepTimeout(r, ms), "iso") >= ms
  <2>1. PICK x : x = calcTimeout(ms)
    OBVIOUS
  <2>2. x # 0 /\ InMs(x) >= ms
    BY <1>2, <2>1, CalcEnough
  <2>3. setNfcATimeout(r, ms) = [r EXCEPT !.raw = x] /\ setIsoDepTimeout(r, ms) = [r EXCEPT !.iso = x, !.hci = InMs(x) + 501]
    BY <1>2, <2>1 DEF setNfcATimeout, setIsoDepTimeout
  <2>4. setNfcATimeout(r, ms).raw = x /\ setIsoDepTimeout(r, ms).iso = x
    BY <2>3
  <2>5. doGetTimeout(setNfcATimeout(r, ms), "raw") = InMs(x) /\ doGetTimeout(setIsoDepTimeout(r, ms), "iso") = InMs(x)
    BY <2>2, <2>4 DEF doGetTimeout
  <2>6. QED
    BY <2>2, <2>5
<1>3. ASSUME ms > 4900
      PROVE  doGetTimeout(setNfcATimeout(r, ms), "raw") >= ms /\ doGetTimeout(setIsoDepTimeout(r, ms), "iso") >= ms
  <2>1. setNfcATimeout(r, ms) = [r EXCEPT !.raw = 0, !.hci = ms] /\ setIsoDepTimeout(r, ms) = [r EXCEPT !.iso = 0, !.hci = ms]
    BY <1>3 DEF setNfcATimeout, setIsoDepTimeout
  <2>2. doGetTimeout(setNfcATimeout(r, ms), "raw") = ms /\ doGetTimeout(setIsoDepTimeout(r, ms), "iso") = ms
    BY <2>1 DEF doGetTimeout
  <2>3. QED
    BY <1>3, <2>2
<1>4. doGetTimeout(setFelicaTimeout(r, ms), "felica") >= ms
  BY DEF doGetTimeout, setFelicaTimeout
<1>5. doGetTimeout(setNfcATimeout(r, ms), "raw") >= ms /\ doGetTimeout(setIsoDepTimeout(r, ms), "iso") >= ms
  BY <1>2, <1>3
<1>6. QED
  BY <1>1, <1>4, <1>5

\* A step but for those of timeouts leaves them and what was asked for, or
\* forgets the latter.
LEMMA TimesKept ==
    ASSUME NatOK, TimeoutInv,
           \/ UNCHANGED nat
           \/ nat'.asked = nat.asked /\ nat'.timeouts = nat.timeouts
           \/ nat'.asked = None /\ DOMAIN nat'.timeouts = {"raw", "iso", "felica", "hci"}
    PROVE  TimeoutInv'
BY DEF TimeoutInv, TimeoutKept

LEMMA ResetFacts ==
    ASSUME NatOK
    PROVE  /\ ResetTimeouts.asked = None /\ DOMAIN ResetTimeouts.timeouts = {"raw", "iso", "felica", "hci"}
           /\ DOMAIN ResetTimeouts = DOMAIN nat
           /\ \A l : \/ Prepared(l) = nat
                     \/ Prepared(l).asked = nat.asked /\ Prepared(l).timeouts = nat.timeouts
                     \/ Prepared(l).asked = None /\ DOMAIN Prepared(l).timeouts = {"raw", "iso", "felica", "hci"}
<1>1. /\ ResetTimeouts.asked = None /\ DOMAIN ResetTimeouts.timeouts = {"raw", "iso", "felica", "hci"}
      /\ DOMAIN ResetTimeouts = DOMAIN nat
  BY DEF ResetTimeouts, NatOK, DefaultTimeouts
<1>2. ASSUME NEW l
      PROVE  \/ Prepared(l) = nat
             \/ Prepared(l).asked = nat.asked /\ Prepared(l).timeouts = nat.timeouts
             \/ Prepared(l).asked = None /\ DOMAIN Prepared(l).timeouts = {"raw", "iso", "felica", "hci"}
  <2>1. CASE l \in {"start", "restart"}
    <3> DEFINE r == ResetTimeouts
    <3>1. r.asked = None /\ DOMAIN r.timeouts = {"raw", "iso", "felica", "hci"} /\ DOMAIN r = DOMAIN nat
      BY <1>1
    <3>2. Prepared(l) = [r EXCEPT !.flag = FALSE]
      BY <2>1 DEF Prepared
    <3> HIDE DEF r
    <3>3. QED
      BY <3>1, <3>2 DEF NatOK
  <2>2. CASE l = "tagDisconnect"
    BY <1>1, <2>2 DEF Prepared
  <2>3. CASE l = "check"
    BY <2>3 DEF Prepared, NatOK
  <2>4. CASE l \notin {"start", "restart", "tagDisconnect", "check"}
    BY <2>4 DEF Prepared
  <2>5. QED
    BY <2>1, <2>2, <2>3, <2>4
<1>3. QED
  BY <1>1, <1>2

LEMMA StepTimes ==
    ASSUME Shape, TimeoutInv, NEW t \in roles, Step(t)
    PROVE  TimeoutInv'
<1>1. NatOK
  BY DEF Shape, TypeInv
<1>2. CASE timeoutStep(t)
  <2>1. CASE nat' = ResetTimeouts
    BY <1>1, <2>1, ResetFacts, TimesKept
  <2>2. CASE \E ms \in Timeouts \ {0} :
               \/ nat' = [nat EXCEPT !.timeouts = setNfcATimeout(@, ms), !.asked = <<"raw", ms>>]
               \/ nat' = [nat EXCEPT !.timeouts = setIsoDepTimeout(@, ms), !.asked = <<"iso", ms>>]
               \/ nat' = [nat EXCEPT !.timeouts = setFelicaTimeout(@, ms), !.asked = <<"felica", ms>>]
    <3>1. PICK ms \in Timeouts \ {0} :
               \/ nat' = [nat EXCEPT !.timeouts = setNfcATimeout(nat.timeouts, ms), !.asked = <<"raw", ms>>]
               \/ nat' = [nat EXCEPT !.timeouts = setIsoDepTimeout(nat.timeouts, ms), !.asked = <<"iso", ms>>]
               \/ nat' = [nat EXCEPT !.timeouts = setFelicaTimeout(nat.timeouts, ms), !.asked = <<"felica", ms>>]
      BY <2>2
    <3>2. ms \in Nat /\ 0 < ms
      BY TimeoutsAssumption
    <3> DEFINE r == nat.timeouts
               a == setNfcATimeout(r, ms)
               i == setIsoDepTimeout(r, ms)
               f == setFelicaTimeout(r, ms)
    <3>3. /\ doGetTimeout(a, "raw") >= ms /\ doGetTimeout(i, "iso") >= ms /\ doGetTimeout(f, "felica") >= ms
          /\ \A s \in {a, i, f} : DOMAIN s = {"raw", "iso", "felica", "hci"}
      BY <3>2, SetEnough DEF TimeoutInv
    <3>4. \/ nat' = [nat EXCEPT !.timeouts = a, !.asked = <<"raw", ms>>]
          \/ nat' = [nat EXCEPT !.timeouts = i, !.asked = <<"iso", ms>>]
          \/ nat' = [nat EXCEPT !.timeouts = f, !.asked = <<"felica", ms>>]
      BY <3>1
    <3> HIDE DEF a, i, f
    <3>5. \/ nat'.timeouts = a /\ nat'.asked = <<"raw", ms>>
          \/ nat'.timeouts = i /\ nat'.asked = <<"iso", ms>>
          \/ nat'.timeouts = f /\ nat'.asked = <<"felica", ms>>
      BY <1>1, <3>4 DEF NatOK
    <3>6. QED
      BY <3>3, <3>5 DEF TimeoutInv, TimeoutKept
  <2>3. QED
    BY <1>2, <2>1, <2>2 DEF timeoutStep
<1>3. CASE accepts(t)
  <2>1. nat' = Prepared(thread[t].pc)
    BY <1>3 DEF accepts
  <2>2. QED
    BY <1>1, <2>1, ResetFacts, TimesKept
<1>4. CASE refuses(t)
  <2>1. nat' = IF thread[t].pc = "check" THEN [nat EXCEPT !.data = "freed"] ELSE Prepared(thread[t].pc)
    BY <1>4 DEF refuses
  <2>2. CASE thread[t].pc = "check"
    <3>1. nat'.asked = nat.asked /\ nat'.timeouts = nat.timeouts
      BY <1>1, <2>1, <2>2 DEF NatOK
    <3>2. QED
      BY <1>1, <3>1, TimesKept
  <2>3. CASE thread[t].pc # "check"
    BY <1>1, <2>1, <2>3, ResetFacts, TimesKept
  <2>4. QED
    BY <2>2, <2>3
<1>5. CASE released(t) \/ configure(t) \/ unconfigure(t) \/ initFails(t) \/ deinitialized(t)
  <2>1. nat'.asked = nat.asked /\ nat'.timeouts = nat.timeouts
    BY <1>1, <1>5 DEF released, configure, unconfigure, initFails, deinitialized, Killed, NatOK
  <2>2. QED
    BY <1>1, <2>1, TimesKept
<1>6. CASE \/ takeLock(t) \/ giveLock(t) \/ wakes(t) \/ activate(t) \/ ignored(t) \/ accept(t) \/ connected(t)
           \/ seCheck(t) \/ seRegister(t) \/ awaitElement(t) \/ gpioRefused(t)
           \/ seFailed(t) \/ seOpened(t) \/ seClosed(t) \/ fwFailed(t) \/ seListen(t)
           \/ enabled(t) \/ register(t) \/ fwDeinitTimesOut(t)
  <2>1. UNCHANGED nat
    BY <1>6 DEF takeLock, giveLock, wakes, activate, ignored, accept, connected, seCheck, seRegister, awaitElement,
                gpioRefused, seFailed, seOpened, seClosed, fwFailed, seListen, enabled, register, fwDeinitTimesOut,
                adapter
  <2>2. QED
    BY <1>1, <2>1, TimesKept
<1>7. QED
  BY <1>2, <1>3, <1>4, <1>5, <1>6 DEF Step

LEMMA NextTimes ==
    ASSUME Shape, TimeoutInv, [Next]_vars
    PROVE  TimeoutInv'
<1>1. NatOK
  BY DEF Shape, TypeInv
<1>2. CASE UNCHANGED vars \/ Calls \/ answers \/ RemoteLeaves \/ \E t \in Servers : listenCallback(t)
  <2>1. UNCHANGED nat
    <3>1. CASE UNCHANGED vars \/ answers \/ RemoteLeaves \/ \E t \in Servers : listenCallback(t)
      BY <3>1, AnswersStep DEF vars, adapter, RemoteLeaves, listenCallback
    <3>2. CASE Calls
      BY <3>2, ServiceCallsStep, OtherCallsStep, SocketSteps DEF Calls, adapter
    <3>3. QED
      BY <1>2, <3>1, <3>2
  <2>2. QED
    BY <1>1, <2>1, TimesKept
<1>3. CASE clientStops \/ linkStatus \/ Discovered
  <2>1. nat'.asked = nat.asked /\ nat'.timeouts = nat.timeouts
    BY <1>1, <1>3 DEF clientStops, linkStatus, Discovered, NatOK
  <2>2. QED
    BY <1>1, <2>1, TimesKept
<1>4. CASE Aborts
  <2>1. nat' = NatOff
    BY <1>4 DEF Aborts
  <2>2. nat'.asked = None /\ DOMAIN nat'.timeouts = {"raw", "iso", "felica", "hci"}
    BY <2>1 DEF NatOff, DefaultTimeouts
  <2>3. QED
    BY <1>1, <2>2, TimesKept
<1>5. CASE \E t \in roles : Step(t)
  BY <1>5, StepTimes
<1>6. QED
  BY <1>2, <1>3, <1>4, <1>5 DEF Next, Events

\* The timeout last asked for is the one read back, rounded up: whatever the
\* register, its power of two is not below what was asked for, and a longer
\* timeout turns the register off and goes to the host's timer.
THEOREM TimeoutCorrect == Spec => []TimeoutKept
<1> DEFINE Inv == Shape /\ TimeoutInv
<1>1. Init => Inv
  <2> SUFFICES ASSUME Init PROVE Inv
    OBVIOUS
  <2>1. nat = NatOff \/ nat = [NatOff EXCEPT !.driver = TRUE, !.clients = 1]
    BY DEF Init
  <2>2. NatOff.asked = None /\ NatOff.timeouts = DefaultTimeouts
    BY DEF NatOff
  <2>3. [NatOff EXCEPT !.driver = TRUE, !.clients = 1].asked = NatOff.asked
        /\ [NatOff EXCEPT !.driver = TRUE, !.clients = 1].timeouts = NatOff.timeouts
    BY DEF NatOff
  <2>4. DOMAIN DefaultTimeouts = {"raw", "iso", "felica", "hci"}
    BY DEF DefaultTimeouts
  <2>5. QED
    BY <2>1, <2>2, <2>3, <2>4, InitFresh DEF TimeoutInv, TimeoutKept
<1>2. Inv /\ [Next]_vars => Inv'
  BY NextShape, NextTimes
<1>3. Inv => TimeoutKept
  BY DEF TimeoutInv
<1>4. QED
  BY <1>1, <1>2, <1>3, PTL DEF Spec

-----------------------------------------------------------------------------
(* The polling loop *)

\* With the polling loop on, the controller polls, or is about to.
Polls == hist = {} /\ svc.on /\ svc.polling /\ ~StartLeft /\ "deinit" \notin Doing => lib.cfg

LEMMA CallsPolls ==
    ASSUME Shape, Switch, Polls, ServiceCalls
    PROVE  Polls'
<1>1. SvcOK
  BY DEF Shape, TypeInv
<1>2. PICK p :
        /\ Starts("service", p)
        /\ \/ ~svc.on /\ UNCHANGED svc
           \/ Names(p) = {"deinit"}
           \/ \E polling \in BOOLEAN :
                /\ svc' = [svc EXCEPT !.polling = polling]
                /\ Names(p) = {"register", "seMode", IF polling THEN "start" ELSE "stop"}
           \/ Names(p) = {"start"}
           \/ svc' = [svc EXCEPT !.polling = FALSE, !.restore = svc.polling]
           \/ svc.ee /\ UNCHANGED svc
  BY ServiceCallsStep
<1>3. /\ UNCHANGED <<lib, hist, roles>> /\ "service" \in roles /\ Doing' = Names(p) /\ ~Answered(thread'["service"])
  BY <1>2, ServiceCallsStep DEF Starts, Doing, Answered
<1>4. StartLeft' <=> "start" \in Names(p)
  BY <1>3 DEF StartLeft
<1>5. CASE UNCHANGED svc /\ (~svc.on \/ svc.ee)
  BY <1>5 DEF Polls, Switch
<1>6. CASE Names(p) = {"deinit"} \/ Names(p) = {"start"}
  BY <1>3, <1>4, <1>6 DEF Polls
<1>7. CASE \E polling \in BOOLEAN :
             /\ svc' = [svc EXCEPT !.polling = polling]
             /\ Names(p) = {"register", "seMode", IF polling THEN "start" ELSE "stop"}
  <2>1. PICK polling \in BOOLEAN :
          /\ svc' = [svc EXCEPT !.polling = polling]
          /\ Names(p) = {"register", "seMode", IF polling THEN "start" ELSE "stop"}
    BY <1>7
  <2>2. svc'.polling = polling
    BY <1>1, <2>1 DEF SvcOK
  <2>3. polling => "start" \in Names(p)
    BY <2>1
  <2>4. QED
    BY <1>4, <2>2, <2>3 DEF Polls
<1>8. CASE svc' = [svc EXCEPT !.polling = FALSE, !.restore = svc.polling]
  <2>1. ~svc'.polling
    BY <1>1, <1>8 DEF SvcOK
  <2>2. QED
    BY <2>1 DEF Polls
<1>9. QED
  BY <1>2, <1>5, <1>6, <1>7, <1>8

LEMMA AnswersPolls ==
    ASSUME Shape, Asked, Switch, Late, Polls, answers
    PROVE  Polls'
<1>1. UNCHANGED <<svc, roles>> /\ Doing' = Doing /\ LibOK
  BY AnswersSwitch DEF Shape, TypeInv
<1>2. PICK m \in msgs, good \in BOOLEAN :
        /\ lib' = LibAfter(m, good) /\ m.what \in Requests
        /\ hist' = IF m.what \in {"start", "restart", "stop"} /\ ~good THEN hist \cup {"startFailed"} ELSE hist
        /\ m.what # "start" => (StartLeft' <=> StartLeft)
        /\ m.what = "stop" => "stop" \in Doing
  BY AnswersSwitch
<1>3. m.what \in RoleLabels(m.to) /\ m.to \in roles
  BY DEF Shape, MsgType
<1>4. hist' = {} => hist = {} /\ ~(m.what \in {"start", "restart", "stop"} /\ ~good)
  BY <1>2
<1>5. CASE m.what \in {"init", "fwInit", "fwDeinit"}
  BY <1>1, <1>5 DEF Late, Polls
<1>6. CASE m.what = "deinit"
  <2>1. m.to = "service"
    BY <1>3, <1>6, RoleOf DEF ServiceLabels
  <2>2. thread["service"].pc = "deinit" /\ "service" \in roles
    BY <1>3, <1>6, <2>1 DEF Asked, FrameOf
  <2>3. "deinit" \in Doing
    BY <2>2, DoingFacts DEF Mutex
  <2>4. QED
    BY <1>1, <2>3 DEF Polls
<1>7. CASE m.what = "start"
  BY <1>1, <1>2, <1>4, <1>7, LibAfterFacts DEF Polls
<1>8. CASE m.what = "stop"
  BY <1>1, <1>2, <1>8 DEF Polls, Switch
<1>9. CASE m.what \notin {"init", "fwInit", "fwDeinit", "deinit", "start", "stop"}
  <2>1. lib'.cfg = lib.cfg
    BY <1>1, <1>2, <1>9, LibAfterFacts
  <2>2. QED
    BY <1>1, <1>2, <1>4, <1>9, <2>1 DEF Polls
<1>10. QED
  BY <1>5, <1>6, <1>7, <1>8, <1>9

LEMMA ServicePolls ==
    ASSUME Shape, Asked, Phases, Switch, Polls, "service" \in roles, Step("service")
    PROVE  Polls'
<1> DEFINE c == thread["service"]
           l == c.pc
           R == Names(c.rest)
<1>0. SvcOK /\ UNCHANGED roles /\ lib'.cfg = lib.cfg
  BY StepKeeps DEF Shape, TypeInv, StepFrame
<1>1. CASE UNCHANGED <<lib, svc>> /\ hist \subseteq hist' /\ Doing' = Doing /\ (StartLeft' <=> StartLeft)
  BY <1>1 DEF Polls
<1>2. CASE ServiceEffect /\ \E p : Moves("service", p) /\ ServiceGoes(p)
  <2>1. PICK p : Moves("service", p) /\ ServiceGoes(p)
    BY <1>2
  <2>2. Doing' = Names(p)
    BY <1>0, <1>2, <2>1, ServiceSwitch
  <2>3. StartLeft' <=> "start" \in Names(p)
    BY <2>1, <2>2 DEF StartLeft, Moves, Answered
  <2>4. /\ hist \subseteq hist' /\ (l = "start" => Answered(c))
        /\ l \notin {"seClosed", "enabled"} => svc'.polling = (svc.polling \/ (l = "seFailed" /\ svc.restore))
        /\ l \notin {"enabled", "deinit"} => svc'.on = svc.on
        /\ l = "deinit" => ~svc'.on
    BY <1>2 DEF ServiceEffect, SwitchEffect
  <2>5. Doing = ({l} \ Mutex) \cup R /\ (l \notin Mutex => l \in Doing)
    BY DoingFacts
  <2>6. SUFFICES ASSUME hist' = {}, svc'.on, svc'.polling, "start" \notin Names(p), l # "deinit",
                        "deinit" \notin Names(p)
                 PROVE  lib.cfg
    BY <1>0, <2>2, <2>3, <2>4 DEF Polls
  <2>7. hist = {}
    BY <2>4, <2>6
  <2>8. l \notin {"seClosed", "enabled"}
    <3> SUFFICES ASSUME l \in {"seClosed", "enabled"} PROVE FALSE
      OBVIOUS
    <3>1. /\ l \notin {"register", "seFailed"} /\ l \notin OpenAsks \cup {"seCheck", "seRegister"} /\ l \notin CloseAsks
          /\ l \notin InitLabels \ {"configure", "enabled"}
      BY DEF OpenAsks, CloseAsks, InitLabels
    <3>2. "start" \in Names(p)
      BY <2>1, <2>6, <3>1 DEF ServiceGoes
    <3>3. QED
      BY <2>6, <3>2
  <2>9. l \notin OpenLabels
    <3> SUFFICES ASSUME l \in OpenLabels PROVE FALSE
      OBVIOUS
    <3>1. l \in Doing
      BY <2>5 DEF OpenLabels, Mutex
    <3>2. ~svc.polling
      BY <3>1 DEF Switch
    <3>3. l = "seFailed" /\ svc.restore
      BY <1>0, <2>4, <2>6, <2>8, <3>2 DEF SvcOK
    <3>4. /\ l \notin OpenAsks \cup {"seCheck", "seRegister"} /\ l \notin CloseAsks
          /\ l \notin InitLabels \ {"configure", "enabled"}
      BY <3>3 DEF OpenAsks, CloseAsks, InitLabels
    <3>5. Names(p) = {"register", "start"}
      BY <2>1, <3>3, <3>4 DEF ServiceGoes
    <3>6. QED
      BY <2>6, <3>5
  <2>10. l \notin InitLabels \ {"configure", "enabled"}
    <3> SUFFICES ASSUME l \in InitLabels \ {"configure", "enabled"} PROVE FALSE
      OBVIOUS
    <3>1. l \in Doing /\ l \in InitLabels
      BY <2>5 DEF InitLabels, Mutex
    <3>2. ~svc.on
      BY <3>1 DEF Switch
    <3>3. QED
      BY <2>4, <2>6, <3>2
  <2>11. svc.on /\ svc.polling
    BY <1>0, <2>4, <2>6, <2>8, <2>9 DEF SvcOK, OpenLabels
  <2>12. ~StartLeft /\ "deinit" \notin Doing
    <3>1. CASE l \in CloseAsks
      <4>1. l \in CloseLabels \ {"seAsk"} /\ l \notin {"start", "deinit"} /\ l \in Doing
        BY <2>5, <3>1 DEF CloseAsks, CloseLabels, Mutex
      <4>2. "start" \notin Doing
        BY <2>5, <4>1, RestFacts
      <4>3. QED
        BY <4>1, <4>2 DEF StartLeft, Phases
    <3>2. CASE l \notin CloseAsks
      <4>1. l \notin OpenAsks \cup {"seCheck", "seRegister"}
        BY <2>9 DEF OpenAsks, OpenLabels
      <4>2. Names(p) = R
        BY <2>1, <2>6, <2>8, <2>9, <2>10, <3>2, <4>1 DEF ServiceGoes, OpenLabels
      <4>3. QED
        BY <2>4, <2>5, <2>6, <4>2 DEF StartLeft
    <3>3. QED
      BY <3>1, <3>2
  <2>13. QED
    BY <2>7, <2>11, <2>12 DEF Polls
<1>3. QED
  BY <1>1, <1>2, ServiceDoes

LEMMA NextPolls ==
    ASSUME Shape, Asked, Phases, Switch, Late, Polls, [Next]_vars
    PROVE  Polls'
<1>1. CASE Aborts
  <2>1. svc' = SvcOff
    BY <1>1, AbortsFresh
  <2>2. ~svc'.on
    BY <2>1 DEF SvcOff
  <2>3. QED
    BY <2>2 DEF Polls
<1>2. CASE ~ServiceCalls /\ ~answers /\ ~Aborts /\ ~("service" \in roles /\ Step("service"))
  BY <1>2, ServiceKept DEF Polls
<1>3. QED
  BY <1>1, <1>2, CallsPolls, AnswersPolls, ServicePolls

-----------------------------------------------------------------------------
(* The device that libnfc holds *)

Devices == Tags \cup Peers

\* The requests whose answer releases the device.
Freeing == {"tagDisconnect", "p2pDisconnect", "restart"}

Held(t) == lib.target = t /\ t # None
Holds(t) == Held(t) /\ ~lib.passive

\* One of them is still to be made or answered; step l is done, and well.
FreeLeft(c) == \E k \in Freeing \cap Todo(c) : ~(c.pc = k /\ Answered(c))
Done(c, l) == l \notin Todo(c) \/ (c.pc = l /\ Answered(c) /\ c.frame["call"].ok)

\* What the call of a device is, given what became of the device.
CallFits(c, e) ==
    /\ e = "free" => Todo(c) = {}
    /\ "tagDisconnect" \in Todo(c) => e = "connected"
    /\ "connect" \in Todo(c) =>
         \/ c.pc = "lock" /\ c.rest = <<"connect", "connected", "unlock">>
         \/ c.pc = "connect" /\ c.rest = <<"connected", "unlock">>

\* A device that libnfc holds, and has not found by being found, is
\* connected when its thread has gone past the request to connect it.
Connects(c, e, conn) ==
    /\ e \in {"connected", "upTarget", "lost"} => conn
    /\ "connected" \in Todo(c) /\ Done(c, "connect") => conn
    /\ Todo(c) \cap {"check", "activate", "p2pDisconnect"} # {} /\ Done(c, "p2pConnect") => conn

\* A call that ends with such a device releases it first.
LetsGo(c, e) ==
    /\ e # "done"
    /\ Todo(c) \cap {"released", "ignored"} # {} => FreeLeft(c)

DeviceInv(t) ==
    /\ CallFits(thread[t], eps[t])
    /\ Held(t) => eps[t] # "free" /\ (eps[t] \in {"initiator", "upInitiator"} => lib.passive)
    /\ Holds(t) => Connects(thread[t], eps[t], lib.conn)
    /\ hist = {} /\ Holds(t) => LetsGo(thread[t], eps[t])

TargetInv == (lib.target = None \/ lib.target \in Devices) /\ \A t \in Devices : DeviceInv(t)

LEMMA SamePlan ==
    ASSUME NEW p \in Plan, NEW q \in Plan, Len(p) = Len(q), \A i \in 1..Len(p) : p[i] = q[i]
    PROVE  p = q
BY DEF Plan

LEMMA JoinedAt ==
    ASSUME NEW p \in Plan, NEW q \in Plan
    PROVE  /\ p \o q \in Plan /\ Len(p \o q) = Len(p) + Len(q)
           /\ \A i \in 1..Len(p) : (p \o q)[i] = p[i]
           /\ \A i \in 1..Len(q) : (p \o q)[Len(p) + i] = q[i]
BY DEF Plan

\* The plan of a connect, when its first step is taken.
LEMMA ConnectIs ==
    LET p == doConnect IN p # <<>> /\ p[1] = "lock" /\ Tail(p) = <<"connect", "connected", "unlock">>
<1> DEFINE l == <<"lock">>
           s == <<"connect", "connected">>
           u == <<"unlock">>
           r == <<"connect", "connected", "unlock">>
           p == (l \o s) \o u
<1>1. /\ l \in Plan /\ Len(l) = 1 /\ l[1] = "lock" /\ s \in Plan /\ Len(s) = 2 /\ s[1] = "connect" /\ s[2] = "connected"
      /\ u \in Plan /\ Len(u) = 1 /\ u[1] = "unlock"
      /\ r \in Plan /\ Len(r) = 3 /\ r[1] = "connect" /\ r[2] = "connected" /\ r[3] = "unlock"
  BY DEF Plan, Words, TagLabels
<1>2. doConnect = p
  BY DEF doConnect, Locked
<1> HIDE DEF l, s, u, r
<1> DEFINE h == l \o s
<1>3. h \in Plan /\ Len(h) = 3 /\ h[1] = "lock" /\ h[2] = "connect" /\ h[3] = "connected"
  <2>1. /\ h \in Plan /\ Len(h) = Len(l) + Len(s) /\ \A i \in 1..Len(l) : h[i] = l[i]
        /\ \A i \in 1..Len(s) : h[Len(l) + i] = s[i]
    BY <1>1, JoinedAt
  <2> HIDE DEF h
  <2>2. QED
    BY <1>1, <2>1
<1> HIDE DEF h
<1>4. p \in Plan /\ Len(p) = 4 /\ p[1] = "lock" /\ p[2] = "connect" /\ p[3] = "connected" /\ p[4] = "unlock"
  <2>1. p = h \o u
    BY DEF h
  <2>2. /\ h \o u \in Plan /\ Len(h \o u) = Len(h) + Len(u) /\ \A i \in 1..Len(h) : (h \o u)[i] = h[i]
        /\ \A i \in 1..Len(u) : (h \o u)[Len(h) + i] = u[i]
    BY <1>1, <1>3, JoinedAt
  <2> HIDE DEF p
  <2>3. QED
    BY <1>1, <1>3, <2>1, <2>2
<1> HIDE DEF p
<1>5. p # <<>>
  BY <1>4
<1> DEFINE t == Tail(p)
<1>6. t \in Plan /\ Len(t) = 3 /\ t[1] = p[1 + 1] /\ t[2] = p[2 + 1] /\ t[3] = p[3 + 1]
  BY <1>4, <1>5, PlanFacts
<1> HIDE DEF t
<1>7. t[1] = r[1] /\ t[2] = r[2] /\ t[3] = r[3]
  BY <1>1, <1>4, <1>6
<1>8. \A i \in 1..Len(t) : t[i] = r[i]
  BY <1>6, <1>7
<1>9. t = r
  BY <1>1, <1>6, <1>8, SamePlan
<1>10. QED
  BY <1>2, <1>4, <1>5, <1>9 DEF r, t

LEMMA DevicesAre ==
    ASSUME ContextInv
    PROVE  /\ Devices \subseteq roles /\ Devices \subseteq Threads /\ Devices \subseteq DeviceThreads
           /\ UNCHANGED roles => Devices' = Devices
           /\ DeviceThreads \cap roles = Devices
BY ThreadsOfRoles DEF Devices, Tags, Peers, DeviceThreads

\* A step that leaves a device and its thread alone, or releases it.
LEMMA DeviceSame ==
    ASSUME NEW t \in Devices, DeviceInv(t), eps'[t] = eps[t],
           \/ thread'[t] = thread[t]
           \/ /\ thread'[t].pc = thread[t].pc /\ thread'[t].rest = thread[t].rest
              /\ Answered(thread'[t]) <=> Answered(thread[t])
              /\ thread'[t].frame["call"] = thread[t].frame["call"],
           hist \subseteq hist',
           \/ lib'.target = lib.target /\ (lib'.passive <=> lib.passive) /\ (lib.conn => lib'.conn)
           \/ lib'.target = None
    PROVE  DeviceInv(t)'
<1> DEFINE c == thread[t]
           d == thread'[t]
           e == eps[t]
<1>1. /\ d.pc = c.pc /\ d.rest = c.rest /\ (Answered(d) <=> Answered(c)) /\ d.frame["call"] = c.frame["call"]
  OBVIOUS
<1>2. Todo(d) = Todo(c)
  BY <1>1 DEF Todo
<1>3. (FreeLeft(d) <=> FreeLeft(c)) /\ \A l : Done(d, l) <=> Done(c, l)
  BY <1>1, <1>2 DEF FreeLeft, Done
<1>4. CallFits(d, e) /\ (LetsGo(c, e) => LetsGo(d, e)) /\ (hist' = {} => hist = {})
  BY <1>1, <1>2, <1>3 DEF CallFits, LetsGo, DeviceInv
<1>5. CASE lib'.target = None
  BY <1>4, <1>5 DEF DeviceInv, Held, Holds
<1>6. CASE lib'.target = lib.target /\ (lib'.passive <=> lib.passive) /\ (lib.conn => lib'.conn)
  <2>1. (Held(t)' <=> Held(t)) /\ (Holds(t)' <=> Holds(t))
    BY <1>6 DEF Held, Holds
  <2>2. Connects(c, e, lib.conn) => Connects(d, e, lib'.conn)
    BY <1>2, <1>3, <1>6 DEF Connects
  <2>3. QED
    BY <1>4, <1>6, <2>1, <2>2 DEF DeviceInv
<1>7. QED
  BY <1>5, <1>6

\* The order of the steps of a device's call.
LEMMA DeviceOrder ==
    ASSUME Shape, NEW t \in Devices
    PROVE  LET c == thread[t]
               R == Names(c.rest)
           IN  /\ Todo(c) = ({c.pc} \ Mutex) \cup R
               /\ c.pc \in {"p2pDisconnect", "check", "activate"} => "p2pConnect" \notin R
               /\ c.pc \in {"activate", "released", "ignored"} =>
                    R \cap (Freeing \cup {"check", "activate", "released", "ignored"}) = {}
               /\ c.pc = "connected" => "connect" \notin R
               /\ c.pc \notin Mutex => c.pc \in RoleLabels(t)
               /\ c.pc # "idle" => t \in roles
<1> DEFINE c == thread[t]
           R == Names(c.rest)
<1>1. /\ Todo(c) = ({c.pc} \ Mutex) \cup R /\ Orderly(c) /\ t \in roles
      /\ c.pc \notin Mutex => c.pc \in RoleLabels(t)
  BY AtWork, DevicesAre DEF Shape
<1>2. \A b \in R : Fits(c.pc, b)
  BY <1>1 DEF Orderly
<1>3. \A a \in {"p2pDisconnect", "check", "activate"} : ~Fits(a, "p2pConnect")
  BY DEF Fits, Rank, Mutex
<1>4. \A a \in {"activate", "released", "ignored"}, b \in Freeing \cup {"check", "activate", "released", "ignored"} : ~Fits(a, b)
  BY DEF Fits, Rank, Mutex, Freeing
<1>5. ~Fits("connected", "connect")
  BY DEF Fits, Rank, Mutex
<1>6. QED
  BY <1>1, <1>2, <1>3, <1>4, <1>5

LEMMA DeviceMoves ==
    ASSUME NEW t, NEW p, Moves(t, p)
    PROVE  LET d == thread'[t]
           IN  /\ Todo(d) = Names(p) /\ ~Answered(d)
               /\ FreeLeft(d) <=> Names(p) \cap Freeing # {}
               /\ \A l : Done(d, l) <=> l \notin Names(p)
<1>1. Todo(thread'[t]) = Names(p) /\ ~Answered(thread'[t])
  BY DEF Moves, Answered
<1>2. QED
  BY <1>1 DEF FreeLeft, Done

\* A step of a device that goes on with its plan: a connection it asked for
\* is there, and a request that was to release it was answered.
LEMMA DeviceGoesOn ==
    ASSUME Shape, NEW t \in Devices, DeviceInv(t), NEW p, Moves(t, p), eps'[t] = eps[t],
           lib'.target = lib.target, lib'.passive <=> lib.passive, lib.conn => lib'.conn, hist \subseteq hist',
           LET c == thread[t]
               R == Names(c.rest)
           IN  /\ \/ Names(p) = R /\ (c.pc \in Freeing /\ Holds(t) /\ hist = {} => Answered(c))
                  \/ Names(p) = {"restart"} \cup R /\ c.pc \in {"tagDisconnect", "p2pDisconnect"}
               /\ c.pc \in {"connect", "p2pConnect"} => Answered(c) /\ c.frame["call"].ok
               /\ c.pc = "lock" => p = c.rest
    PROVE  DeviceInv(t)'
<1> DEFINE c == thread[t]
           d == thread'[t]
           e == eps[t]
           R == Names(c.rest)
<1>1. /\ Todo(d) = Names(p) /\ (FreeLeft(d) <=> Names(p) \cap Freeing # {})
      /\ \A l : Done(d, l) <=> l \notin Names(p)
  BY DeviceMoves
<1>2. Todo(c) = ({c.pc} \ Mutex) \cup R /\ R \subseteq Names(p)
  BY DeviceOrder
<1>3. CallFits(d, e)
  <2>1. e = "free" => Names(p) = {}
    BY <1>2 DEF DeviceInv, CallFits, Mutex
  <2>2. "tagDisconnect" \in Names(p) => e = "connected"
    BY <1>2 DEF DeviceInv, CallFits
  <2>3. ASSUME "connect" \in Names(p)
        PROVE  d.pc = "connect" /\ d.rest = <<"connected", "unlock">>
    <3>1. "connect" \in R
      BY <2>3
    <3>2. c.rest # <<"connected", "unlock">>
      BY <3>1 DEF Names
    <3>3. c.pc = "lock" /\ c.rest = <<"connect", "connected", "unlock">>
      BY <1>2, <3>1, <3>2 DEF DeviceInv, CallFits
    <3>4. p = <<"connect", "connected", "unlock">>
      BY <3>3
    <3>5. p # <<>> /\ p[1] = "connect" /\ Tail(p) = <<"connected", "unlock">>
      BY <3>4
    <3>6. QED
      BY <3>5 DEF Moves
  <2>4. QED
    BY <1>1, <2>1, <2>2, <2>3 DEF CallFits
<1>4. (Held(t)' <=> Held(t)) /\ (Holds(t)' <=> Holds(t))
  BY DEF Held, Holds
<1>5. ASSUME NEW l \in {"connect", "p2pConnect"}, Done(d, l) PROVE Done(c, l)
  BY <1>1, <1>2, <1>5 DEF Done
<1>6. Connects(c, e, lib.conn) => Connects(d, e, lib'.conn)
  <2>1. "connected" \in Todo(d) => "connected" \in Todo(c)
    BY <1>1, <1>2
  <2>2. Todo(d) \cap {"check", "activate", "p2pDisconnect"} # {} => Todo(c) \cap {"check", "activate", "p2pDisconnect"} # {}
    BY <1>1, <1>2
  <2>3. QED
    BY <1>5, <2>1, <2>2 DEF Connects
<1>7. ASSUME hist = {}, Holds(t), LetsGo(c, e) PROVE LetsGo(d, e)
  <2>1. SUFFICES ASSUME Names(p) \cap {"released", "ignored"} # {} PROVE Names(p) \cap Freeing # {}
    BY <1>1, <1>7 DEF LetsGo
  <2>2. CASE Names(p) = {"restart"} \cup R
    BY <2>2 DEF Freeing
  <2>3. CASE Names(p) = R /\ (c.pc \in Freeing => Answered(c))
    <3>1. FreeLeft(c)
      BY <1>2, <1>7, <2>1, <2>3 DEF LetsGo
    <3>2. QED
      BY <1>2, <2>3, <3>1 DEF FreeLeft
  <2>4. QED
    BY <1>7, <2>2, <2>3
<1>8. QED
  BY <1>3, <1>4, <1>6, <1>7 DEF DeviceInv

\* A device whose call gives it up.
LEMMA DeviceGivesUp ==
    ASSUME Shape, NEW t \in Devices, DeviceInv(t), NEW p, Moves(t, p), eps'[t] = eps[t],
           lib'.target = lib.target, lib'.passive <=> lib.passive, lib'.conn <=> lib.conn, hist \subseteq hist',
           LET l == thread[t].pc
           IN  \/ l = "p2pConnect" /\ Names(p) = {"restart", "ignored"}
               \/ l = "connect" /\ Names(p) = {}
               \/ /\ l \in {"check", "activate"} /\ eps[t] \in {"target", "initiator"}
                  /\ Names(p) = IF eps[t] = "target" THEN {"p2pDisconnect", "released"} ELSE {"ignored"}
    PROVE  DeviceInv(t)'
<1> DEFINE c == thread[t]
           d == thread'[t]
           e == eps[t]
           R == Names(c.rest)
<1>1. /\ Todo(d) = Names(p) /\ (FreeLeft(d) <=> Names(p) \cap Freeing # {})
      /\ \A l : Done(d, l) <=> l \notin Names(p)
  BY DeviceMoves
<1>2. c.pc \in Todo(c)
  BY DeviceOrder DEF Mutex
<1>3. CallFits(d, e)
  BY <1>1, <1>2 DEF DeviceInv, CallFits
<1>4. (Held(t)' <=> Held(t)) /\ (Holds(t)' <=> Holds(t))
  BY DEF Held, Holds
<1>5. ASSUME Holds(t), c.pc \in {"check", "activate"}, e \in {"target", "initiator"} PROVE e = "target" /\ lib.conn
  <2>1. e = "target"
    BY <1>5 DEF DeviceInv, Holds
  <2>2. "p2pConnect" \notin Todo(c)
    BY <1>5, DeviceOrder DEF Mutex
  <2>3. QED
    BY <1>2, <1>5, <2>1, <2>2 DEF DeviceInv, Connects, Done
<1>6. Holds(t) => Connects(d, e, lib'.conn)
  BY <1>1, <1>5 DEF DeviceInv, Connects
<1>7. hist = {} /\ Holds(t) => LetsGo(d, e)
  BY <1>1, <1>5 DEF DeviceInv, LetsGo, Freeing
<1>8. QED
  BY <1>3, <1>4, <1>6, <1>7 DEF DeviceInv

\* What a device's call does when a request was refused or has failed.
LEMMA DeviceFails ==
    ASSUME Shape, LinkInv, NEW t \in Devices, DeviceInv(t), NEW refused \in BOOLEAN, Moves(t, Failed(t, refused)),
           eps'[t] = eps[t], UNCHANGED lib, hist \subseteq hist', thread[t].pc \in Requests,
           refused => ~Answered(thread[t]) /\ thread[t].pc # "restart",
           ~refused => Answered(thread[t])
    PROVE  DeviceInv(t)'
<1> DEFINE c == thread[t]
           l == c.pc
           R == Names(c.rest)
           p == Failed(t, refused)
<1>1. l \in RoleLabels(t) /\ l \notin Mutex /\ t \in roles /\ t \in DeviceThreads
  <2>1. l \notin Mutex
    BY DEF Requests, ManagerAsks, OpenAsks, CloseAsks, Mutex
  <2>2. QED
    BY <2>1, DeviceOrder, DevicesAre DEF Shape
<1>2. l \in {"connect", "reconnect", "ask", "tagDisconnect", "restart", "p2pConnect", "p2pDisconnect", "check"}
  <2>1. l \in TagLabels \cup PeerLabels
    BY <1>1, RoleHas DEF DeviceThreads
  <2>2. QED
    BY <2>1 DEF TagLabels, PeerLabels, Requests, ManagerAsks, OpenAsks, CloseAsks
<1>3. Todo(c) = {l} \cup R
  BY <1>1, DeviceOrder
<1>4. l # "connect" => Names(p) = FailNames(t, refused)
  BY <1>1, AtWork, FailedPlan DEF Shape
<1>5. CASE l = "connect"
  <2>1. c.rest = <<"connected", "unlock">>
    BY <1>3, <1>5 DEF DeviceInv, CallFits
  <2>2. p = Cleanup(t)
    BY <1>5 DEF Failed, TagFails, ManagerAsks, OpenAsks, CloseAsks
  <2>3. Names(p) = {}
    <3> DEFINE q == <<"connected", "unlock">>
    <3>1. DOMAIN q = {1, 2} /\ q[1] = "connected" /\ q[2] = "unlock" /\ Len(q) = 2 /\ q \in Plan
      BY <1>1, <2>1, AtWork DEF Shape
    <3>2. (CHOOSE i \in {2} : \A j \in {2} : i <= j) = 2
      <4>1. \A j \in {2} : 2 <= j
        OBVIOUS
      <4>2. QED
        BY <4>1, Zenon
    <3> HIDE DEF q
    <3>3. {i \in DOMAIN q : q[i] = "unlock"} = {2}
      BY <3>1
    <3>4. p = SubSeq(q, 2, Len(q))
      BY <2>1, <2>2, <3>2, <3>3 DEF Cleanup, q
    <3>5. p \in Plan /\ Len(p) = 1 /\ p[1] = "unlock"
      <4> DEFINE r == SubSeq(q, 2, Len(q))
      <4>1. r \in Plan /\ Len(r) = Len(q) - 2 + 1 /\ \A i \in 1..Len(r) : r[i] = q[i + 2 - 1]
        <5>1. q \in Plan /\ 2 \in 1..Len(q)
          BY <3>1
        <5>2. QED
          BY <5>1, SuffixFacts
      <4> HIDE DEF r
      <4>2. Len(r) = 1 /\ r[1] = q[1 + 2 - 1] /\ 1 + 2 - 1 = 2
        BY <3>1, <4>1
      <4>3. QED
        BY <3>1, <3>4, <4>1, <4>2 DEF r
    <3>6. DOMAIN p = {1}
      BY <3>5, PlanFacts
    <3>7. QED
      BY <3>5, <3>6 DEF Names, Mutex
  <2> HIDE DEF p
  <2>4. QED
    BY <1>5, <2>3, DeviceGivesUp DEF p
<1>6. CASE l = "p2pConnect"
  <2>1. Names(p) = {"restart", "ignored"}
    BY <1>4, <1>6 DEF FailNames, OpenAsks, CloseAsks
  <2>2. QED
    BY <1>6, <2>1, DeviceGivesUp
<1>7. CASE l = "check"
  <2>1. Names(p) = IF eps[t] = "target" THEN {"p2pDisconnect", "released"} ELSE {"ignored"}
    BY <1>4, <1>7 DEF FailNames, OpenAsks, CloseAsks
  <2>2. eps[t] \in {"target", "initiator"}
    BY <1>1, <1>3, <1>7, RoleOf DEF LinkInv
  <2>3. QED
    BY <1>7, <2>1, <2>2, DeviceGivesUp
<1>8. CASE l \in {"tagDisconnect", "p2pDisconnect"} /\ refused /\ (lib.on => lib.conn)
  <2>1. Names(p) = {"restart"} \cup R
    BY <1>4, <1>8 DEF FailNames, OpenAsks, CloseAsks
  <2>2. QED
    BY <1>8, <2>1, DeviceGoesOn
<1>9. CASE /\ l \in {"reconnect", "ask", "tagDisconnect", "restart", "p2pDisconnect"}
           /\ ~(l \in {"tagDisconnect", "p2pDisconnect"} /\ refused /\ (lib.on => lib.conn))
  <2>1. Names(p) = R
    BY <1>4, <1>9 DEF FailNames, OpenAsks, CloseAsks
  <2>2. ASSUME l \in Freeing, Holds(t) PROVE Answered(c)
    <3>1. CASE ~refused
      BY <3>1
    <3>2. CASE refused
      <4>1. l \in {"tagDisconnect", "p2pDisconnect"} /\ ~lib.conn
        BY <1>9, <2>2, <3>2 DEF Freeing
      <4>2. l = "p2pDisconnect" => "p2pConnect" \notin Todo(c)
        BY <1>3, DeviceOrder
      <4>3. QED
        BY <1>3, <2>2, <4>1, <4>2 DEF DeviceInv, CallFits, Connects, Done
    <3>3. QED
      BY <3>1, <3>2
  <2>3. QED
    BY <1>9, <2>1, <2>2, DeviceGoesOn
<1>10. QED
  BY <1>2, <1>5, <1>6, <1>7, <1>8, <1>9

LEMMA DeviceStep ==
    ASSUME Shape, LinkInv, Asked, NEW t \in Devices, DeviceInv(t), Step(t)
    PROVE  DeviceInv(t)'
<1> DEFINE c == thread[t]
           d == thread'[t]
           l == c.pc
           R == Names(c.rest)
<1>1. /\ t \in roles /\ t \in Threads /\ t \in DeviceThreads /\ t # "service"
      /\ StepFrame(t) /\ UNCHANGED hist
      /\ l \notin Mutex => l \in RoleLabels(t)
  BY AtWork, StepKeeps, DevicesAre DEF Shape, StepFrame, DeviceThreads
<1>2. l \in TagLabels \cup PeerLabels \cup Mutex
  BY <1>1, RoleHas DEF DeviceThreads
<1>3. Todo(c) = ({l} \ Mutex) \cup R
  BY DeviceOrder
<1>4. lib'.target = lib.target /\ lib'.passive = lib.passive /\ lib'.conn = lib.conn
  BY <1>1 DEF StepFrame
<1>5. CASE accepts(t)
  <2>1. Sleeps(t, "waits") /\ c.st = "runs" /\ l \in Requests /\ UNCHANGED eps
    BY <1>1, <1>5, AcceptsStep DEF accepts
  <2>2. FrameOf(l) = "call"
    BY <1>2 DEF FrameOf, TagLabels, PeerLabels, Mutex
  <2>3. ~c.frame["call"].sem
    BY <1>1, <2>1 DEF Asked
  <2>4. d.pc = c.pc /\ d.rest = c.rest /\ d.frame = c.frame
    BY <2>1 DEF Sleeps
  <2>5. ~Answered(d) /\ ~Answered(c)
    BY <2>1, <2>2, <2>3, <2>4 DEF Answered
  <2>6. QED
    BY <1>1, <1>4, <2>1, <2>4, <2>5, DeviceSame
<1>6. CASE takeLock(t) \/ giveLock(t)
  <2>1. UNCHANGED eps /\ Moves(t, c.rest) /\ l \in {"lock", "unlock"}
    BY <1>1, <1>6, LockSteps DEF takeLock, giveLock, adapter
  <2>2. l \notin Freeing \cup {"connect", "p2pConnect"}
    BY <2>1 DEF Freeing
  <2>3. QED
    BY <1>1, <1>4, <2>1, <2>2, DeviceGoesOn
<1>7. CASE refuses(t)
  <2>1. /\ UNCHANGED <<lib, eps>> /\ Moves(t, Failed(t, TRUE)) /\ l \in Requests /\ ~Answered(c)
        /\ l \in Requests \ (Fatal \cup {"seNotified", "gpioGet"})
    BY <1>1, <1>7, RefusesStep DEF refuses
  <2>2. l # "restart"
    BY <2>1 DEF Fatal
  <2>3. QED
    BY <1>1, <2>1, <2>2, DeviceFails
<1>8. CASE wakes(t)
  <2>1. UNCHANGED <<lib, eps>> /\ l \in Requests /\ Answered(c) /\ l \notin {"init", "seField", "lock"}
    <3>1. UNCHANGED <<lib, eps>> /\ l \in Requests /\ Answered(c)
      BY <1>1, <1>8, WakesStep DEF adapter
    <3>2. "lock" \notin Requests
      BY DEF Requests, ManagerAsks, OpenAsks, CloseAsks
    <3>3. l \notin {"init", "seField"}
      BY <1>2 DEF TagLabels, PeerLabels, Mutex
    <3>4. QED
      BY <3>1, <3>2, <3>3
  <2>2. CASE ~Status(t) /\ Moves(t, Failed(t, FALSE))
    BY <1>1, <2>1, <2>2, DeviceFails
  <2>3. CASE Status(t) /\ Moves(t, c.rest)
    <3>1. FrameOf(l) = "call"
      BY <1>2 DEF FrameOf, TagLabels, PeerLabels, Mutex
    <3>2. c.frame["call"].ok
      BY <2>3, <3>1 DEF Status
    <3>3. QED
      BY <1>1, <1>4, <2>1, <2>3, <3>2, DeviceGoesOn
  <2>4. QED
    BY <1>1, <1>8, <2>1, <2>2, <2>3, WakesStep
<1>9. CASE activate(t)
  <2>1. l = "activate" /\ t = "peer" /\ ~Answered(c)
    BY <1>1, <1>9, ActivateStep
  <2>2. eps[t] \in {"target", "initiator"}
    BY <1>1, <1>3, <2>1 DEF LinkInv, Mutex
  <2>3. CASE Moves(t, GivesUp(eps[t])) /\ UNCHANGED <<lib, eps>>
    <3>1. Names(GivesUp(eps[t])) = IF eps[t] = "target" THEN {"p2pDisconnect", "released"} ELSE {"ignored"}
      BY GivesUpPlan
    <3>2. QED
      BY <1>1, <2>1, <2>2, <2>3, <3>1, DeviceGivesUp
  <2>4. CASE /\ Moves(t, c.rest)
             /\ eps' = [eps EXCEPT ![t] = IF eps[t] = "target" THEN "upTarget" ELSE "upInitiator"]
    <3>1. eps'[t] = IF eps[t] = "target" THEN "upTarget" ELSE "upInitiator"
      BY <1>1, <2>4 DEF Shape, TypeInv
    <3>2. Todo(d) = R /\ ~Answered(d) /\ \A k : Done(d, k) <=> k \notin R
      BY <2>4, DeviceMoves
    <3>3. R \cap (Freeing \cup {"check", "activate", "released", "ignored"}) = {} /\ "p2pConnect" \notin R
      BY <2>1, DeviceOrder
    <3>4. R \subseteq PeerLabels
      BY <1>1, <2>1, AtWork, RoleHas DEF Shape
    <3>5. {"tagDisconnect", "p2pDisconnect", "connect", "connected"} \cap R = {}
      BY <3>3, <3>4 DEF PeerLabels, Freeing
    <3>6. "activate" \in Todo(c) /\ "p2pConnect" \notin Todo(c)
      BY <1>3, <2>1, <3>3 DEF Mutex
    <3>7. CallFits(d, eps'[t])
      BY <3>1, <3>2, <3>5 DEF CallFits
    <3>8. eps'[t] # "free" /\ (Held(t)' <=> Held(t)) /\ (Holds(t)' <=> Holds(t))
      BY <1>4, <3>1 DEF Held, Holds
    <3>9. Held(t) /\ eps'[t] = "upInitiator" => lib.passive
      BY <2>2, <3>1 DEF DeviceInv
    <3>10. Holds(t) => lib.conn
      BY <3>6 DEF DeviceInv, Connects, Done
    <3>11. Holds(t) => Connects(d, eps'[t], lib'.conn)
      BY <1>4, <3>10 DEF Connects
    <3>12. LetsGo(d, eps'[t])
      BY <3>1, <3>2, <3>3 DEF LetsGo
    <3>13. QED
      BY <1>4, <3>1, <3>7, <3>8, <3>9, <3>11, <3>12 DEF DeviceInv
  <2>5. QED
    BY <1>1, <1>9, <2>3, <2>4, ActivateStep
<1>10. CASE connected(t) \/ released(t) \/ ignored(t)
  <2>1. /\ Moves(t, c.rest) /\ l \in {"connected", "released", "ignored"} /\ ~Answered(c)
        /\ eps' = [eps EXCEPT ![t] = IF l = "connected" THEN "connected" ELSE "done"]
    BY <1>1, <1>10, DeviceSteps
  <2>2. eps'[t] = IF l = "connected" THEN "connected" ELSE "done"
    BY <1>1, <2>1 DEF Shape, TypeInv
  <2>3. /\ Todo(d) = R /\ ~Answered(d) /\ (FreeLeft(d) <=> R \cap Freeing # {}) /\ \A k : Done(d, k) <=> k \notin R
    BY <2>1, DeviceMoves
  <2>4. Todo(c) = {l} \cup R
    BY <1>3, <2>1 DEF Mutex
  <2>5. (l \in {"released", "ignored"} => R \cap Freeing = {}) /\ (l = "connected" => "connect" \notin R)
    BY DeviceOrder
  <2>6. "connect" \notin R
    BY <2>1, <2>4 DEF DeviceInv, CallFits
  <2>7. "tagDisconnect" \in R => l = "connected"
    BY <2>1, <2>5 DEF Freeing
  <2>8. CallFits(d, eps'[t])
    BY <2>2, <2>3, <2>6, <2>7 DEF CallFits
  <2>9. eps'[t] # "free" /\ (Held(t)' <=> Held(t)) /\ (Holds(t)' <=> Holds(t)) /\ eps'[t] \notin {"initiator", "upInitiator"}
    BY <1>4, <2>2 DEF Held, Holds
  <2>10. \A k \in {"connect", "p2pConnect"} : Done(d, k) => Done(c, k)
    BY <2>1, <2>3, <2>4 DEF Done
  <2>11. Holds(t) => Connects(d, eps'[t], lib'.conn)
    <3>1. l = "connected" => Done(c, "connect") /\ "connected" \in Todo(c)
      BY <2>4, <2>6 DEF Done
    <3>2. QED
      BY <1>4, <2>2, <2>3, <2>4, <2>10, <3>1 DEF DeviceInv, Connects
  <2>12. hist = {} /\ Holds(t) => LetsGo(d, eps'[t])
    <3> SUFFICES ASSUME hist = {}, Holds(t) PROVE LetsGo(d, eps'[t])
      OBVIOUS
    <3>1. LetsGo(c, eps[t])
      BY DEF DeviceInv
    <3>2. FreeLeft(c) => R \cap Freeing # {}
      BY <2>1, <2>4 DEF FreeLeft, Freeing
    <3>3. l = "connected"
      BY <2>1, <2>4, <2>5, <3>1, <3>2 DEF LetsGo
    <3>4. QED
      BY <2>2, <2>3, <2>4, <3>1, <3>2, <3>3 DEF LetsGo
  <2>13. QED
    BY <1>1, <1>4, <2>8, <2>9, <2>11, <2>12 DEF DeviceInv
<1>11. ~accept(t) /\ ~timeoutStep(t)
  <2>1. {"accept", "setTimeout", "resetTimeouts"} \cap (TagLabels \cup PeerLabels \cup Mutex) = {}
    BY DEF TagLabels, PeerLabels, Mutex
  <2>2. QED
    BY <1>1, <1>2, <2>1, AcceptStep, TimeoutSteps
<1>12. /\ ~(seCheck(t) \/ seRegister(t) \/ seListen(t)) /\ ~(awaitElement(t) \/ gpioRefused(t))
       /\ ~(seFailed(t) \/ seOpened(t) \/ seClosed(t) \/ enabled(t))
       /\ ~(configure(t) \/ unconfigure(t) \/ initFails(t)) /\ ~register(t)
       /\ ~fwDeinitTimesOut(t) /\ ~deinitialized(t)
  BY <1>1, LookSteps, AwaitSteps, EndSteps, DriverSteps, RegisterStep, UpdateTimesOut, DeinitStep
<1>13. ~fwFailed(t)
  BY <1>2 DEF fwFailed, At, TagLabels, PeerLabels, Mutex
<1>14. QED
  BY <1>5, <1>6, <1>7, <1>8, <1>9, <1>10, <1>11, <1>12, <1>13 DEF Step

\* The call that a thread which is a device begins with plan p.
DeviceCall(u, p) ==
    \/ u \in Tags /\ eps[u] = "found" /\ Names(p) = {"connect", "connected"} /\ p = doConnect
    \/ u \in Tags /\ eps[u] = "connected" /\ Names(p) = {"tagDisconnect", "released"}
    \/ u \in Tags /\ eps[u] = "found" /\ Names(p) = {"restart", "released"}
    \/ u \in Tags /\ eps[u] = "connected" /\ Names(p) \in {{"reconnect"}, {"ask"}}
    \/ /\ u = "peer" /\ eps[u] \in {"target", "initiator"}
       /\ Names(p) = {"check", "activate"} \cup (IF eps[u] = "target" THEN {"p2pConnect"} ELSE {})
    \/ u = "peer" /\ eps[u] = "lost" /\ Names(p) = {"p2pDisconnect", "released"}
    \/ u = "peer" /\ eps[u] \in {"upTarget", "upInitiator"} /\ Names(p) = {"ask"}

LEMMA DeviceCalls ==
    ASSUME Shape, TargetInv, ServiceCalls \/ TagCalls \/ PeerStarts \/ SocketCalls \/ TimeoutCalls
    PROVE  TargetInv'
<1>1. /\ UNCHANGED <<lib, eps, hist>>
      /\ \E u \in roles : \E p : Starts(u, p) /\ (u \notin DeviceThreads \/ DeviceCall(u, p))
  <2>1. CASE ServiceCalls
    <3>1. "service" \notin DeviceThreads
      BY DEF DeviceThreads
    <3>2. QED
      BY <2>1, <3>1, ServiceCallsStep
  <2>2. CASE TagCalls \/ PeerStarts \/ SocketCalls \/ TimeoutCalls
    BY <2>2, OtherCallsStep DEF adapter, DeviceCall
  <2>3. QED
    BY <2>1, <2>2
<1>2. PICK u \in roles : \E p : Starts(u, p) /\ (u \notin DeviceThreads \/ DeviceCall(u, p))
  BY <1>1
<1> PICK p : Starts(u, p) /\ (u \notin DeviceThreads \/ DeviceCall(u, p))
  BY <1>2
<1>3. Devices' = Devices /\ Devices \subseteq Threads
  BY DevicesAre DEF Shape, Starts
<1>4. ASSUME NEW t \in Devices, t # u PROVE DeviceInv(t)'
  BY <1>1, <1>3, <1>4, DeviceSame DEF TargetInv, Starts
<1>5. ASSUME u \in Devices PROVE DeviceInv(u)'
  <2> DEFINE d == thread'[u]
             e == eps[u]
  <2>1. DeviceInv(u) /\ u \in DeviceThreads
    BY <1>5, DevicesAre DEF TargetInv, Shape
  <2>2. Todo(d) = Names(p) /\ d.st = "runs" /\ d.pc = p[1] /\ d.rest = Tail(p)
    BY DEF Starts
  <2>3. ~Answered(d) /\ (FreeLeft(d) <=> Names(p) \cap Freeing # {}) /\ \A l : Done(d, l) <=> l \notin Names(p)
    BY <2>2 DEF Answered, FreeLeft, Done
  <2>4. /\ e # "free" /\ e # "done" /\ ("tagDisconnect" \in Names(p) => e = "connected")
        /\ "connect" \in Names(p) => p = doConnect
        /\ "connected" \in Names(p) => "connect" \in Names(p)
        /\ "p2pDisconnect" \in Names(p) => e = "lost"
        /\ Names(p) \cap {"check", "activate"} # {} => e = "initiator" \/ (e = "target" /\ "p2pConnect" \in Names(p))
        /\ Names(p) \cap {"released", "ignored"} # {} => Names(p) \cap Freeing # {}
    BY <2>1 DEF Freeing, DeviceCall
  <2>5. p = doConnect => d.pc = "lock" /\ d.rest = <<"connect", "connected", "unlock">>
    BY <2>2, ConnectIs
  <2>6. CallFits(d, e)
    BY <2>2, <2>4, <2>5 DEF CallFits
  <2>7. Holds(u) => Connects(d, e, lib.conn)
    <3> SUFFICES ASSUME Holds(u) PROVE Connects(d, e, lib.conn)
      OBVIOUS
    <3>1. e # "initiator" /\ (e \in {"connected", "upTarget", "lost"} => lib.conn)
      BY <2>1 DEF DeviceInv, Holds, Connects
    <3>2. QED
      BY <2>2, <2>3, <2>4, <3>1 DEF Connects
  <2>8. LetsGo(d, e)
    BY <2>2, <2>3, <2>4 DEF LetsGo
  <2>9. (Held(u)' <=> Held(u)) /\ (Holds(u)' <=> Holds(u)) /\ UNCHANGED <<lib, eps, hist>>
    BY <1>1 DEF Held, Holds
  <2>10. QED
    BY <2>1, <2>6, <2>7, <2>8, <2>9 DEF DeviceInv
<1>6. QED
  BY <1>1, <1>3, <1>4, <1>5 DEF TargetInv

\* libnfc answers.
LEMMA DeviceAnswers ==
    ASSUME Shape, Asked, TargetInv, answers
    PROVE  TargetInv'
<1>1. PICK m \in msgs, good \in BOOLEAN :
        /\ Posts(m, good) /\ lib' = LibAfter(m, good)
        /\ hist' = IF m.what \in {"start", "restart", "stop"} /\ ~good THEN hist \cup {"startFailed"} ELSE hist
  BY AnswersStep
<1>2. /\ m.what \in Requests /\ m.what \in RoleLabels(m.to) /\ m.to \in Threads /\ LibOK /\ UNCHANGED <<eps, roles>>
      /\ hist \subseteq hist'
  BY <1>1, AnswersStep, MessageFacts DEF Shape, MsgType, TypeInv
<1>3. Devices' = Devices /\ Devices \subseteq DeviceThreads /\ Devices \subseteq Threads
  BY <1>2, DevicesAre DEF Shape
<1>4. \/ lib'.target = None
      \/ /\ lib'.target = lib.target /\ lib'.passive = lib.passive
         /\ lib'.conn = (lib.conn \/ (m.what \in {"connect", "p2pConnect"} /\ good /\ lib.target = m.to))
         /\ ~(m.what \in {"tagDisconnect", "p2pDisconnect"}) /\ (m.what = "restart" => ~good)
  BY <1>1, <1>2, LibAfterFacts
<1>5. ASSUME NEW t \in Devices, t # m.to \/ ~Alive(m) PROVE DeviceInv(t)'
  <2>1. thread'[t] = thread[t] /\ eps'[t] = eps[t] /\ DeviceInv(t)
    BY <1>1, <1>2, <1>3, <1>5 DEF Posts, TargetInv
  <2>2. \/ lib'.target = lib.target /\ (lib'.passive <=> lib.passive) /\ (lib.conn => lib'.conn)
        \/ lib'.target = None
    BY <1>4
  <2>3. QED
    BY <1>2, <2>1, <2>2, DeviceSame
<1>6. ASSUME m.to \in Devices, Alive(m) PROVE DeviceInv(m.to)'
  <2> DEFINE t == m.to
             c == thread[t]
             d == thread'[t]
             e == eps[t]
  <2>1. DeviceInv(t) /\ t \in DeviceThreads
    BY <1>3, <1>6 DEF TargetInv
  <2>2. FrameOf(m.what) = "call"
    <3>1. m.what \in TagLabels \cup PeerLabels
      BY <1>2, <2>1, RoleHas DEF DeviceThreads
    <3>2. QED
      BY <3>1 DEF FrameOf, TagLabels, PeerLabels
  <2>3. c.st = "waits" /\ c.pc = m.what /\ c.frame["call"].sem = FALSE
    BY <2>2 DEF Asked
  <2>4. d.pc = c.pc /\ d.st = c.st /\ d.rest = c.rest /\ d.frame["call"] = [sem |-> TRUE, ok |-> good]
    BY <1>1, <1>6, <2>2 DEF Posts, Frames
  <2>5. Answered(d) /\ ~Answered(c) /\ Todo(d) = Todo(c) /\ (d.frame["call"].ok <=> good)
    BY <2>2, <2>3, <2>4 DEF Answered, Todo
  <2>6. CallFits(d, e)
    BY <2>1, <2>4, <2>5 DEF DeviceInv, CallFits
  <2>7. CASE lib'.target = None
    BY <1>2, <2>6, <2>7 DEF DeviceInv, Held, Holds
  <2>8. CASE /\ lib'.target = lib.target /\ lib'.passive = lib.passive
             /\ lib'.conn = (lib.conn \/ (m.what \in {"connect", "p2pConnect"} /\ good /\ lib.target = m.to))
             /\ ~(m.what \in {"tagDisconnect", "p2pDisconnect"}) /\ (m.what = "restart" => ~good)
    <3>1. (Held(t)' <=> Held(t)) /\ (Holds(t)' <=> Holds(t))
      BY <2>8 DEF Held, Holds
    <3>2. ASSUME Holds(t), Connects(c, e, lib.conn) PROVE Connects(d, e, lib'.conn)
      <4>1. CASE m.what \in {"connect", "p2pConnect"} /\ good
        BY <2>8, <3>2, <4>1 DEF Connects, Holds, Held
      <4>2. CASE ~(m.what \in {"connect", "p2pConnect"} /\ good)
        <5>1. \A l \in {"connect", "p2pConnect"} : Done(d, l) => Done(c, l)
          BY <2>3, <2>4, <2>5, <4>2 DEF Done
        <5>2. QED
          BY <2>5, <2>8, <3>2, <5>1 DEF Connects
      <4>3. QED
        BY <4>1, <4>2
    <3>3. ASSUME hist' = {}, LetsGo(c, e) PROVE LetsGo(d, e)
      <4>1. m.what \notin Freeing
        BY <1>1, <2>8, <3>3 DEF Freeing
      <4>2. FreeLeft(c) => FreeLeft(d)
        BY <2>3, <2>4, <2>5, <4>1 DEF FreeLeft
      <4>3. QED
        BY <2>5, <3>3, <4>2 DEF LetsGo
    <3>4. hist' = {} => hist = {}
      BY <1>2
    <3>5. QED
      BY <1>2, <2>1, <2>6, <2>8, <3>1, <3>2, <3>3, <3>4 DEF DeviceInv
  <2>9. QED
    BY <1>4, <2>7, <2>8
<1>7. QED
  BY <1>3, <1>4, <1>5, <1>6 DEF TargetInv

\* The events of the link, a device found, and the sockets.
LEMMA DeviceEvents ==
    ASSUME Shape, TargetInv,
           \/ clientStops \/ linkStatus \/ RemoteLeaves \/ Discovered \/ \E s \in Servers : listenCallback(s)
           \/ createServiceSocket \/ createLlcpSocket \/ createConnectionlessSocket
           \/ closeSocket \/ closeConnectionless \/ \E t \in Servers : closeServiceSocket(t)
    PROVE  TargetInv'
<1>1. /\ LibOK /\ eps \in [Threads -> EpStates] /\ UNCHANGED <<roles, hist>>
      /\ UNCHANGED thread \/ Stirs
  BY LinkEvents, SocketSteps DEF Shape, TypeInv
<1>2. Devices' = Devices /\ Devices \subseteq Threads /\ Devices \subseteq DeviceThreads
  BY <1>1, DevicesAre DEF Shape
<1>3. ASSUME NEW t \in Devices PROVE thread'[t] = thread[t]
  <2>1. thread[t].st # "cond"
    <3>1. thread[t].st = "cond" => thread[t].pc = "accept"
      BY <1>2 DEF Shape, ContextInv, ThreadOK
    <3>2. thread[t].pc # "accept"
      BY <1>2, DeviceOrder, RoleOf DEF Mutex, OtherLabels
    <3>3. QED
      BY <3>1, <3>2
  <2>2. QED
    BY <1>1, <1>2, <2>1 DEF Stirs
<1>4. ASSUME UNCHANGED eps,
             \/ lib'.target = lib.target /\ (lib'.passive <=> lib.passive) /\ (lib.conn => lib'.conn)
             \/ lib'.target = None
      PROVE  TargetInv'
  <2>1. \A t \in Devices : DeviceInv(t)'
    BY <1>1, <1>3, <1>4, DeviceSame DEF TargetInv
  <2>2. QED
    BY <1>2, <1>4, <2>1 DEF TargetInv
<1>5. CASE clientStops \/ \E s \in Servers : listenCallback(s)
  <2>1. UNCHANGED <<lib, eps>>
    BY <1>5 DEF clientStops, listenCallback
  <2>2. QED
    BY <1>4, <2>1
<1>6. CASE \/ createServiceSocket \/ createLlcpSocket \/ createConnectionlessSocket
           \/ closeSocket \/ closeConnectionless \/ \E t \in Servers : closeServiceSocket(t)
  <2>1. UNCHANGED <<lib, eps>>
    BY <1>6, SocketSteps
  <2>2. QED
    BY <1>4, <2>1
<1>7. CASE RemoteLeaves
  <2>1. UNCHANGED eps /\ lib' = IF lib.passive THEN Freed(lib) ELSE [lib EXCEPT !.link = "lost"]
    BY <1>7 DEF RemoteLeaves
  <2>2. CASE lib.passive
    BY <1>1, <1>4, <2>1, <2>2, FreedFacts
  <2>3. CASE ~lib.passive
    <3>1. lib'.target = lib.target /\ lib'.passive = lib.passive /\ lib'.conn = lib.conn
      BY <1>1, <2>1, <2>3 DEF LibOK
    <3>2. QED
      BY <1>4, <2>1, <3>1
  <2>4. QED
    BY <2>2, <2>3
<1>8. CASE linkStatus
  <2>1. lib'.target = lib.target /\ lib'.passive = lib.passive /\ lib'.conn = lib.conn
    BY <1>1, <1>8 DEF linkStatus, LibOK
  <2>2. CASE UNCHANGED eps
    BY <1>4, <2>1, <2>2
  <2>3. CASE eps' = [t \in DOMAIN eps |-> CASE eps[t] = "upTarget" -> "lost"
                                            [] eps[t] = "upInitiator" -> "done"
                                            [] OTHER -> eps[t]]
    <3>1. ASSUME NEW t \in Devices PROVE DeviceInv(t)'
      <4> DEFINE c == thread[t]
                 e == eps[t]
                 f == eps'[t]
      <4>1. DeviceInv(t) /\ thread'[t] = c
        BY <1>3 DEF TargetInv
      <4>2. f = CASE e = "upTarget" -> "lost" [] e = "upInitiator" -> "done" [] OTHER -> e
        BY <1>1, <1>2, <2>3
      <4>3. CallFits(c, f)
        BY <4>1, <4>2 DEF DeviceInv, CallFits
      <4>4. (Held(t)' <=> Held(t)) /\ (Holds(t)' <=> Holds(t))
        BY <2>1 DEF Held, Holds
      <4>5. Holds(t) => e # "upInitiator"
        BY <4>1 DEF DeviceInv, Holds
      <4>6. Holds(t) => Connects(c, f, lib'.conn)
        BY <2>1, <4>1, <4>2, <4>5 DEF DeviceInv, Connects
      <4>7. hist = {} /\ Holds(t) => LetsGo(c, f)
        BY <4>1, <4>2, <4>5 DEF DeviceInv, LetsGo
      <4>8. Held(t) => f # "free" /\ (f \in {"initiator", "upInitiator"} => lib.passive)
        BY <4>1, <4>2 DEF DeviceInv
      <4>9. QED
        BY <1>1, <2>1, <4>1, <4>3, <4>4, <4>6, <4>7, <4>8 DEF DeviceInv
    <3>2. QED
      BY <1>2, <2>1, <3>1 DEF TargetInv
  <2>4. QED
    BY <1>8, <2>2, <2>3 DEF linkStatus
<1>9. CASE Discovered
  <2>1. PICK u \in Devices, how \in {"found", "target", "initiator"} :
          /\ eps[u] = "free" /\ eps' = [eps EXCEPT ![u] = how]
          /\ lib' = [lib EXCEPT !.target = u, !.passive = (how = "initiator")]
    BY <1>9 DEF Discovered, Devices
  <2>2. lib.target = None
    BY <1>9 DEF Discovered
  <2>3. lib'.target = u /\ lib'.passive = (how = "initiator") /\ eps'[u] = how
    BY <1>1, <1>2, <2>1 DEF LibOK
  <2>4. ASSUME NEW t \in Devices, t # u PROVE DeviceInv(t)'
    <3>1. DeviceInv(t) /\ thread'[t] = thread[t] /\ eps'[t] = eps[t]
      BY <1>1, <1>2, <1>3, <2>1, <2>4 DEF TargetInv
    <3>2. ~Held(t)' /\ ~Holds(t)'
      BY <2>3, <2>4 DEF Held, Holds
    <3>3. QED
      BY <3>1, <3>2 DEF DeviceInv
  <2>5. DeviceInv(u)'
    <3>1. Todo(thread[u]) = {} /\ thread'[u] = thread[u]
      BY <1>3, <2>1 DEF TargetInv, DeviceInv, CallFits
    <3>2. CallFits(thread[u], how) /\ Connects(thread[u], how, lib'.conn) /\ LetsGo(thread[u], how)
      BY <3>1 DEF CallFits, Connects, LetsGo
    <3>3. how = "initiator" => lib'.passive
      BY <2>3
    <3>4. QED
      BY <2>3, <3>1, <3>2, <3>3 DEF DeviceInv
  <2>6. QED
    BY <1>2, <2>3, <2>4, <2>5 DEF TargetInv
<1>10. QED
  BY <1>5, <1>6, <1>7, <1>8, <1>9

LEMMA FreshTarget ==
    ASSUME Shape, Fresh, lib = LibOff \/ lib = FirstOn
    PROVE  TargetInv
<1>1. lib.target = None
  BY LibOffFacts DEF FirstOn
<1>2. ASSUME NEW t \in Devices PROVE DeviceInv(t)
  <2>1. t \in Threads /\ thread[t] = IdleThread
    BY DevicesAre DEF Fresh, Shape
  <2>2. CallFits(thread[t], eps[t])
    BY <2>1, IdleFacts DEF CallFits
  <2>3. ~Held(t) /\ ~Holds(t)
    BY <1>1 DEF Held, Holds
  <2>4. QED
    BY <2>2, <2>3 DEF DeviceInv
<1>3. QED
  BY <1>1, <1>2 DEF TargetInv

LEMMA NextTarget ==
    ASSUME Shape, Asked, LinkInv, TargetInv, [Next]_vars
    PROVE  TargetInv'
<1>1. CASE UNCHANGED vars
  <2>1. UNCHANGED <<thread, lib, eps, hist, roles>>
    BY <1>1 DEF vars, adapter, bounds
  <2>2. Devices' = Devices /\ \A t \in Devices : DeviceInv(t)'
    BY <2>1, DeviceSame, DevicesAre DEF TargetInv, Shape
  <2>3. QED
    BY <2>1, <2>2 DEF TargetInv
<1>2. CASE ServiceCalls \/ TagCalls \/ PeerStarts \/ SocketCalls \/ TimeoutCalls
  BY <1>2, DeviceCalls
<1>3. CASE \/ clientStops \/ linkStatus \/ RemoteLeaves \/ Discovered \/ \E s \in Servers : listenCallback(s)
           \/ createServiceSocket \/ createLlcpSocket \/ createConnectionlessSocket
           \/ closeSocket \/ closeConnectionless \/ \E t \in Servers : closeServiceSocket(t)
  BY <1>3, DeviceEvents
<1>4. CASE answers
  BY <1>4, DeviceAnswers
<1>5. CASE Aborts
  <2>1. Shape' /\ Fresh' /\ lib' = LibOff
    BY <1>5, AbortsFresh
  <2>2. lib'.target = None
    BY <2>1, LibOffFacts
  <2>3. ASSUME NEW t \in Devices' PROVE DeviceInv(t)'
    <3>1. UNCHANGED roles
      BY <1>5, AbortsFresh
    <3>2. t \in Threads /\ thread'[t] = IdleThread
      BY <2>1, <2>3, <3>1, DevicesAre DEF Fresh, Shape
    <3>3. CallFits(thread'[t], eps'[t])
      BY <3>2, IdleFacts DEF CallFits
    <3>4. ~Held(t)' /\ ~Holds(t)'
      BY <2>2 DEF Held, Holds
    <3>5. QED
      BY <3>3, <3>4 DEF DeviceInv
  <2>4. QED
    BY <2>2, <2>3 DEF TargetInv
<1>6. CASE \E t \in roles : Step(t)
  <2>1. PICK u \in roles : Step(u)
    BY <1>6
  <2>2. StepFrame(u)
    BY <2>1, StepKeeps
  <2>3. Devices' = Devices /\ Devices \subseteq Threads /\ lib'.target = lib.target
    BY <2>2, DevicesAre DEF Shape, StepFrame
  <2>4. hist \subseteq hist'
    <3>1. CASE u # "service"
      BY <2>2, <3>1 DEF StepFrame
    <3>2. CASE u = "service"
      BY <2>1, <3>2, ServiceDoes DEF ServiceEffect
    <3>3. QED
      BY <3>1, <3>2
  <2>5. ASSUME NEW t \in Devices PROVE DeviceInv(t)'
    <3>1. DeviceInv(t)
      BY DEF TargetInv
    <3>2. CASE t = u
      BY <2>1, <3>1, <3>2, DeviceStep
    <3>3. CASE t # u
      <4>1. /\ thread'[t] = thread[t] /\ eps'[t] = eps[t]
            /\ lib'.target = lib.target /\ (lib'.passive <=> lib.passive) /\ (lib.conn => lib'.conn)
        BY <2>2, <2>3, <3>3 DEF StepFrame
      <4>2. QED
        BY <2>4, <3>1, <4>1, DeviceSame
    <3>4. QED
      BY <3>2, <3>3
  <2>6. QED
    BY <2>3, <2>5 DEF TargetInv
<1>7. QED
  BY <1>1, <1>2, <1>3, <1>4, <1>5, <1>6 DEF Next, Calls, Events

\* Nobody works: nothing is left of a start or of a deinitialisation.
LEMMA NobodyWorks ==
    ASSUME Shape, \A t \in roles : ~Working(t)
    PROVE  ~StartLeft /\ ~StopLeft /\ "deinit" \notin Doing
<1>1. CASE "service" \in roles
  <2>1. thread["service"] = IdleThread
    BY <1>1, ThreadsOfRoles DEF Shape, ContextInv, ThreadOK, Working
  <2>2. Doing = {}
    BY <1>1, <2>1, IdleFacts DEF Doing
  <2>3. QED
    BY <2>2 DEF StartLeft, StopLeft
<1>2. CASE "service" \notin roles
  BY <1>2 DEF Doing, StartLeft, StopLeft
<1>3. QED
  BY <1>1, <1>2

\* When no call is running and every device has been let go, the controller
\* polls if and only if NfcService thinks it does, and no device holds it,
\* unless libnfc refused or failed to register or start the discovery: the
\* answer to a start or a stop comes to the service, which waits for it; and a
\* call that gives a connected device up disconnects it or restarts the
\* discovery, whatever fails before.
THEOREM PollingCorrect == Spec => []PollingAsWanted
<1> DEFINE Inv == /\ Shape /\ Asked /\ ClientInv /\ Switch /\ Quiet /\ Steps /\ Late
                  /\ Polls /\ LinkInv /\ TargetInv
<1>1. Init => Inv
  <2> SUFFICES ASSUME Init PROVE Inv
    OBVIOUS
  <2>1. Shape /\ Fresh /\ msgs = {} /\ \A t \in Threads : thread[t] = IdleThread
    BY InitFresh DEF Fresh
  <2>2. Asked
    BY <2>1 DEF Asked, IdleThread, NewFrame, Frames
  <2>3. ClientInv
    BY <2>1, InitFresh, FreshClient
  <2>4. Switch /\ Quiet
    BY InitFresh, FreshSwitch
  <2>5. Doing = {}
    BY <2>1, IdleFacts, ThreadsOfRoles DEF Doing, Shape
  <2>6. Steps /\ Late
    BY <2>1, <2>5 DEF Steps, Late
  <2>7. Polls
    <3>1. CASE svc = SvcOff
      BY <3>1 DEF Polls, SvcOff
    <3>2. CASE lib = FirstOn
      BY <3>2 DEF Polls, FirstOn, LibOff
    <3>3. QED
      BY <3>1, <3>2, InitFresh
  <2>8. LinkInv /\ TargetInv
    BY InitFresh, FreshLink, FreshTarget
  <2>9. QED
    BY <2>1, <2>2, <2>3, <2>4, <2>6, <2>7, <2>8
<1>2. Inv /\ [Next]_vars => Inv'
  <2> SUFFICES ASSUME Shape, Asked, ClientInv, Switch, Quiet, Steps, Late, Polls, LinkInv, TargetInv, [Next]_vars
               PROVE  /\ Shape' /\ Asked' /\ ClientInv' /\ Switch' /\ Quiet'
                      /\ Steps' /\ Late' /\ Polls' /\ LinkInv' /\ TargetInv'
    OBVIOUS
  <2>1. Phases
    BY DEF ClientInv
  <2>2. Shape' /\ Asked' /\ ClientInv' /\ Switch' /\ Quiet'
    BY <2>1, NextShape, NextAsked, NextClient, NextSwitch, NextQuiet
  <2>3. Steps' /\ Late' /\ Polls'
    BY <2>1, NextSteps, NextLate, NextPolls
  <2>4. LinkInv' /\ TargetInv'
    BY NextLink, NextTarget
  <2>5. QED
    BY <2>2, <2>3, <2>4
<1>3. Inv => PollingAsWanted
  <2> SUFFICES ASSUME Shape, Quiet, Polls, TargetInv, svc.on, hist = {}, \A t \in roles : ~Working(t),
                      \A t \in Tags \cup Peers : eps[t] \in {"free", "done"}
               PROVE  lib.cfg = svc.polling /\ (lib.target = None \/ lib.passive)
    BY DEF PollingAsWanted
  <2>1. ~StartLeft /\ ~StopLeft /\ "deinit" \notin Doing
    BY NobodyWorks
  <2>2. lib.cfg \in BOOLEAN /\ svc.polling \in BOOLEAN
    BY DEF Shape, TypeInv, LibOK, SvcOK
  <2>3. lib.cfg <=> svc.polling
    BY <2>1 DEF Quiet, Polls
  <2>4. ASSUME lib.target # None PROVE lib.passive
    <3>1. lib.target \in Devices /\ Held(lib.target)
      BY <2>4 DEF TargetInv, Held
    <3>2. eps[lib.target] \in {"free", "done"} /\ DeviceInv(lib.target)
      BY <3>1 DEF Devices, TargetInv
    <3>3. ~Holds(lib.target)
      BY <3>1, <3>2 DEF DeviceInv, LetsGo
    <3>4. QED
      BY <3>1, <3>3 DEF Holds
  <2>5. QED
    BY <2>2, <2>3, <2>4
<1>4. QED
  BY <1>1, <1>2, <1>3, PTL DEF Spec
=============================================================================
