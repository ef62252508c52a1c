--------------------------- MODULE DiscoveryProofs ---------------------------
(***************************************************************************)
(* Proofs about RF discovery in the NCI adapter: the tag side of it         *)
(* (NfcTag) and the manager that starts and stops it (NativeManager).       *)
(***************************************************************************)
EXTENDS NativeManager, NfcTag, FiniteSetTheorems, WellFoundedInduction,
        SequenceTheorems, TLAPS

-----------------------------------------------------------------------------
(***************************************************************************)
(* Plans: what a call has still to do, as a set of steps.                  *)
(***************************************************************************)
Elems(s) == {s[i] : i \in DOMAIN s}
IsSeq(s) == \E S : s \in Seq(S)

LEMMA SeqOf == ASSUME NEW S, NEW s \in Seq(S) PROVE Elems(s) \subseteq S
BY LenProperties DEF Elems

LEMMA SeqIs == ASSUME NEW S, NEW s \in Seq(S) PROVE IsSeq(s)
BY DEF IsSeq

LEMMA SeqWider == ASSUME NEW S, NEW T, S \subseteq T, NEW s \in Seq(S) PROVE s \in Seq(T)
OBVIOUS

LEMMA ConcatElems ==
    ASSUME NEW p, NEW r, IsSeq(p), IsSeq(r)
    PROVE  IsSeq(p \o r) /\ Elems(p \o r) = Elems(p) \cup Elems(r)
<1>1. PICK S : p \in Seq(S) /\ r \in Seq(S)
  <2>1. PICK S, T : p \in Seq(S) /\ r \in Seq(T)
    BY DEF IsSeq
  <2>2. p \in Seq(S \cup T) /\ r \in Seq(S \cup T)
    BY <2>1, SeqWider
  <2>3. QED
    BY <2>2
<1>2. p \o r \in Seq(S)
  BY <1>1, ConcatProperties
<1>3. /\ DOMAIN p = 1..Len(p) /\ DOMAIN r = 1..Len(r) /\ DOMAIN (p \o r) = 1..(Len(p) + Len(r))
      /\ Len(p) \in Nat /\ Len(r) \in Nat
  BY <1>1, <1>2, ConcatProperties, LenProperties
<1>4. \A i \in 1..(Len(p) + Len(r)) : (p \o r)[i] = IF i <= Len(p) THEN p[i] ELSE r[i - Len(p)]
  BY <1>1, ConcatProperties
<1>5. ASSUME NEW i \in 1..Len(r) PROVE r[i] \in Elems(p \o r)
  <2>1. i + Len(p) \in 1..(Len(p) + Len(r)) /\ ~(i + Len(p) <= Len(p)) /\ (i + Len(p)) - Len(p) = i
    BY <1>3
  <2>2. (p \o r)[i + Len(p)] = r[i]
    BY <1>4, <2>1
  <2>3. QED
    BY <1>3, <2>1, <2>2 DEF Elems
<1>6. ASSUME NEW i \in 1..Len(p) PROVE p[i] \in Elems(p \o r)
  <2>1. i \in 1..(Len(p) + Len(r)) /\ i <= Len(p)
    BY <1>3
  <2>2. (p \o r)[i] = p[i]
    BY <1>4, <2>1
  <2>3. QED
    BY <1>3, <2>1, <2>2 DEF Elems
<1>7. ASSUME NEW i \in 1..(Len(p) + Len(r)) PROVE (p \o r)[i] \in Elems(p) \cup Elems(r)
  <2>1. i <= Len(p) => i \in 1..Len(p)
    BY <1>3
  <2>2. ~(i <= Len(p)) => i - Len(p) \in 1..Len(r)
    BY <1>3
  <2>3. QED
    BY <1>3, <1>4, <2>1, <2>2 DEF Elems
<1>8. Elems(p \o r) \subseteq Elems(p) \cup Elems(r)
  BY <1>3, <1>7 DEF Elems
<1>9. Elems(p) \subseteq Elems(p \o r) /\ Elems(r) \subseteq Elems(p \o r)
  BY <1>3, <1>5, <1>6 DEF Elems
<1>10. QED
  BY <1>2, <1>8, <1>9 DEF IsSeq

LEMMA HeadTailElems ==
    ASSUME NEW s, IsSeq(s), s # <<>>
    PROVE  /\ IsSeq(Tail(s)) /\ Elems(s) = {Head(s)} \cup Elems(Tail(s))
           /\ Head(s) = s[1] /\ Len(s) \in Nat \ {0} /\ Len(Tail(s)) = Len(s) - 1
           /\ DOMAIN s = 1..Len(s) /\ DOMAIN Tail(s) = 1..(Len(s) - 1)
           /\ \A i \in 1..(Len(s) - 1) : Tail(s)[i] = s[i + 1]
<1>1. PICK S : s \in Seq(S)
  BY DEF IsSeq
<1>2. /\ Tail(s) \in Seq(S) /\ Len(Tail(s)) = Len(s) - 1 /\ Len(s) \in Nat \ {0}
      /\ \A i \in 1..(Len(s) - 1) : Tail(s)[i] = s[i + 1]
      /\ DOMAIN s = 1..Len(s)
  BY <1>1, HeadTailProperties, EmptySeq, LenProperties
<1>3. DOMAIN Tail(s) = 1..(Len(s) - 1)
  BY <1>2, LenProperties
<1>4. Head(s) = s[1]
  BY <1>1, <1>2
<1>5. \A i \in 1..Len(s) : i = 1 \/ (i - 1 \in 1..(Len(s) - 1) /\ s[i] = Tail(s)[i - 1])
  <2> SUFFICES ASSUME NEW i \in 1..Len(s), i # 1
               PROVE  i - 1 \in 1..(Len(s) - 1) /\ s[i] = Tail(s)[i - 1]
    OBVIOUS
  <2>1. i - 1 \in 1..(Len(s) - 1) /\ (i - 1) + 1 = i
    BY <1>2
  <2>2. QED
    BY <1>2, <2>1
<1>6. Elems(s) \subseteq {Head(s)} \cup Elems(Tail(s))
  <2> SUFFICES ASSUME NEW i \in 1..Len(s) PROVE s[i] \in {Head(s)} \cup Elems(Tail(s))
    BY <1>2 DEF Elems
  <2>1. CASE i = 1
    BY <1>4, <2>1
  <2>2. CASE i # 1
    BY <1>3, <1>5, <2>2 DEF Elems
  <2>3. QED
    BY <2>1, <2>2
<1>7. \A i \in 1..(Len(s) - 1) : i + 1 \in 1..Len(s)
  BY <1>2
<1>8. {Head(s)} \cup Elems(Tail(s)) \subseteq Elems(s)
  BY <1>2, <1>3, <1>4, <1>7 DEF Elems
<1>9. QED
  BY <1>2, <1>3, <1>4, <1>6, <1>8 DEF IsSeq

(* The plans that the code makes, and the steps in them. *)
LEMMA Plan0 == IsSeq(<<>>) /\ Elems(<<>>) = {}
BY DEF IsSeq, Elems
LEMMA Plan1 ==
    \A a :
        IsSeq(<<a>>) /\ Elems(<<a>>) = {a}
<1> TAKE a
<1> DEFINE s == <<a>>
<1>1. s \in Seq({a}) /\ DOMAIN s = 1..1
  OBVIOUS
<1>2. IsSeq(s)
  BY <1>1, SeqIs
<1>3. Elems(s) = {s[i] : i \in 1..1}
  BY <1>1 DEF Elems
<1>4. {s[i] : i \in 1..1} = {a}
  OBVIOUS
<1>5. QED
  BY <1>2, <1>3, <1>4
LEMMA Plan2 ==
    \A a, b :
        IsSeq(<<a, b>>) /\ Elems(<<a, b>>) = {a, b}
<1> TAKE a, b
<1> DEFINE s == <<a, b>>
<1>1. s \in Seq({a, b}) /\ DOMAIN s = 1..2
  OBVIOUS
<1>2. IsSeq(s)
  BY <1>1, SeqIs
<1>3. Elems(s) = {s[i] : i \in 1..2}
  BY <1>1 DEF Elems
<1>4. {s[i] : i \in 1..2} = {a, b}
  OBVIOUS
<1>5. QED
  BY <1>2, <1>3, <1>4
LEMMA Plan3 ==
    \A a, b, c :
        IsSeq(<<a, b, c>>) /\ Elems(<<a, b, c>>) = {a, b, c}
<1> TAKE a, b, c
<1> DEFINE s == <<a, b, c>>
<1>1. s \in Seq({a, b, c}) /\ DOMAIN s = 1..3
  OBVIOUS
<1>2. IsSeq(s)
  BY <1>1, SeqIs
<1>3. Elems(s) = {s[i] : i \in 1..3}
  BY <1>1 DEF Elems
<1>4. {s[i] : i \in 1..3} = {a, b, c}
  OBVIOUS
<1>5. QED
  BY <1>2, <1>3, <1>4
LEMMA Plan4 ==
    \A a, b, c, d :
        IsSeq(<<a, b, c, d>>) /\ Elems(<<a, b, c, d>>) = {a, b, c, d}
<1> TAKE a, b, c, d
<1> DEFINE s == <<a, b, c, d>>
<1>1. s \in Seq({a, b, c, d}) /\ DOMAIN s = 1..4
  OBVIOUS
<1>2. IsSeq(s)
  BY <1>1, SeqIs
<1>3. Elems(s) = {s[i] : i \in 1..4}
  BY <1>1 DEF Elems
<1>4. {s[i] : i \in 1..4} = {a, b, c, d}
  OBVIOUS
<1>5. QED
  BY <1>2, <1>3, <1>4
LEMMA Plan5 ==
    \A a, b, c, d, e :
        IsSeq(<<a, b, c, d, e>>) /\ Elems(<<a, b, c, d, e>>) = {a, b, c, d, e}
<1> TAKE a, b, c, d, e
<1> DEFINE s == <<a, b, c, d, e>>
<1>1. s \in Seq({a, b, c, d, e}) /\ DOMAIN s = 1..5
  OBVIOUS
<1>2. IsSeq(s)
  BY <1>1, SeqIs
<1>3. Elems(s) = {s[i] : i \in 1..5}
  BY <1>1 DEF Elems
<1>4. {s[i] : i \in 1..5} = {a, b, c, d, e}
  OBVIOUS
<1>5. QED
  BY <1>2, <1>3, <1>4
LEMMA Plan7 ==
    \A a, b, c, d, e, f, g :
        IsSeq(<<a, b, c, d, e, f, g>>) /\ Elems(<<a, b, c, d, e, f, g>>) = {a, b, c, d, e, f, g}
<1> TAKE a, b, c, d, e, f, g
<1> DEFINE s == <<a, b, c, d, e, f, g>>
<1>1. s \in Seq({a, b, c, d, e, f, g}) /\ DOMAIN s = 1..7
  OBVIOUS
<1>2. IsSeq(s)
  BY <1>1, SeqIs
<1>3. Elems(s) = {s[i] : i \in 1..7}
  BY <1>1 DEF Elems
<1>4. {s[i] : i \in 1..7} = {a, b, c, d, e, f, g}
  OBVIOUS
<1>5. QED
  BY <1>2, <1>3, <1>4
LEMMA Plan10 ==
    \A a, b, c, d, e, f, g, h, p, q :
        IsSeq(<<a, b, c, d, e, f, g, h, p, q>>) /\ Elems(<<a, b, c, d, e, f, g, h, p, q>>) = {a, b, c, d, e, f, g, h, p, q}
<1> TAKE a, b, c, d, e, f, g, h, p, q
<1> DEFINE s == <<a, b, c, d, e, f, g, h, p, q>>
<1>1. s \in Seq({a, b, c, d, e, f, g, h, p, q}) /\ DOMAIN s = 1..10
  OBVIOUS
<1>2. IsSeq(s)
  BY <1>1, SeqIs
<1>3. Elems(s) = {s[i] : i \in 1..10}
  BY <1>1 DEF Elems
<1>4. {s[i] : i \in 1..10} = {a, b, c, d, e, f, g, h, p, q}
  OBVIOUS
<1>5. QED
  BY <1>2, <1>3, <1>4

-----------------------------------------------------------------------------
(* The threads *)

pc(t) == thread[t].pc
rest(t) == thread[t].call.rest
Asleep(t) == thread[t].st # "runs"
Left(t) == Elems(rest(t))
Todo(t) == IF Working(t) THEN {pc(t)} \cup Left(t) ELSE {}

ThreadOk(r) ==
    /\ DOMAIN r = {"pc", "st", "ev", "call"} /\ DOMAIN r.call = {"op", "rest"}
    /\ IsSeq(r.call.rest) /\ r.st \in {"runs", "sleeps", "woken"}
ThreadsOk == DOMAIN thread = Threads /\ \A t \in Threads : ThreadOk(thread[t])

\* Step l, where it is in the plan of t, is its last.
Final(t, l) ==
    /\ pc(t) = l => rest(t) = <<>>
    /\ \A i \in DOMAIN rest(t) : rest(t)[i] = l => i = Len(rest(t))

LEMMA IdleOk == ThreadOk(Idle(NoCall)) /\ \A t : thread[t] = Idle(NoCall) => ~Working(t)
<1>1. DOMAIN Idle(NoCall) = {"pc", "st", "ev", "call"} /\ Idle(NoCall).call = NoCall
      /\ Idle(NoCall).st = "runs"
  BY DEF Idle
<1>2. DOMAIN NoCall = {"op", "rest"} /\ NoCall.rest = <<>> /\ NoCall.op = None
  BY DEF NoCall
<1>3. QED
  BY <1>1, <1>2, Plan0 DEF ThreadOk, Working

(* Where a thread goes, it runs, and the others stay.                       *)
LEMMA Went ==
    ASSUME ThreadsOk, NEW t \in Threads, NEW l, NEW o, NEW r, IsSeq(r),
           GoWith(t, l, [op |-> o, rest |-> r])
    PROVE  /\ ThreadsOk' /\ pc(t)' = l /\ thread'[t].call.op = o /\ rest(t)' = r
           /\ thread'[t].st = "runs"
           /\ \A u \in Threads \ {t} : thread'[u] = thread[u]
<1> DEFINE c == [op |-> o, rest |-> r]
<1>1. DOMAIN c = {"op", "rest"} /\ c.op = o /\ c.rest = r
  OBVIOUS
<1>2. thread' = [thread EXCEPT ![t] = [Idle(c) EXCEPT !.pc = l]]
  BY DEF GoWith, Moved
<1> HIDE DEF c
<1>3. [Idle(c) EXCEPT !.pc = l] = [pc |-> l, st |-> "runs", ev |-> None, call |-> c]
  BY DEF Idle
<1>4. thread'[t] = [pc |-> l, st |-> "runs", ev |-> None, call |-> c]
  BY <1>2, <1>3 DEF ThreadsOk
<1>5. DOMAIN thread' = Threads /\ \A u \in Threads \ {t} : thread'[u] = thread[u]
  BY <1>2 DEF ThreadsOk
<1>6. ThreadOk(thread'[t])
  BY <1>1, <1>4 DEF ThreadOk
<1>7. QED
  BY <1>1, <1>4, <1>5, <1>6 DEF ThreadsOk, pc, rest

Others(t) == \A u \in Threads \ {t} : thread'[u] = thread[u]

LEMMA Thens ==
    ASSUME ThreadsOk, NEW t \in Threads, Working(t), NEW plan, IsSeq(plan), Then(t, plan)
    PROVE  /\ ThreadsOk' /\ Others(t) /\ thread'[t].st = "runs"
           /\ Todo(t)' = Elems(plan) \cup Left(t)
           /\ \/ plan \o rest(t) = <<>> /\ thread'[t] = Idle(NoCall)
              \/ /\ plan \o rest(t) # <<>> /\ thread'[t].call.op = thread[t].call.op
                 /\ Working(t)'
                 /\ pc(t)' = Head(plan \o rest(t)) /\ rest(t)' = Tail(plan \o rest(t))
<1> DEFINE all == plan \o thread[t].call.rest
<1>1. IsSeq(all) /\ Elems(all) = Elems(plan) \cup Left(t)
  BY ConcatElems DEF ThreadsOk, ThreadOk, Left, rest
<1>2. \/ all = <<>> /\ thread' = [thread EXCEPT ![t] = Idle(NoCall)]
      \/ all # <<>> /\ GoWith(t, Head(all), [op |-> thread[t].call.op, rest |-> Tail(all)])
  BY DEF Then
<1>3. all = plan \o rest(t)
  BY DEF rest
<1> HIDE DEF all
<1>4. CASE all = <<>>
  <2>1. thread'[t] = Idle(NoCall) /\ Others(t) /\ DOMAIN thread' = Threads
    BY <1>2, <1>4 DEF ThreadsOk, Others
  <2>2. ThreadsOk' /\ ~Working(t)'
    BY <2>1, IdleOk DEF ThreadsOk, Others, Working, Idle, NoCall
  <2>3. thread'[t].st = "runs"
    BY <2>1 DEF Idle
  <2>4. Elems(all) = {}
    BY <1>4, Plan0
  <2>5. QED
    BY <1>1, <1>3, <1>4, <2>1, <2>2, <2>3, <2>4 DEF Todo
<1>5. CASE all # <<>>
  <2>1. IsSeq(Tail(all)) /\ Elems(all) = {Head(all)} \cup Elems(Tail(all))
    BY <1>1, <1>5, HeadTailElems
  <2>2. /\ ThreadsOk' /\ pc(t)' = Head(all) /\ thread'[t].call.op = thread[t].call.op
        /\ rest(t)' = Tail(all) /\ thread'[t].st = "runs" /\ Others(t)
    BY <1>2, <1>5, <2>1, Went DEF Others
  <2>3. Working(t)'
    BY <2>2 DEF Working
  <2>4. Todo(t)' = {Head(all)} \cup Elems(Tail(all))
    BY <2>2, <2>3 DEF Todo, Left
  <2>5. QED
    BY <1>1, <1>3, <1>5, <2>1, <2>2, <2>3, <2>4
<1>6. QED
  BY <1>4, <1>5

(* A step that comes last goes on doing so.                                  *)
LEMMA FinalStays ==
    ASSUME ThreadsOk, NEW t \in Threads, Working(t), NEW plan, IsSeq(plan), Then(t, plan),
           NEW l, l # "idle", Final(t, l), l \notin Elems(plan)
    PROVE  Final(t, l)'
<1> DEFINE r == rest(t)
           all == plan \o r
<1>0. IsSeq(r) /\ IsSeq(all)
  BY ConcatElems DEF ThreadsOk, ThreadOk, rest
<1>1. PICK S : plan \in Seq(S) /\ r \in Seq(S)
  <2>1. PICK S, T : plan \in Seq(S) /\ r \in Seq(T)
    BY <1>0 DEF IsSeq
  <2>2. plan \in Seq(S \cup T) /\ r \in Seq(S \cup T)
    BY <2>1, SeqWider
  <2>3. QED
    BY <2>2
<1>2. /\ Len(plan) \in Nat /\ Len(r) \in Nat /\ Len(all) = Len(plan) + Len(r)
      /\ DOMAIN plan = 1..Len(plan) /\ DOMAIN r = 1..Len(r)
      /\ \A i \in 1..(Len(plan) + Len(r)) :
            all[i] = IF i <= Len(plan) THEN plan[i] ELSE r[i - Len(plan)]
  BY <1>1, ConcatProperties, LenProperties
<1>3. \A i \in DOMAIN r : r[i] = l => i = Len(r)
  BY DEF Final
<1>4. \A i \in 1..Len(all) : all[i] = l => i = Len(all)
  <2> SUFFICES ASSUME NEW i \in 1..Len(all), all[i] = l PROVE i = Len(all)
    OBVIOUS
  <2>1. ~(i <= Len(plan))
    <3>1. ASSUME i <= Len(plan) PROVE FALSE
      <4>1. i \in 1..Len(plan) /\ all[i] = plan[i]
        BY <1>2, <3>1
      <4>2. QED
        BY <1>2, <4>1 DEF Elems
    <3>2. QED
      BY <3>1
  <2>2. i - Len(plan) \in 1..Len(r) /\ all[i] = r[i - Len(plan)]
    BY <1>2, <2>1
  <2>3. i - Len(plan) = Len(r)
    BY <1>2, <1>3, <2>2
  <2>4. QED
    BY <1>2, <2>3
<1>5. \/ all = <<>> /\ thread'[t] = Idle(NoCall)
      \/ all # <<>> /\ pc(t)' = Head(all) /\ rest(t)' = Tail(all)
  BY Thens
<1> HIDE DEF all
<1>6. CASE all = <<>> /\ thread'[t] = Idle(NoCall)
  <2>1. pc(t)' = "idle" /\ rest(t)' = <<>>
    BY <1>6 DEF pc, rest, Idle, NoCall
  <2>2. QED
    BY <2>1 DEF Final
<1>7. CASE all # <<>> /\ pc(t)' = Head(all) /\ rest(t)' = Tail(all)
  <2>1. PICK n \in Nat \ {0} : n = Len(all)
    BY <1>0, <1>7, HeadTailElems
  <2>2. /\ Head(all) = all[1] /\ Len(Tail(all)) = n - 1
        /\ DOMAIN Tail(all) = 1..(n - 1) /\ IsSeq(Tail(all))
        /\ \A i \in 1..(n - 1) : Tail(all)[i] = all[i + 1]
    BY <1>0, <1>7, <2>1, HeadTailElems
  <2>3. \A i \in 1..n : all[i] = l => i = n
    BY <1>4, <2>1
  <2>4. all[1] = l => Tail(all) = <<>>
    <3>1. all[1] = l => n = 1
      BY <2>1, <2>3
    <3>2. n = 1 => Len(Tail(all)) = 0
      BY <2>2
    <3>3. Len(Tail(all)) = 0 => Tail(all) = <<>>
      BY <2>2, EmptySeq DEF IsSeq
    <3>4. QED
      BY <3>1, <3>2, <3>3
  <2>5. ASSUME NEW i \in 1..(n - 1), Tail(all)[i] = l PROVE i = n - 1
    <3>1. i + 1 \in 1..n /\ all[i + 1] = l
      BY <2>1, <2>2, <2>5
    <3>2. i + 1 = n
      BY <2>3, <3>1
    <3>3. QED
      BY <2>1, <3>2
  <2>6. QED
    BY <1>7, <2>2, <2>4, <2>5 DEF Final
<1>8. QED
  BY <1>5, <1>6, <1>7

(* To sleep, and to be woken, keeps the calls.                               *)
Keeping ==
    /\ ThreadsOk'
    /\ \A u \in Threads : pc(u)' = pc(u) /\ thread'[u].call = thread[u].call

LEMMA Slept ==
    ASSUME ThreadsOk, NEW t \in Threads, NEW e, SleepsOn(t, e)
    PROVE  Keeping /\ Others(t) /\ thread'[t].st = "sleeps" /\ thread'[t].ev = e
<1>1. DOMAIN thread' = Threads /\ Others(t)
  BY DEF ThreadsOk, SleepsOn, Others
<1>2. thread'[t] = [thread[t] EXCEPT !.st = "sleeps", !.ev = e]
  BY DEF ThreadsOk, SleepsOn
<1>3. /\ DOMAIN thread'[t] = {"pc", "st", "ev", "call"} /\ thread'[t].st = "sleeps"
      /\ thread'[t].ev = e /\ thread'[t].pc = thread[t].pc /\ thread'[t].call = thread[t].call
  BY <1>2 DEF ThreadsOk, ThreadOk
<1>4. QED
  BY <1>1, <1>3 DEF Keeping, ThreadsOk, ThreadOk, Others, pc

(* One sleeper on e is woken, or nobody sleeps on e.                         *)
Woke(e) ==
    \/ Sleepers(e) = {} /\ thread' = thread
    \/ \E t \in Sleepers(e) :
          /\ Others(t) /\ thread'[t].st = "woken" /\ thread'[t].ev = e

LEMMA Woken ==
    ASSUME ThreadsOk, NEW e, NEW t \in Sleepers(e), thread' = [thread EXCEPT ![t].st = "woken"]
    PROVE  Keeping /\ Others(t) /\ thread'[t].st = "woken" /\ thread'[t].ev = e
<1>0. t \in Threads /\ thread[t].ev = e
  BY DEF Sleepers
<1>1. DOMAIN thread' = Threads /\ Others(t)
  BY DEF ThreadsOk, Others
<1>2. thread'[t] = [thread[t] EXCEPT !.st = "woken"]
  BY <1>0 DEF ThreadsOk
<1>3. /\ DOMAIN thread'[t] = {"pc", "st", "ev", "call"} /\ thread'[t].st = "woken"
      /\ thread'[t].ev = e /\ thread'[t].pc = thread[t].pc /\ thread'[t].call = thread[t].call
  BY <1>0, <1>2 DEF ThreadsOk, ThreadOk
<1>4. QED
  BY <1>0, <1>1, <1>3 DEF Keeping, ThreadsOk, ThreadOk, Others, pc

LEMMA Notified ==
    ASSUME ThreadsOk, NEW e, Notify(e)
    PROVE  Keeping /\ Woke(e)
<1>1. CASE Sleepers(e) = {} /\ thread' = thread
  BY <1>1 DEF Keeping, ThreadsOk, Woke, pc
<1>2. ASSUME NEW t \in Sleepers(e), thread' = [thread EXCEPT ![t].st = "woken"]
      PROVE  Keeping /\ Woke(e)
  BY <1>2, Woken DEF Woke
<1>3. QED
  BY <1>1, <1>2 DEF Notify

LEMMA KeepingTodo ==
    ASSUME Keeping, NEW t \in Threads
    PROVE  /\ Working(t)' = Working(t) /\ rest(t)' = rest(t) /\ Left(t)' = Left(t)
           /\ Todo(t)' = Todo(t) /\ \A l : Final(t, l)' = Final(t, l)
BY DEF Keeping, Working, rest, Left, Todo, Final, pc

LEMMA OthersTodo ==
    ASSUME NEW t, Others(t), NEW u \in Threads \ {t}
    PROVE  /\ thread'[u] = thread[u] /\ pc(u)' = pc(u) /\ Working(u)' = Working(u)
           /\ rest(u)' = rest(u) /\ Left(u)' = Left(u) /\ Todo(u)' = Todo(u)
           /\ \A l : Final(u, l)' = Final(u, l)
BY DEF Others, Working, rest, Left, Todo, Final, pc
-----------------------------------------------------------------------------
(* The state, and which thread does which steps                            *)

Shape ==
    /\ ThreadsOk
    /\ DOMAIN nfc = DOMAIN NoFlags /\ DOMAIN interop = DOMAIN NoInterop
    /\ DOMAIN payment = DOMAIN NoPayment /\ DOMAIN swp = DOMAIN NoTimers
    /\ DOMAIN test = DOMAIN NoTest /\ DOMAIN stack = DOMAIN StackOff
    /\ DOMAIN wanted = DOMAIN NothingWanted
    /\ payment.last \in {None, "enable", "disable"}

OnlyService == {"enable", "disable", "unblock", "finalize", "setRouting", "eeRegister"}
Enabling == {"enableDiscovery", "pollOn"}
Stopping == {"stopDiscovery", "stillPolling", "pollOff"}
Discovering == Enabling \cup Stopping \cup {"disableDiscovery"}
OnlyPayment == {"lastRequest", "letThrough", "forget"}
OnlyReader == {"discMap", "dhMap", "notifyRequested", "notifyStop"}
OnlySelfTest == {"registers", "arm", "notification"}

\* The steps S may be some that t has to do.
HomeOf(S, t) ==
    /\ S \cap OnlyService # {} => t = "service"
    /\ S \cap Discovering # {} => t \in {"service", "payment"}
    /\ S \cap OnlyPayment # {} => t = "payment"
    /\ S \cap OnlyReader # {} => t = "swp"
    /\ S \cap {"lockStop", "setTimer"} # {} => t = "tag"
    /\ S \cap {"lockStart", "restored"} # {} => t = "interop"
    /\ S \cap OnlySelfTest # {} => t = "factory"
    /\ t = "factory" => S \subseteq {"vendor", "send"} \cup OnlySelfTest
HomeIn(t) ==
    /\ ~Working(t) => pc(t) = "idle"
    /\ Working(t) => t \in roles
    /\ HomeOf(Todo(t), t)
Home == roles \subseteq Threads /\ \A t \in Threads : HomeIn(t)

Base == Shape /\ Home

\* What a step adds to the plan of the call it is in.
Adds(l) ==
    CASE l = "rfOffIfOn" -> {"rfOff"}
      [] l = "repoll" -> {"startPolling"}
      [] l = "enableDiscovery" ->
            {"rfOffIfOn", "vendor", "p2p", "pollOn", "listen", "rfOn", "discovered"}
      [] l = "listen" -> {"p2p", "uicc"}
      [] l = "disableDiscovery" -> {"abortInterop", "stopDiscovery"}
      [] l = "stopDiscovery" ->
            {"rfOff", "stillPolling", "p2p", "vendor", "listenOff", "rfOn", "modeOff"}
      [] l = "stillPolling" -> {"pollOff"}
      [] l = "listenOff" -> {"uicc", "p2p"}
      [] l = "modeOff" -> {"powerLow"}
      [] l = "setRouting" -> {"proto", "tech", "uicc"}
      [] l = "enable" -> {"rfOffIfOn", "rfOn", "eeRegister", "nfcee", "venConfig", "powerLow"}
      [] l = "nfcee" -> {"getConfig", "nfcee"}
      [] l = "venConfig" -> {"vendor"}
      [] l = "lptd" -> {"getConfig", "setConfig"}
      [] l = "lockStop" -> {"rfOff", "stopPolling", "rfOn", "setTimer"}
      [] l = "lockStart" -> {"rfOff", "startPolling", "rfOn", "restored"}
      [] l = "lastRequest" -> {"letThrough", "enableDiscovery", "disableDiscovery", "forget"}
      [] OTHER -> {}

Adding(t) == \E plan : IsSeq(plan) /\ Elems(plan) \subseteq Adds(pc(t)) /\ Then(t, plan)

\* t goes to l within its plan; another thread may be woken.
Carries(t, l) ==
    /\ ThreadsOk' /\ pc(t)' = l /\ thread'[t].st = "runs" /\ thread'[t].call = thread[t].call
    /\ \A u \in Threads \ {t} : pc(u)' = pc(u) /\ thread'[u].call = thread[u].call
Quits(t) == thread' = [thread EXCEPT ![t] = Idle(NoCall)]

\* What a call may begin with: the stack is started by an initialisation, and
\* discovery changed by calls that do nothing else.
PlanOk(op, plan) ==
    /\ "finalize" \notin Elems(plan)
    /\ "enable" \in Elems(plan) => op = "initialize"
    /\ Elems(plan) \cap Discovering # {} =>
          Tail(plan) = <<>> /\ Head(plan) \in {"enableDiscovery", "disableDiscovery"}
Starts(t) ==
    /\ t \in roles /\ ~Working(t)
    /\ \E op, plan : /\ op # None /\ IsSeq(plan) /\ plan # <<>> /\ HomeOf(Elems(plan), t)
                     /\ PlanOk(op, plan)
                     /\ GoWith(t, Head(plan), [op |-> op, rest |-> Tail(plan)])

Moves(t) ==
    /\ t \in Threads
    /\ \/ Working(t) /\ \/ Adding(t)
                        \/ pc(t) = "vendor" /\ Carries(t, "send")
                        \/ pc(t) = "unblock" /\ Carries(t, "finalize")
                        \/ t \in {"swp", "factory"} /\ Quits(t)
       \/ Starts(t)
Resets == thread' = [t \in Threads |-> Idle(NoCall)]

LEMMA AddsHome ==
    ASSUME NEW t, NEW L, NEW l \in L, HomeOf(L, t), NEW S, S \subseteq Adds(l)
    PROVE  HomeOf(S \cup L, t)
<1>1. /\ Adds(l) \cap OnlyService # {} => l \in OnlyService
      /\ Adds(l) \cap Discovering # {} => l \in Discovering \cup OnlyPayment
      /\ Adds(l) \cap OnlyPayment # {} => l \in OnlyPayment
      /\ Adds(l) \cap (OnlyReader \cup OnlySelfTest) = {}
      /\ Adds(l) \cap {"lockStop", "setTimer"} # {} => l = "lockStop"
      /\ Adds(l) \cap {"lockStart", "restored"} # {} => l = "lockStart"
      /\ l \in {"vendor", "send"} \cup OnlySelfTest => Adds(l) = {}
  BY DEF Adds, OnlyService, Discovering, Enabling, Stopping, OnlyPayment, OnlyReader, OnlySelfTest
<1>2. QED
  BY <1>1 DEF HomeOf

LEMMA HomeFewer ==
    ASSUME NEW t, NEW L, NEW S, S \subseteq L, HomeOf(L, t)
    PROVE  HomeOf(S, t)
BY DEF HomeOf

LEMMA MovesKeep ==
    ASSUME Base, NEW t, Moves(t), roles' = roles
    PROVE  ThreadsOk' /\ Home'
<1>0. t \in Threads /\ ThreadsOk /\ HomeIn(t) /\ \A u \in Threads : HomeIn(u)
  BY DEF Base, Shape, Home, Moves
<1>1. SUFFICES ThreadsOk' /\ HomeIn(t)' /\ \A u \in Threads \ {t} : HomeIn(u)'
  BY DEF Base, Home
<1>2. Others(t) => \A u \in Threads \ {t} : HomeIn(u)'
  BY <1>0, OthersTodo DEF HomeIn
<1>3. ASSUME Working(t), Adding(t) PROVE ThreadsOk' /\ HomeIn(t)' /\ Others(t)
  <2>1. PICK plan : IsSeq(plan) /\ Elems(plan) \subseteq Adds(pc(t)) /\ Then(t, plan)
    BY <1>3 DEF Adding
  <2>2. /\ ThreadsOk' /\ Others(t) /\ Todo(t)' = Elems(plan) \cup Left(t)
        /\ thread'[t] = Idle(NoCall) \/ Working(t)'
    BY <1>0, <1>3, <2>1, Thens
  <2>3. HomeOf(Elems(plan) \cup Todo(t), t)
    BY <1>0, <1>3, <2>1, AddsHome DEF HomeIn, Todo
  <2>4. HomeOf(Elems(plan) \cup Left(t), t)
    BY <1>3, <2>3, HomeFewer DEF Todo
  <2>5. HomeOf(Todo(t)', t)
    BY <2>2, <2>4
  <2>6. Working(t)' => t \in roles'
    BY <1>0, <1>3 DEF HomeIn
  <2>7. thread'[t] = Idle(NoCall) => ~Working(t)' /\ pc(t)' = "idle"
    BY DEF Working, Idle, NoCall, pc
  <2>8. HomeOf(Todo(t), t)'
    BY <2>5 DEF HomeOf
  <2>9. QED
    BY <2>2, <2>6, <2>7, <2>8 DEF HomeIn
<1>4. ASSUME Working(t), NEW l, \/ (pc(t) = "vendor" /\ l = "send")
                                  \/ (pc(t) = "unblock" /\ l = "finalize"),
             Carries(t, l)
      PROVE  ThreadsOk' /\ HomeIn(t)' /\ \A u \in Threads \ {t} : HomeIn(u)'
  <2>1. /\ Working(t)' /\ Todo(t)' = {l} \cup Left(t) /\ Left(t)' = Left(t)
    BY <1>4 DEF Carries, Working, Todo, Left, rest
  <2>2. HomeOf({pc(t)} \cup Left(t), t)
    BY <1>0, <1>4 DEF HomeIn, Todo
  <2>3. HomeOf({l} \cup Left(t), t)
    BY <1>4, <2>2 DEF HomeOf, OnlyService, Discovering, Enabling, Stopping, OnlyPayment, OnlyReader, OnlySelfTest
  <2>4. HomeOf(Todo(t), t)'
    BY <2>1, <2>3 DEF HomeOf
  <2>5. \A u \in Threads \ {t} : /\ Working(u)' = Working(u) /\ Todo(u)' = Todo(u)
                                 /\ pc(u)' = pc(u)
    BY <1>4 DEF Carries, Working, Todo, Left, rest
  <2>6. QED
    BY <1>0, <1>4, <2>1, <2>4, <2>5 DEF HomeIn, HomeOf, Carries
<1>5. ASSUME Quits(t) PROVE ThreadsOk' /\ HomeIn(t)' /\ Others(t)
  <2>1. DOMAIN thread' = Threads /\ thread'[t] = Idle(NoCall) /\ Others(t)
    BY <1>0, <1>5 DEF Quits, ThreadsOk, Others
  <2>2. ThreadsOk' /\ ~Working(t)' /\ pc(t)' = "idle"
    BY <1>0, <2>1, IdleOk DEF ThreadsOk, Others, Working, Idle, NoCall, pc
  <2>3. Todo(t)' = {}
    BY <2>2 DEF Todo
  <2>4. HomeOf(Todo(t), t)'
    BY <2>3 DEF HomeOf
  <2>5. QED
    BY <2>1, <2>2, <2>4 DEF HomeIn
<1>6. ASSUME Starts(t) PROVE ThreadsOk' /\ HomeIn(t)' /\ Others(t)
  <2>1. PICK op, plan : /\ op # None /\ IsSeq(plan) /\ plan # <<>> /\ HomeOf(Elems(plan), t)
                        /\ GoWith(t, Head(plan), [op |-> op, rest |-> Tail(plan)])
    BY <1>6 DEF Starts
  <2>2. IsSeq(Tail(plan)) /\ Elems(plan) = {Head(plan)} \cup Elems(Tail(plan))
    BY <2>1, HeadTailElems
  <2>3. /\ ThreadsOk' /\ pc(t)' = Head(plan) /\ thread'[t].call.op = op /\ rest(t)' = Tail(plan)
        /\ Others(t)
    BY <1>0, <2>1, <2>2, Went DEF Others
  <2>4. Working(t)' /\ Todo(t)' = Elems(plan)
    BY <2>1, <2>2, <2>3 DEF Working, Todo, Left
  <2>5. HomeOf(Todo(t), t)'
    BY <2>1, <2>4 DEF HomeOf
  <2>6. QED
    BY <1>6, <2>3, <2>4, <2>5 DEF HomeIn, Starts
<1>7. CASE Working(t) /\ ((pc(t) = "vendor" /\ Carries(t, "send"))
                          \/ (pc(t) = "unblock" /\ Carries(t, "finalize")))
  BY <1>4, <1>7
<1>8. CASE (Working(t) /\ Adding(t)) \/ Quits(t) \/ Starts(t)
  BY <1>2, <1>3, <1>5, <1>6, <1>8
<1>9. QED
  BY <1>7, <1>8 DEF Moves

LEMMA AddsNothing == ASSUME NEW t, Advance(t) PROVE Adding(t)
BY Plan0 DEF Advance, Adding

LEMMA AtPc ==
    ASSUME NEW t, NEW l, At(t, l) \/ Wakes(t, l)
    PROVE  pc(t) = l
BY DEF At, Wakes, pc

LEMMA AskedSleeps ==
    ASSUME Base, NEW t \in Threads, NEW e, NEW what, Waits(t, e, what) \/ AsksStack(t, e, what)
    PROVE  Keeping
BY Slept DEF Waits, AsksStack, Base, Shape

(* A step of a call at work adds what Adds says, or sleeps; a self-test whose *)
(* command failed ends.                                                      *)
LEMMA CallingAdds ==
    ASSUME Base, NEW t \in roles, calling(t)
    PROVE  /\ pc(t) # "idle"
           /\ Keeping \/ Adding(t) \/ (pc(t) = "vendor" /\ Carries(t, "send"))
              \/ (pc(t) = "unblock" /\ Carries(t, "finalize"))
              \/ (t = "factory" /\ Quits(t))
<1>0. /\ t \in Threads /\ ThreadsOk /\ (pc(t) # "idle" => Working(t))
  BY DEF Base, Shape, Home, HomeIn
<1> USE <1>0
<1>2. CASE startRfDiscovery(t)
  BY <1>2, AtPc, AddsNothing, AskedSleeps DEF startRfDiscovery, Refused, Rf
<1>3. CASE rfDone(t)
  BY <1>3, AtPc, AddsNothing DEF rfDone, Rf
<1>4. CASE rfOffIfOn(t)
  <2>1. PICK plan : plan \in {<<>>, <<"rfOff">>} /\ pc(t) = "rfOffIfOn" /\ Then(t, plan)
    BY <1>4, AtPc DEF rfOffIfOn
  <2>2. IsSeq(plan) /\ Elems(plan) \subseteq Adds(pc(t))
    BY <2>1, Plan0, Plan1 DEF Adds
  <2>3. QED
    BY <2>1, <2>2 DEF Adding
<1>5. CASE polling(t)
  BY <1>5, AtPc, AddsNothing, AskedSleeps DEF polling, Refused, Polls
<1>6. CASE pollingDone(t)
  <2>1. PICK l \in DOMAIN Polls : pc(t) = l /\ Then(t, IF l = "repoll" THEN <<"startPolling">> ELSE <<>>)
    BY <1>6, AtPc DEF pollingDone
  <2>2. CASE l = "repoll"
    <3>1. IsSeq(<<"startPolling">>) /\ Elems(<<"startPolling">>) \subseteq Adds(pc(t))
      BY <2>1, <2>2, Plan1 DEF Adds
    <3>2. QED
      BY <2>1, <2>2, <3>1 DEF Adding
  <2>3. CASE l # "repoll"
    BY <2>1, <2>3, Plan0 DEF Adding, Polls
  <2>4. QED
    BY <2>2, <2>3
<1>7. CASE requests(t)
  BY <1>7, AtPc, AddsNothing, AskedSleeps DEF requests, Refused, EventOf
<1>8. CASE requestDone(t)
  BY <1>8, AtPc, AddsNothing DEF requestDone, EventOf
<1>9. CASE PowerLow(t) \/ linkIsDown(t)
  BY <1>9, AtPc, AddsNothing, Slept DEF PowerLow, linkIsDown
<1>10. CASE enableDiscovery(t)
  <2> DEFINE long == <<"rfOffIfOn", "vendor", "p2p", "pollOn", "listen", "rfOn", "discovered">>
  <2>1. PICK plan : /\ plan \in {<<>>, long}
                    /\ pc(t) = "enableDiscovery" /\ Then(t, plan)
    BY <1>10, AtPc DEF enableDiscovery, PutOff, Advance
  <2>2. IsSeq(plan) /\ Elems(plan) \subseteq Adds(pc(t))
    <3>1. CASE plan = <<>>
      BY <3>1, Plan0
    <3>2. CASE plan = long
      BY <2>1, <3>2, Plan7 DEF Adds
    <3>3. QED
      BY <2>1, <3>1, <3>2
  <2> HIDE DEF long
  <2>3. QED
    BY <2>1, <2>2 DEF Adding
<1>11. CASE listen(t)
  <2>1. PICK plan : plan \in {<<>>, <<"p2p", "uicc", "uicc">>} /\ pc(t) = "listen" /\ Then(t, plan)
    BY <1>11, AtPc DEF listen
  <2>2. IsSeq(plan) /\ Elems(plan) \subseteq Adds(pc(t))
    BY <2>1, Plan0, Plan3 DEF Adds
  <2>3. QED
    BY <2>1, <2>2 DEF Adding
<1>12. CASE discovered(t) \/ routed(t)
  BY <1>12, AtPc, AddsNothing DEF discovered, routed
<1>13. CASE disableDiscovery(t)
  <2>1. PICK plan : /\ plan \in {<<>>, <<"abortInterop", "stopDiscovery">>}
                    /\ pc(t) = "disableDiscovery" /\ Then(t, plan)
    BY <1>13, AtPc DEF disableDiscovery, PutOff, Advance
  <2>2. IsSeq(plan) /\ Elems(plan) \subseteq Adds(pc(t))
    BY <2>1, Plan0, Plan2 DEF Adds
  <2>3. QED
    BY <2>1, <2>2 DEF Adding
<1>14. CASE stopDiscovery(t)
  <2> DEFINE long == <<"rfOff", "stillPolling", "p2p", "vendor", "listenOff", "rfOn", "modeOff">>
  <2>1. PICK plan : plan \in {<<>>, long} /\ pc(t) = "stopDiscovery" /\ Then(t, plan)
    BY <1>14, AtPc DEF stopDiscovery
  <2>2. IsSeq(plan) /\ Elems(plan) \subseteq Adds(pc(t))
    <3>1. CASE plan = <<>>
      BY <3>1, Plan0
    <3>2. CASE plan = long
      BY <2>1, <3>2, Plan7 DEF Adds
    <3>3. QED
      BY <2>1, <3>1, <3>2
  <2> HIDE DEF long
  <2>3. QED
    BY <2>1, <2>2 DEF Adding
<1>15. CASE stillPolling(t)
  <2>1. PICK plan : plan \in {<<>>, <<"pollOff">>} /\ pc(t) = "stillPolling" /\ Then(t, plan)
    BY <1>15, AtPc DEF stillPolling
  <2>2. IsSeq(plan) /\ Elems(plan) \subseteq Adds(pc(t))
    BY <2>1, Plan0, Plan1 DEF Adds
  <2>3. QED
    BY <2>1, <2>2 DEF Adding
<1>16. CASE listenOff(t)
  <2>1. PICK plan : /\ Then(t, plan)
                    /\ \/ pc(t) = "listenOff" /\ plan \in {<<>>, <<"uicc", "uicc", "p2p">>}
                       \/ pc(t) = "modeOff" /\ plan \in {<<>>, <<"powerLow">>}
    BY <1>16, AtPc DEF listenOff, Advance
  <2>2. IsSeq(plan) /\ Elems(plan) \subseteq Adds(pc(t))
    BY <2>1, Plan0, Plan1, Plan3 DEF Adds
  <2>3. QED
    BY <2>1, <2>2 DEF Adding
<1>17. CASE setRouting(t)
  <2>1. PICK plan : plan \in {<<>>, <<"proto", "tech", "uicc">>} /\ pc(t) = "setRouting" /\ Then(t, plan)
    BY <1>17, AtPc DEF setRouting
  <2>2. IsSeq(plan) /\ Elems(plan) \subseteq Adds(pc(t))
    BY <2>1, Plan0, Plan3 DEF Adds
  <2>3. QED
    BY <2>1, <2>2 DEF Adding
<1>18. CASE enable(t) \/ disable(t) \/ disabled(t) \/ finalize(t)
  BY <1>18, AtPc, AddsNothing, AskedSleeps DEF enable, disable, disabled, finalize
<1>19. CASE enabled(t)
  <2> DEFINE more == <<"eeRegister", "nfcee", "venConfig", "powerLow">>
  <2>1. PICK plan : plan \in {<<>>, SetListenMode \o more} /\ pc(t) = "enable" /\ Then(t, plan)
    BY <1>19, AtPc DEF enabled
  <2>2. /\ IsSeq(SetListenMode) /\ Elems(SetListenMode) = {"rfOffIfOn", "rfOn"}
        /\ IsSeq(more) /\ Elems(more) = {"eeRegister", "nfcee", "venConfig", "powerLow"}
    BY Plan2, Plan4 DEF SetListenMode
  <2>3. IsSeq(plan) /\ Elems(plan) \subseteq Adds(pc(t))
    <3>1. CASE plan = <<>>
      BY <3>1, Plan0
    <3>2. CASE plan = SetListenMode \o more
      <4> HIDE DEF more
      <4>1. IsSeq(plan) /\ Elems(plan) = Elems(SetListenMode) \cup Elems(more)
        BY <2>2, <3>2, ConcatElems
      <4>2. QED
        BY <2>1, <2>2, <4>1 DEF Adds
    <3>3. QED
      BY <2>1, <3>1, <3>2
  <2> HIDE DEF more
  <2>4. QED
    BY <2>1, <2>3 DEF Adding
<1>20. CASE checkforNfceeConfig(t)
  <2>1. PICK plan : plan \in {<<>>, <<"getConfig", "nfcee">>} /\ pc(t) = "nfcee" /\ Then(t, plan)
    BY <1>20, AtPc DEF checkforNfceeConfig, Advance
  <2>2. IsSeq(plan) /\ Elems(plan) \subseteq Adds(pc(t))
    BY <2>1, Plan0, Plan2 DEF Adds
  <2>3. QED
    BY <2>1, <2>2 DEF Adding
<1>21. CASE VenConfig(t)
  <2>1. PICK plan : plan \in {<<>>, <<"vendor">>} /\ pc(t) = "venConfig" /\ Then(t, plan)
    BY <1>21, AtPc DEF VenConfig, Advance
  <2>2. IsSeq(plan) /\ Elems(plan) \subseteq Adds(pc(t))
    BY <2>1, Plan0, Plan1 DEF Adds
  <2>3. QED
    BY <2>1, <2>2 DEF Adding
<1>22. CASE unblock(t)
  <2> DEFINE finalizes == [Idle(thread[t].call) EXCEPT !.pc = "finalize"]
  <2>0. pc(t) = "unblock" /\ thread[t].st = "runs"
    BY <1>22 DEF unblock, At, pc
  <2>1. finalizes = [pc |-> "finalize", st |-> "runs", ev |-> None, call |-> thread[t].call]
    BY DEF Idle
  <2>2. /\ ThreadOk(finalizes) /\ finalizes.pc = "finalize" /\ finalizes.st = "runs"
        /\ finalizes.call = thread[t].call
    BY <2>1 DEF ThreadsOk, ThreadOk
  <2>3. \/ thread' = [thread EXCEPT ![t] = finalizes]
        \/ \E u \in Sleepers("poll") : thread' = [thread EXCEPT ![u].st = "woken", ![t] = finalizes]
    BY <1>22 DEF unblock
  <2> HIDE DEF finalizes
  <2>4. CASE thread' = [thread EXCEPT ![t] = finalizes]
    BY <2>0, <2>2, <2>4 DEF Carries, ThreadsOk, pc
  <2>5. ASSUME NEW u \in Sleepers("poll"),
               thread' = [thread EXCEPT ![u].st = "woken", ![t] = finalizes]
        PROVE  Carries(t, "finalize")
    <3>1. u \in Threads /\ u # t
      BY <2>0, <2>5 DEF Sleepers
    <3>2. /\ DOMAIN thread' = Threads /\ thread'[t] = finalizes
          /\ thread'[u] = [thread[u] EXCEPT !.st = "woken"]
          /\ \A v \in Threads \ {t, u} : thread'[v] = thread[v]
      BY <2>5, <3>1 DEF ThreadsOk
    <3>3. /\ ThreadOk(thread'[u]) /\ thread'[u].pc = thread[u].pc
          /\ thread'[u].call = thread[u].call
      BY <3>1, <3>2 DEF ThreadsOk, ThreadOk
    <3>4. QED
      BY <2>2, <3>1, <3>2, <3>3 DEF Carries, ThreadsOk, pc
  <2>6. QED
    BY <2>0, <2>3, <2>4, <2>5
<1>23. CASE enableDisableLptd(t)
  <2>1. PICK plan : /\ plan \in {<<>>, <<"getConfig">>, <<"setConfig">>, <<"getConfig", "setConfig">>}
                    /\ pc(t) = "lptd" /\ Then(t, plan)
    BY <1>23, AtPc DEF enableDisableLptd
  <2>2. IsSeq(plan) /\ Elems(plan) \subseteq Adds(pc(t))
    BY <2>1, Plan0, Plan1, Plan2 DEF Adds
  <2>3. QED
    BY <2>1, <2>2 DEF Adding
<1>24. CASE pn544InteropAbortNow(t)
  BY <1>24, AtPc, AddsNothing DEF pn544InteropAbortNow
<1>25. CASE SetCbStatus(t)
  <2>1. pc(t) = "vendor" /\ thread' = [thread EXCEPT ![t] = [Idle(thread[t].call) EXCEPT !.pc = "send"]]
    BY <1>25, AtPc DEF SetCbStatus, Go, GoWith, Moved
  <2>2. [Idle(thread[t].call) EXCEPT !.pc = "send"]
            = [pc |-> "send", st |-> "runs", ev |-> None, call |-> thread[t].call]
    BY DEF Idle
  <2>3. QED
    BY <2>1, <2>2 DEF Carries, ThreadsOk, ThreadOk, pc
<1>26. CASE SendNxpNciCommand(t) \/ vendorDone(t)
  BY <1>26, AtPc, AddsNothing, AskedSleeps DEF SendNxpNciCommand, vendorDone, Outcome, Quits
<1>27. QED
  BY <1>2, <1>3, <1>4, <1>5, <1>6, <1>7, <1>8, <1>9, <1>10, <1>11, <1>12, <1>13, <1>14, <1>15,
     <1>16, <1>17, <1>18, <1>19, <1>20, <1>21, <1>22, <1>23, <1>24, <1>25, <1>26 DEF calling

LEMMA CallingMoves ==
    ASSUME Base, NEW t \in roles, calling(t)
    PROVE  Keeping \/ Moves(t)
BY CallingAdds DEF Base, Shape, Home, HomeIn, Moves

(* The calls that begin. *)
LEMMA Begins ==
    ASSUME Base, NEW t, NEW op, NEW plan, Begin(t, op, plan), op # None, IsSeq(plan),
           plan # <<>>, HomeOf(Elems(plan), t), PlanOk(op, plan)
    PROVE  Moves(t) /\ Starts(t)
BY DEF Begin, Moves, Starts, Base, Home

LEMMA BeginsOne ==
    ASSUME Base, NEW t, NEW op, NEW l, Begin(t, op, <<l>>), op # None, HomeOf({l}, t),
           l # "finalize", l = "enable" => op = "initialize",
           l \in Discovering => l \in {"enableDiscovery", "disableDiscovery"}
    PROVE  Moves(t) /\ Starts(t)
<1>1. IsSeq(<<l>>) /\ Elems(<<l>>) = {l} /\ <<l>> # <<>> /\ Head(<<l>>) = l /\ Tail(<<l>>) = <<>>
  BY Plan1
<1>2. PlanOk(op, <<l>>)
  BY <1>1 DEF PlanOk
<1>3. QED
  BY <1>1, <1>2, Begins

LEMMA ReaderPlans ==
    /\ IsSeq(ReaderRequested) /\ ReaderRequested # <<>>
    /\ Elems(ReaderRequested) = {"rfOffIfOn", "discMap", "p2p", "uicc", "stopPolling",
                                 "startPolling", "rfOn", "notifyRequested"}
    /\ IsSeq(ReaderStop) /\ ReaderStop # <<>>
    /\ Elems(ReaderStop) = {"rfOff", "dhMap", "uicc", "p2p", "stopPolling", "startPolling",
                            "rfOn", "notifyStop"}
<1>1. IsSeq(ReaderRequested) /\ ReaderRequested # <<>>
      /\ Elems(ReaderRequested) = {"rfOffIfOn", "discMap", "p2p", "uicc", "stopPolling",
                                   "startPolling", "rfOn", "notifyRequested"}
  BY Plan10 DEF ReaderRequested
<1> DEFINE a == <<"rfOff", "dhMap", "uicc", "p2p", "stopPolling">>
           b == startStopPolling(TRUE)
           c == <<"notifyStop">>
<1>2. /\ IsSeq(a) /\ Elems(a) = {"rfOff", "dhMap", "uicc", "p2p", "stopPolling"}
      /\ IsSeq(b) /\ Elems(b) = {"rfOff", "startPolling", "rfOn"}
      /\ IsSeq(c) /\ Elems(c) = {"notifyStop"}
      /\ ReaderStop = a \o b \o c
  BY Plan5, Plan3, Plan1 DEF startStopPolling, ReaderStop
<1> HIDE DEF a, b, c
<1>3. IsSeq(a \o b) /\ Elems(a \o b) = Elems(a) \cup Elems(b)
  BY <1>2, ConcatElems
<1>4. IsSeq((a \o b) \o c) /\ Elems((a \o b) \o c) = Elems(a \o b) \cup Elems(c)
  BY <1>2, <1>3, ConcatElems
<1>5. (a \o b) \o c = ReaderStop
  BY <1>2
<1>6. IsSeq(ReaderStop) /\ Elems(ReaderStop) = Elems(a) \cup Elems(b) \cup Elems(c)
  BY <1>3, <1>4, <1>5
<1>7. ReaderStop # <<>>
  BY <1>2, <1>6, Plan0
<1>8. QED
  BY <1>1, <1>2, <1>6, <1>7

LEMMA JniMoves == ASSUME Base, jniCalls PROVE \E t \in {"service", "routes"} : Moves(t) /\ Starts(t)
<1>0. "service" \in Threads /\ "routes" \in Threads
  BY ThreadsAssumption
<1> USE DEF PlanOk, HomeOf, OnlyService, Discovering, Enabling, Stopping, OnlyPayment, OnlyReader, OnlySelfTest
<1>1. CASE doInitialize
  BY <1>1, BeginsOne, NoneAssumption DEF doInitialize, Calls
<1>2. CASE doDeinitialize
  <2> DEFINE plan == <<"abortInterop", "rfOff", "venConfig", "disable", "unblock">>
  <2>1. Begin("service", "deinitialize", plan)
    BY <1>2 DEF doDeinitialize, Calls
  <2>2. IsSeq(plan) /\ Elems(plan) = {"abortInterop", "rfOff", "venConfig", "disable", "unblock"}
        /\ plan # <<>>
    BY Plan5
  <2> HIDE DEF plan
  <2>3. HomeOf(Elems(plan), "service") /\ PlanOk("deinitialize", plan)
    BY <2>2
  <2>4. QED
    BY <2>1, <2>2, <2>3, Begins, NoneAssumption
<1>3. CASE serviceCalls
  BY <1>3, BeginsOne, NoneAssumption DEF serviceCalls, Calls
<1>4. CASE enableRoutingToHost
  <2> DEFINE plan == <<"rfOffIfOn", "setRouting", "hceOn", "rfOn">>
  <2>1. Begin("service", "enableRouting", plan)
    BY <1>4 DEF enableRoutingToHost, Calls
  <2>2. IsSeq(plan) /\ Elems(plan) = {"rfOffIfOn", "setRouting", "hceOn", "rfOn"} /\ plan # <<>>
    BY Plan4
  <2> HIDE DEF plan
  <2>3. HomeOf(Elems(plan), "service") /\ PlanOk("enableRouting", plan)
    BY <2>2
  <2>4. QED
    BY <2>1, <2>2, <2>3, Begins, NoneAssumption
<1>5. CASE disableRoutingToHost
  <2> DEFINE long == <<"rfOff", "setRouting", "hceOff", "rfOn">>
             short == <<"setRouting", "hceOff">>
             first == IF nfc.rf THEN long ELSE short
             plan == first \o <<"modeOff">>
  <2>1. Begin("service", "disableRouting", plan)
    BY <1>5 DEF disableRoutingToHost, Calls
  <2>2. /\ IsSeq(long) /\ Elems(long) = {"rfOff", "setRouting", "hceOff", "rfOn"}
        /\ IsSeq(short) /\ Elems(short) = {"setRouting", "hceOff"}
        /\ IsSeq(<<"modeOff">>) /\ Elems(<<"modeOff">>) = {"modeOff"}
    BY Plan4, Plan2, Plan1
  <2> HIDE DEF long, short
  <2>3. IsSeq(first) /\ Elems(first) \subseteq {"rfOff", "setRouting", "hceOff", "rfOn"}
    BY <2>2
  <2> HIDE DEF first
  <2>4. IsSeq(plan) /\ Elems(plan) = Elems(first) \cup {"modeOff"}
    BY <2>2, <2>3, ConcatElems
  <2> HIDE DEF plan
  <2>5. plan # <<>> /\ HomeOf(Elems(plan), "service") /\ PlanOk("disableRouting", plan)
    BY <2>3, <2>4, Plan0
  <2>6. QED
    BY <2>1, <2>4, <2>5, Begins, NoneAssumption
<1>6. CASE routes
  <2>1. CASE \E l \in {"addAid", "clearAid"} : Calls("routes", "aid", <<l>>)
    BY <2>1, BeginsOne, NoneAssumption DEF Calls
  <2>2. ASSUME NEW l \in {"tech", "proto"},
               Calls("service", "setDefaultRoute", <<"rfOffIfOn", l, "rfOn">>)
        PROVE  \E t \in {"service", "routes"} : Moves(t) /\ Starts(t)
    <3> DEFINE plan == <<"rfOffIfOn", l, "rfOn">>
    <3>1. IsSeq(plan) /\ Elems(plan) = {"rfOffIfOn", l, "rfOn"} /\ plan # <<>>
      BY Plan3
    <3>2. Begin("service", "setDefaultRoute", plan)
      BY <2>2 DEF Calls
    <3> HIDE DEF plan
    <3>3. HomeOf(Elems(plan), "service") /\ PlanOk("setDefaultRoute", plan)
      BY <3>1
    <3>4. QED
      BY <3>1, <3>2, <3>3, Begins, NoneAssumption
  <2>3. QED
    BY <1>6, <2>1, <2>2 DEF routes
<1>7. ASSUME NEW on \in BOOLEAN, ReaderMode(on) PROVE \E t \in {"service", "routes"} : Moves(t) /\ Starts(t)
  <2> DEFINE a == <<"p2p", "lptd">>
             plan == a \o restartPollingWithTechMask
  <2>1. Begin("service", "readerMode", plan)
    BY <1>7 DEF ReaderMode, Calls
  <2>2. /\ IsSeq(a) /\ Elems(a) = {"p2p", "lptd"} /\ IsSeq(restartPollingWithTechMask)
        /\ Elems(restartPollingWithTechMask) = {"rfOff", "repoll", "rfOn"}
    BY Plan2, Plan3 DEF restartPollingWithTechMask
  <2> HIDE DEF a
  <2>3. IsSeq(plan) /\ Elems(plan) = Elems(a) \cup Elems(restartPollingWithTechMask)
    BY <2>2, ConcatElems
  <2> HIDE DEF plan
  <2>4. plan # <<>> /\ HomeOf(Elems(plan), "service") /\ PlanOk("readerMode", plan)
    BY <2>2, <2>3, Plan0
  <2>5. QED
    BY <2>1, <2>3, <2>4, Begins, NoneAssumption
<1>8. QED
  BY <1>1, <1>2, <1>3, <1>4, <1>5, <1>6, <1>7 DEF jniCalls

LEMMA ExtraMoves == ASSUME Base, extras PROVE Keeping \/ \E t : Moves(t)
<1>0. /\ {"tag", "interop", "swp", "factory", "payment"} \subseteq Threads /\ ThreadsOk
      /\ \A t \in Threads : pc(t) # "idle" => Working(t)
  BY ThreadsAssumption DEF Base, Shape, Home, HomeIn
<1>1. ASSUME NEW t \in Threads, pc(t) # "idle", Adding(t) PROVE Moves(t)
  BY <1>0, <1>1 DEF Moves
<1>2. ASSUME NEW t \in Threads, NEW l, l # "idle", At(t, l) \/ Wakes(t, l), Advance(t) PROVE Moves(t)
  BY <1>1, <1>2, AtPc, AddsNothing
<1>3. UNCHANGED thread => Keeping
  BY <1>0 DEF Keeping, ThreadsOk, pc
<1>a. CASE interopStop
  BY <1>a, BeginsOne, NoneAssumption DEF interopStop, HomeOf, OnlyService, Discovering, Enabling,
     Stopping, OnlyPayment, OnlyReader, OnlySelfTest
<1>b. CASE interopLocked
  <2> DEFINE a == startStopPolling(FALSE)
             plan == a \o <<"setTimer">>
  <2>1. pc("tag") = "lockStop" /\ Then("tag", plan)
    BY <1>b, AtPc DEF interopLocked
  <2>2. /\ IsSeq(a) /\ Elems(a) = {"rfOff", "stopPolling", "rfOn"}
        /\ IsSeq(<<"setTimer">>) /\ Elems(<<"setTimer">>) = {"setTimer"}
    BY Plan1, Plan3 DEF startStopPolling
  <2> HIDE DEF a
  <2>3. IsSeq(plan) /\ Elems(plan) = Elems(a) \cup {"setTimer"}
    BY <2>2, ConcatElems
  <2> HIDE DEF plan
  <2>4. Adding("tag")
    BY <2>1, <2>2, <2>3 DEF Adding, Adds
  <2>5. QED
    BY <1>0, <1>1, <2>1, <2>4
<1>c. CASE interopStopped \/ interopStarted
  BY <1>0, <1>2, <1>c DEF interopStopped, interopStarted
<1>d. CASE interopTimer
  BY <1>d, BeginsOne, NoneAssumption DEF interopTimer, HomeOf, OnlyService, Discovering, Enabling,
     Stopping, OnlyPayment, OnlyReader, OnlySelfTest
<1>e. CASE pn544InteropStartPolling
  <2> DEFINE a == startStopPolling(TRUE)
             plan == a \o <<"restored">>
  <2>1. At("interop", "lockStart") /\ (Advance("interop") \/ Then("interop", plan))
    BY <1>e DEF pn544InteropStartPolling
  <2>2. /\ IsSeq(a) /\ Elems(a) = {"rfOff", "startPolling", "rfOn"}
        /\ IsSeq(<<"restored">>) /\ Elems(<<"restored">>) = {"restored"}
    BY Plan1, Plan3 DEF startStopPolling
  <2> HIDE DEF a
  <2>3. IsSeq(plan) /\ Elems(plan) = Elems(a) \cup {"restored"}
    BY <2>2, ConcatElems
  <2> HIDE DEF plan
  <2>4. Then("interop", plan) => Adding("interop")
    BY <2>1, <2>2, <2>3, AtPc DEF Adding, Adds
  <2>5. QED
    BY <1>0, <1>1, <1>2, <2>1, <2>4, AtPc
<1>f. CASE eeReaderEvent \/ startStopSwpReaderProc
  <2>1. /\ HomeOf(Elems(ReaderRequested), "swp") /\ HomeOf(Elems(ReaderStop), "swp")
        /\ PlanOk("swp", ReaderRequested) /\ PlanOk("swp", ReaderStop)
    BY ReaderPlans DEF PlanOk, HomeOf, OnlyService, Discovering, Enabling, Stopping, OnlyPayment, OnlyReader,
       OnlySelfTest
  <2>2. PICK plan \in {ReaderRequested, ReaderStop} : Begin("swp", "swp", plan)
    BY <1>f DEF eeReaderEvent, startStopSwpReaderProc
  <2>3. QED
    BY <2>1, <2>2, ReaderPlans, Begins, NoneAssumption
<1>g. CASE mapRefused
  <2>1. pc("swp") # "idle" /\ Quits("swp")
    BY <1>g, AtPc DEF mapRefused, Quits
  <2>2. QED
    BY <1>0, <2>1 DEF Moves
<1>h. CASE notifyEEReaderEvent
  BY <1>0, <1>2, <1>h DEF notifyEEReaderEvent
<1>i. CASE Nxp_SelfTest
  <2>1. PICK op \in DOMAIN SelfTests : Begin("factory", op, SelfTests[op])
    BY <1>i DEF Nxp_SelfTest
  <2>2. op \in {"prbsOn", "prbsOff", "swp"}
    BY <2>1 DEF SelfTests
  <2>3. /\ IsSeq(SelfTests[op]) /\ SelfTests[op] # <<>>
        /\ Elems(SelfTests[op]) \subseteq {"vendor", "registers", "arm", "notification"}
    <3>1. CASE op = "prbsOn"
      BY <3>1, Plan1 DEF SelfTests
    <3>2. CASE op = "prbsOff"
      BY <3>2, Plan3 DEF SelfTests
    <3>3. CASE op = "swp"
      BY <3>3, Plan7 DEF SelfTests
    <3>4. QED
      BY <2>2, <3>1, <3>2, <3>3
  <2>4. HomeOf(Elems(SelfTests[op]), "factory") /\ PlanOk(op, SelfTests[op])
    BY <2>3 DEF PlanOk, HomeOf, OnlyService, Discovering, Enabling, Stopping, OnlyPayment, OnlyReader, OnlySelfTest
  <2>5. QED
    BY <2>1, <2>2, <2>3, <2>4, Begins, NoneAssumption
<1>j. CASE prepares \/ SWPSelfTest
  BY <1>0, <1>2, <1>j DEF prepares, SWPSelfTest
<1>k. CASE awaits
  BY <1>0, <1>k, Slept DEF awaits
<1>l. CASE nfaNxpSelfTestNtfTimerCb
  BY <1>0, <1>l, Notified DEF nfaNxpSelfTestNtfTimerCb
<1>m. CASE enableThread
  <2> DEFINE again == IF payment.last = None THEN <<>> ELSE PutOffCall[payment.last]
             first == <<"letThrough">>
             plan == first \o again \o <<"forget">>
  <2>1. CASE At("payment", "lastRequest") /\ Then("payment", plan)
    <3>1. pc("payment") = "lastRequest"
      BY <2>1, AtPc
    <3>2. Adding("payment")
      <4>1. again \in {<<>>, <<"enableDiscovery">>, <<"disableDiscovery">>}
        BY DEF Base, Shape, PutOffCall
      <4>2. /\ IsSeq(again) /\ Elems(again) \subseteq {"enableDiscovery", "disableDiscovery"}
            /\ IsSeq(first) /\ Elems(first) = {"letThrough"}
            /\ IsSeq(<<"forget">>) /\ Elems(<<"forget">>) = {"forget"}
        BY <4>1, Plan0, Plan1
      <4> HIDE DEF again, first
      <4>3. IsSeq(first \o again) /\ Elems(first \o again) = Elems(first) \cup Elems(again)
        BY <4>2, ConcatElems
      <4>4. IsSeq(plan) /\ Elems(plan) = Elems(first \o again) \cup {"forget"}
        BY <4>2, <4>3, ConcatElems
      <4> HIDE DEF plan
      <4>5. Elems(plan) \subseteq Adds(pc("payment")) /\ Then("payment", plan)
        BY <2>1, <3>1, <4>2, <4>3, <4>4 DEF Adds, plan, again, first
      <4>6. QED
        BY <4>4, <4>5 DEF Adding
    <3>3. QED
      BY <1>0, <1>1, <3>1, <3>2
  <2>2. CASE (At("payment", "letThrough") \/ At("payment", "forget")) /\ Advance("payment")
    BY <1>0, <1>2, <2>2
  <2>3. QED
    BY <1>m, <2>1, <2>2 DEF enableThread
<1>n. QED
  BY <1>a, <1>b, <1>c, <1>d, <1>e, <1>f, <1>g, <1>h, <1>i, <1>j, <1>k, <1>l, <1>m DEF extras

LEMMA CallbackMoves == ASSUME Base, callbacks PROVE Keeping \/ Resets \/ \E t : Moves(t)
<1>0. ThreadsOk
  BY DEF Base, Shape
<1>1. UNCHANGED thread => Keeping
  BY <1>0 DEF Keeping, ThreadsOk, pc
<1>2. ASSUME NEW r, Answers(r) PROVE Keeping
  BY <1>0, <1>2, Notified DEF Answers
<1>3. CASE NxpResponse_Cb \/ nfaDone \/ NFA_DM_ENABLE_EVT \/ NFA_DM_DISABLE_EVT
  BY <1>2, <1>3 DEF NxpResponse_Cb, nfaDone, NFA_DM_ENABLE_EVT, NFA_DM_DISABLE_EVT
<1>4. CASE nfaNxpSelfTestNtfCallback \/ NFA_DEACTIVATED_EVT
  BY <1>0, <1>4, Notified DEF nfaNxpSelfTestNtfCallback, NFA_DEACTIVATED_EVT
<1>5. CASE NFA_ACTIVATED_EVT \/ pn544InteropIsBusy \/ NFA_EE_ACTION_EVT
  BY <1>1, <1>5 DEF NFA_ACTIVATED_EVT, pn544InteropIsBusy, NFA_EE_ACTION_EVT
<1>6. CASE NFA_DM_NFCC_TRANSPORT_ERR_EVT
  BY <1>6 DEF NFA_DM_NFCC_TRANSPORT_ERR_EVT, Resets
<1>7. CASE NFA_DM_RF_FIELD_EVT
  <2>1. UNCHANGED thread \/ Begin("payment", "payment", <<"lastRequest">>)
    BY <1>7 DEF NFA_DM_RF_FIELD_EVT
  <2>2. HomeOf({"lastRequest"}, "payment") /\ "lastRequest" \notin Discovering
    BY DEF HomeOf, OnlyService, Discovering, Enabling, Stopping, OnlyPayment, OnlyReader, OnlySelfTest
  <2>3. QED
    BY <1>1, <2>1, <2>2, BeginsOne, NoneAssumption
<1>8. QED
  BY <1>3, <1>4, <1>5, <1>6, <1>7 DEF callbacks

LEMMA NextMoves == ASSUME Base, Next PROVE Keeping \/ Resets \/ \E t : Moves(t)
BY JniMoves, ExtraMoves, CallbackMoves, CallingMoves DEF Next

(* No step changes which threads there are, nor the fields of the records.   *)
Fields ==
    /\ DOMAIN nfc' = DOMAIN nfc /\ DOMAIN interop' = DOMAIN interop
    /\ DOMAIN payment' = DOMAIN payment /\ DOMAIN swp' = DOMAIN swp
    /\ DOMAIN test' = DOMAIN test /\ DOMAIN stack' = DOMAIN stack
    /\ DOMAIN wanted' = DOMAIN wanted
    /\ payment'.last \in {payment.last, None, "enable", "disable"}

LEMMA CallingFields == ASSUME Shape, NEW t, calling(t) PROVE Fields /\ roles' = roles
<1> USE DEF Fields, fixed, features
<1>1. CASE startRfDiscovery(t) \/ rfDone(t) \/ rfOffIfOn(t) \/ polling(t) \/ pollingDone(t)
  BY <1>1 DEF startRfDiscovery, rfDone, rfOffIfOn, polling, pollingDone, Refused
<1>2. CASE requests(t) \/ requestDone(t) \/ PowerLow(t) \/ linkIsDown(t)
  BY <1>2 DEF requests, requestDone, PowerLow, linkIsDown, Refused, Noted, Stored
<1>3. CASE enableDiscovery(t) \/ disableDiscovery(t)
  <2>1. payment' = payment \/ \E l \in {"enable", "disable"} : payment' = [payment EXCEPT !.last = l]
    BY <1>3 DEF enableDiscovery, disableDiscovery, PutOff
  <2>2. DOMAIN payment' = DOMAIN payment /\ payment'.last \in {payment.last, "enable", "disable"}
    BY <2>1 DEF Shape, NoPayment
  <2>3. QED
    BY <1>3, <2>2 DEF enableDiscovery, disableDiscovery, Wants
<1>4. CASE listen(t) \/ discovered(t) \/ stopDiscovery(t) \/ stillPolling(t) \/ listenOff(t)
  BY <1>4 DEF listen, discovered, stopDiscovery, stillPolling, listenOff
<1>5. CASE routed(t) \/ setRouting(t) \/ enable(t) \/ enabled(t) \/ checkforNfceeConfig(t)
  BY <1>5 DEF routed, setRouting, enable, enabled, checkforNfceeConfig
<1>6. CASE VenConfig(t) \/ disable(t) \/ disabled(t) \/ unblock(t)
  BY <1>6 DEF VenConfig, disable, disabled, unblock
<1>7. CASE finalize(t) \/ enableDisableLptd(t) \/ pn544InteropAbortNow(t)
  BY <1>7 DEF finalize, enableDisableLptd, pn544InteropAbortNow, Shape
<1>8. CASE SetCbStatus(t) \/ SendNxpNciCommand(t) \/ vendorDone(t)
  BY <1>8 DEF SetCbStatus, SendNxpNciCommand, vendorDone
<1>9. QED
  BY <1>1, <1>2, <1>3, <1>4, <1>5, <1>6, <1>7, <1>8 DEF calling

LEMMA NextFields == ASSUME Shape, Next PROVE Fields /\ roles' = roles
<1>1. CASE jniCalls
  BY <1>1 DEF jniCalls, doInitialize, doDeinitialize, serviceCalls, enableRoutingToHost,
     disableRoutingToHost, routes, ReaderMode, Calls, Fields, features
<1>2. CASE extras
  <2> USE DEF Fields, fixed, features, Shape
  <2>1. CASE interopStop \/ interopLocked \/ interopStopped \/ interopTimer
             \/ pn544InteropStartPolling \/ interopStarted
    BY <2>1 DEF interopStop, interopLocked, interopStopped, interopTimer,
       pn544InteropStartPolling, interopStarted, NoInterop
  <2>2. CASE eeReaderEvent \/ startStopSwpReaderProc \/ mapRefused \/ notifyEEReaderEvent
    BY <2>2 DEF eeReaderEvent, startStopSwpReaderProc, mapRefused, notifyEEReaderEvent
  <2>3. CASE Nxp_SelfTest \/ prepares \/ awaits \/ nfaNxpSelfTestNtfTimerCb \/ SWPSelfTest
    BY <2>3 DEF Nxp_SelfTest, prepares, awaits, nfaNxpSelfTestNtfTimerCb, SWPSelfTest
  <2>4. CASE enableThread
    <3>1. payment' \in {payment, NoPayment} \/ payment' = [payment EXCEPT !.progress = FALSE]
      BY <2>4 DEF enableThread
    <3>2. DOMAIN payment' = DOMAIN payment /\ payment'.last \in {payment.last, None}
      BY <3>1 DEF NoPayment
    <3>3. QED
      BY <2>4, <3>2 DEF enableThread
  <2>5. QED
    BY <1>2, <2>1, <2>2, <2>3, <2>4 DEF extras
<1>3. CASE callbacks
  <2> USE DEF Fields, fixed, features, Shape
  <2>1. CASE NxpResponse_Cb \/ nfaNxpSelfTestNtfCallback \/ nfaDone \/ NFA_DM_ENABLE_EVT
             \/ NFA_DM_DISABLE_EVT \/ pn544InteropIsBusy \/ NFA_DEACTIVATED_EVT
    BY <2>1 DEF NxpResponse_Cb, nfaNxpSelfTestNtfCallback, nfaDone, NFA_DM_ENABLE_EVT,
       NFA_DM_DISABLE_EVT, pn544InteropIsBusy, NFA_DEACTIVATED_EVT
  <2>2. CASE NFA_DM_NFCC_TRANSPORT_ERR_EVT
    BY <2>2 DEF NFA_DM_NFCC_TRANSPORT_ERR_EVT, NoPayment
  <2>3. CASE NFA_ACTIVATED_EVT
    <3>1. payment' = payment \/ payment' = [payment EXCEPT !.state = "activated"]
      BY <2>3 DEF NFA_ACTIVATED_EVT
    <3>2. DOMAIN payment' = DOMAIN payment /\ payment'.last = payment.last
      BY <3>1 DEF NoPayment
    <3>3. swp' = swp \/ swp' = [start |-> FALSE, stop |-> TRUE]
      BY <2>3 DEF NFA_ACTIVATED_EVT
    <3>4. DOMAIN swp' = DOMAIN swp
      BY <3>3 DEF NoTimers
    <3>5. QED
      BY <2>3, <3>2, <3>4 DEF NFA_ACTIVATED_EVT
  <2>4. CASE NFA_EE_ACTION_EVT \/ NFA_DM_RF_FIELD_EVT
    <3>1. \/ payment' \in {payment, NoPayment}
          \/ \E s : payment' = [payment EXCEPT !.state = s]
          \/ payment' = [payment EXCEPT !.state = "start", !.progress = TRUE]
      BY <2>4 DEF NFA_EE_ACTION_EVT, NFA_DM_RF_FIELD_EVT, ResetPayment
    <3>2. DOMAIN payment' = DOMAIN payment /\ payment'.last \in {payment.last, None}
      <4>1. CASE payment' \in {payment, NoPayment}
        BY <4>1 DEF NoPayment
      <4>2. ASSUME NEW s, payment' = [payment EXCEPT !.state = s]
            PROVE  DOMAIN payment' = DOMAIN payment /\ payment'.last = payment.last
        BY <4>2 DEF NoPayment
      <4>3. CASE payment' = [payment EXCEPT !.state = "start", !.progress = TRUE]
        BY <4>3 DEF NoPayment
      <4>4. QED
        BY <3>1, <4>1, <4>2, <4>3
    <3>3. QED
      BY <2>4, <3>2 DEF NFA_EE_ACTION_EVT, NFA_DM_RF_FIELD_EVT, ResetPayment
  <2>5. QED
    BY <1>3, <2>1, <2>2, <2>3, <2>4 DEF callbacks
<1>4. ASSUME NEW t \in roles, calling(t) PROVE Fields /\ roles' = roles
  BY <1>4, CallingFields
<1>5. QED
  BY <1>1, <1>2, <1>3, <1>4 DEF Next

LEMMA KeepingHome == ASSUME Base, Keeping, roles' = roles PROVE Home'
BY KeepingTodo DEF Base, Home, HomeIn, HomeOf, Keeping

LEMMA BaseStep == ASSUME Base, Next PROVE Base'
<1>1. Fields /\ roles' = roles
  BY NextFields DEF Base
<1>2. ThreadsOk' => Shape'
  BY <1>1 DEF Base, Shape, Fields
<1>3. CASE Keeping
  BY <1>1, <1>2, <1>3, KeepingHome DEF Base, Keeping
<1>4. CASE Resets
  <2>1. ThreadsOk' /\ \A t \in Threads : ~Working(t)' /\ pc(t)' = "idle"
    BY <1>4, IdleOk DEF Resets, ThreadsOk, Working, pc, Idle, NoCall
  <2>2. Home'
    BY <1>1, <2>1 DEF Base, Home, HomeIn, HomeOf, Todo
  <2>3. QED
    BY <1>2, <2>1, <2>2 DEF Base
<1>5. ASSUME NEW t, Moves(t) PROVE Base'
  BY <1>1, <1>2, <1>5, MovesKeep DEF Base
<1>6. QED
  BY <1>3, <1>4, <1>5, NextMoves

LEMMA BaseInit == Init => Base
<1> SUFFICES ASSUME Init PROVE Base
  OBVIOUS
<1>1. ThreadsOk /\ \A t \in Threads : ~Working(t) /\ pc(t) = "idle"
  BY IdleOk DEF Init, ThreadsOk, Working, pc, Idle, NoCall
<1>2. Home
  BY <1>1, ThreadsAssumption DEF Init, Home, HomeIn, HomeOf, Todo
<1>3. Shape
  BY <1>1 DEF Init, Shape, NoPayment
<1>4. QED
  BY <1>2, <1>3 DEF Base

LEMMA BaseStutter == Base /\ UNCHANGED vars => Base'
BY DEF vars, Base, Shape, Home, HomeIn, HomeOf, Todo, Left, rest, pc, Working, ThreadsOk

-----------------------------------------------------------------------------
(* Whose step it is                                                        *)

Undisturbed(u) == pc(u)' = pc(u) /\ thread'[u].call = thread[u].call

\* The steps of a thread, the callbacks that start it included.
StepOf(u) ==
    \/ u \in roles /\ calling(u)
    \/ u \in {"service", "routes"} /\ jniCalls /\ Starts(u)
    \/ u = "tag" /\ (interopStop \/ interopLocked \/ interopStopped)
    \/ u = "interop" /\ (interopTimer \/ pn544InteropStartPolling \/ interopStarted)
    \/ u = "swp" /\ (eeReaderEvent \/ startStopSwpReaderProc \/ mapRefused \/ notifyEEReaderEvent)
    \/ u = "factory" /\ (Nxp_SelfTest \/ prepares \/ awaits \/ SWPSelfTest)
    \/ u = "payment" /\ (enableThread \/ (NFA_DM_RF_FIELD_EVT /\ Begin("payment", "payment", <<"lastRequest">>)))

LEMMA MovesOthers ==
    ASSUME Base, NEW t, Moves(t), NEW u \in Threads \ {t}
    PROVE  Undisturbed(u)
<1>1. t \in Threads /\ ThreadsOk
  BY DEF Moves, Base, Shape
<1>2. Adding(t) => Others(t)
  BY <1>1 DEF Adding, Then, GoWith, Moved, Others, ThreadsOk
<1>3. Quits(t) \/ Starts(t) => Others(t)
  BY <1>1 DEF Quits, Starts, GoWith, Moved, Others, ThreadsOk
<1>4. QED
  BY <1>2, <1>3 DEF Moves, Carries, Others, Undisturbed, pc

LEMMA NotAtCalling ==
    ASSUME NEW t, calling(t)
    PROVE  pc(t) \notin {"idle", "lockStop", "setTimer", "lockStart", "restored", "notifyRequested",
                         "notifyStop", "lastRequest", "letThrough", "forget"} \cup OnlySelfTest
<1> USE AtPc DEF OnlySelfTest
<1>1. CASE startRfDiscovery(t) \/ rfDone(t) \/ rfOffIfOn(t) \/ polling(t) \/ pollingDone(t)
  BY <1>1 DEF startRfDiscovery, rfDone, rfOffIfOn, polling, pollingDone, Rf, Polls
<1>2. CASE requests(t) \/ requestDone(t) \/ PowerLow(t) \/ linkIsDown(t)
  BY <1>2 DEF requests, requestDone, PowerLow, linkIsDown, EventOf
<1>3. CASE enableDiscovery(t) \/ disableDiscovery(t) \/ listen(t) \/ discovered(t)
           \/ stopDiscovery(t) \/ stillPolling(t) \/ listenOff(t)
  BY <1>3 DEF enableDiscovery, disableDiscovery, listen, discovered, stopDiscovery, stillPolling,
     listenOff
<1>4. CASE routed(t) \/ setRouting(t) \/ enable(t) \/ enabled(t) \/ checkforNfceeConfig(t)
  BY <1>4 DEF routed, setRouting, enable, enabled, checkforNfceeConfig
<1>5. CASE VenConfig(t) \/ disable(t) \/ disabled(t) \/ unblock(t) \/ finalize(t)
  BY <1>5 DEF VenConfig, disable, disabled, unblock, finalize
<1>6. CASE enableDisableLptd(t) \/ pn544InteropAbortNow(t) \/ SetCbStatus(t)
           \/ SendNxpNciCommand(t) \/ vendorDone(t)
  BY <1>6 DEF enableDisableLptd, pn544InteropAbortNow, SetCbStatus, SendNxpNciCommand, vendorDone
<1>7. QED
  BY <1>1, <1>2, <1>3, <1>4, <1>5, <1>6 DEF calling

LEMMA StepsOf ==
    ASSUME Base, Next, NEW u \in Threads
    PROVE  Undisturbed(u) \/ StepOf(u) \/ NFA_DM_NFCC_TRANSPORT_ERR_EVT
<1>0. ThreadsOk
  BY DEF Base, Shape
<1>k. Keeping => Undisturbed(u)
  BY DEF Keeping, Undisturbed
<1>t. \A t, plan : Then(t, plan) => Others(t)
  BY <1>0 DEF Then, GoWith, Moved, Others, ThreadsOk
<1>b. \A t, op, plan : Begin(t, op, plan) => Others(t)
  BY <1>0 DEF Begin, GoWith, Moved, Others, ThreadsOk
<1>o. \A t : Others(t) => t = u \/ Undisturbed(u)
  BY DEF Others, Undisturbed, pc
<1>s. UNCHANGED thread => Undisturbed(u)
  BY DEF Undisturbed, pc
<1>1. CASE jniCalls
  <2>1. PICK t \in {"service", "routes"} : Moves(t) /\ Starts(t)
    BY <1>1, JniMoves
  <2>2. CASE t = u
    BY <1>1, <2>1, <2>2 DEF StepOf
  <2>3. CASE t # u
    BY <2>1, <2>3, MovesOthers
  <2>4. QED
    BY <2>2, <2>3
<1>2. CASE extras
  <2>1. CASE interopStop \/ interopLocked \/ interopStopped
    <3>1. Others("tag")
      BY <1>t, <1>b, <2>1 DEF interopStop, interopLocked, interopStopped, Advance
    <3>2. QED
      BY <1>o, <2>1, <3>1 DEF StepOf
  <2>2. CASE interopTimer \/ pn544InteropStartPolling \/ interopStarted
    <3>1. Others("interop")
      BY <1>t, <1>b, <2>2 DEF interopTimer, pn544InteropStartPolling, interopStarted, Advance
    <3>2. QED
      BY <1>o, <2>2, <3>1 DEF StepOf
  <2>3. CASE eeReaderEvent \/ startStopSwpReaderProc \/ mapRefused \/ notifyEEReaderEvent
    <3>1. mapRefused => Others("swp")
      BY <1>0 DEF mapRefused, Others, ThreadsOk
    <3>2. Others("swp")
      BY <1>t, <1>b, <2>3, <3>1 DEF eeReaderEvent, startStopSwpReaderProc, notifyEEReaderEvent, Advance
    <3>3. QED
      BY <1>o, <2>3, <3>2 DEF StepOf
  <2>4. CASE Nxp_SelfTest \/ prepares \/ SWPSelfTest
    <3>1. Others("factory")
      BY <1>t, <1>b, <2>4 DEF Nxp_SelfTest, prepares, SWPSelfTest, Advance
    <3>2. QED
      BY <1>o, <2>4, <3>1 DEF StepOf
  <2>5. CASE enableThread
    <3>1. Others("payment")
      BY <1>t, <2>5 DEF enableThread, Advance
    <3>2. QED
      BY <1>o, <2>5, <3>1 DEF StepOf
  <2>6. CASE awaits \/ nfaNxpSelfTestNtfTimerCb
    BY <1>0, <1>k, <2>6, Slept, Notified, ThreadsAssumption DEF awaits, nfaNxpSelfTestNtfTimerCb
  <2>7. QED
    BY <1>2, <2>1, <2>2, <2>3, <2>4, <2>5, <2>6 DEF extras
<1>3. CASE callbacks
  <2>1. CASE NFA_DM_RF_FIELD_EVT
    BY <1>b, <1>o, <1>s, <2>1 DEF NFA_DM_RF_FIELD_EVT, StepOf
  <2>2. CASE NFA_ACTIVATED_EVT \/ pn544InteropIsBusy \/ NFA_EE_ACTION_EVT
    BY <1>s, <2>2 DEF NFA_ACTIVATED_EVT, pn544InteropIsBusy, NFA_EE_ACTION_EVT
  <2>3. CASE NxpResponse_Cb \/ nfaDone \/ NFA_DM_ENABLE_EVT \/ NFA_DM_DISABLE_EVT
             \/ nfaNxpSelfTestNtfCallback \/ NFA_DEACTIVATED_EVT
    <3>1. \E e : Notify(e)
      BY <2>3 DEF NxpResponse_Cb, nfaDone, NFA_DM_ENABLE_EVT, NFA_DM_DISABLE_EVT,
         nfaNxpSelfTestNtfCallback, NFA_DEACTIVATED_EVT, Answers
    <3>2. QED
      BY <1>0, <1>k, <3>1, Notified
  <2>4. QED
    BY <1>3, <2>1, <2>2, <2>3 DEF callbacks
<1>4. ASSUME NEW t \in roles, calling(t) PROVE Undisturbed(u) \/ StepOf(u)
  BY <1>k, <1>4, CallingMoves, MovesOthers DEF StepOf
<1>5. QED
  BY <1>1, <1>2, <1>3, <1>4 DEF Next

LEMMA UndisturbedTodo ==
    ASSUME NEW u, Undisturbed(u)
    PROVE  /\ Working(u)' = Working(u) /\ rest(u)' = rest(u) /\ Left(u)' = Left(u)
           /\ Todo(u)' = Todo(u) /\ \A l : Final(u, l)' = Final(u, l)
BY DEF Undisturbed, Working, rest, Left, Todo, Final, pc

(* What a step at pc(u) leaves for u to do, and what it adds.               *)
LEMMA AddingTodo ==
    ASSUME ThreadsOk, NEW u \in Threads, Working(u), Adding(u)
    PROVE  /\ Todo(u)' \subseteq Adds(pc(u)) \cup Left(u) /\ Left(u) \subseteq Todo(u)'
           /\ thread'[u].st = "runs" /\ Others(u) /\ (Working(u)' => thread'[u].call.op = thread[u].call.op)
           /\ \A l : l # "idle" /\ l \notin Adds(pc(u)) /\ Final(u, l) => Final(u, l)'
<1>1. PICK plan : IsSeq(plan) /\ Elems(plan) \subseteq Adds(pc(u)) /\ Then(u, plan)
  BY DEF Adding
<1>2. /\ Todo(u)' = Elems(plan) \cup Left(u) /\ thread'[u].st = "runs" /\ Others(u)
      /\ Working(u)' => thread'[u].call.op = thread[u].call.op
  BY <1>1, Thens DEF Working, Idle, NoCall
<1>3. \A l : l # "idle" /\ l \notin Adds(pc(u)) /\ Final(u, l) => Final(u, l)'
  BY <1>1, FinalStays
<1>4. QED
  BY <1>1, <1>2, <1>3

LEMMA CallingTodo ==
    ASSUME Base, NEW u \in roles, calling(u)
    PROVE  /\ u \in Threads /\ Working(u)
           /\ \/ Keeping
              \/ Adding(u)
              \/ /\ pc(u) \in {"vendor", "unblock"} /\ Working(u)'
                 /\ pc(u)' \in {"send", "finalize"} /\ (pc(u)' = "send" <=> pc(u) = "vendor")
                 /\ Todo(u)' = {pc(u)'} \cup Left(u) /\ rest(u)' = rest(u)
                 /\ thread'[u].call = thread[u].call
              \/ u = "factory" /\ ~Working(u)' /\ Quits(u)
<1>1. u \in Threads /\ Working(u)
  BY NotAtCalling DEF Base, Home, HomeIn
<1>2. Keeping \/ Adding(u) \/ (pc(u) = "vendor" /\ Carries(u, "send"))
      \/ (pc(u) = "unblock" /\ Carries(u, "finalize")) \/ (u = "factory" /\ Quits(u))
  BY CallingAdds
<1>3. ASSUME NEW l, Carries(u, l)
      PROVE  /\ pc(u)' = l /\ Working(u)' /\ Todo(u)' = {l} \cup Left(u) /\ rest(u)' = rest(u)
             /\ thread'[u].call = thread[u].call
  BY <1>1, <1>3 DEF Carries, Working, Todo, Left, rest
<1>4. Quits(u) => ~Working(u)'
  BY <1>1 DEF Quits, Working, Idle, NoCall, Base, Shape, ThreadsOk
<1>5. QED
  BY <1>1, <1>2, <1>3, <1>4

(* What the steps of a call change besides the call.                         *)
LEMMA CallingFrame ==
    ASSUME NEW t, calling(t)
    PROVE  /\ UNCHANGED swp
           /\ UNCHANGED interop \/ pn544InteropAbortNow(t)
           /\ UNCHANGED test \/ SetCbStatus(t)
           /\ UNCHANGED payment \/ enableDiscovery(t) \/ disableDiscovery(t)
           /\ \/ UNCHANGED stack
              \/ startRfDiscovery(t) \/ polling(t) \/ requests(t) \/ enable(t) \/ enabled(t)
              \/ finalize(t)
           /\ \/ UNCHANGED nfc
              \/ rfDone(t) \/ polling(t) \/ requests(t) \/ requestDone(t) \/ discovered(t)
              \/ routed(t) \/ setRouting(t) \/ unblock(t)
           /\ \/ UNCHANGED asked
              \/ startRfDiscovery(t) \/ polling(t) \/ requests(t) \/ enable(t) \/ disable(t)
              \/ SendNxpNciCommand(t) \/ finalize(t)
           /\ \/ UNCHANGED wanted
              \/ startRfDiscovery(t) \/ polling(t) \/ requests(t) \/ enableDiscovery(t)
              \/ disableDiscovery(t) \/ unblock(t)
<1> USE DEF fixed, features
<1>1. CASE startRfDiscovery(t) \/ rfDone(t) \/ rfOffIfOn(t) \/ polling(t) \/ pollingDone(t)
  BY <1>1 DEF startRfDiscovery, rfDone, rfOffIfOn, polling, pollingDone, Refused
<1>2. CASE requests(t) \/ requestDone(t) \/ PowerLow(t) \/ linkIsDown(t)
  BY <1>2 DEF requests, requestDone, PowerLow, linkIsDown
<1>3. CASE enableDiscovery(t) \/ disableDiscovery(t) \/ listen(t) \/ discovered(t)
           \/ stopDiscovery(t) \/ stillPolling(t) \/ listenOff(t)
  BY <1>3 DEF enableDiscovery, disableDiscovery, listen, discovered, stopDiscovery, stillPolling,
     listenOff
<1>4. CASE routed(t) \/ setRouting(t) \/ enable(t) \/ enabled(t) \/ checkforNfceeConfig(t)
  BY <1>4 DEF routed, setRouting, enable, enabled, checkforNfceeConfig
<1>5. CASE VenConfig(t) \/ disable(t) \/ disabled(t) \/ unblock(t) \/ finalize(t)
  BY <1>5 DEF VenConfig, disable, disabled, unblock, finalize
<1>6. CASE enableDisableLptd(t) \/ pn544InteropAbortNow(t) \/ SetCbStatus(t)
           \/ SendNxpNciCommand(t) \/ vendorDone(t)
  BY <1>6 DEF enableDisableLptd, pn544InteropAbortNow, SetCbStatus, SendNxpNciCommand, vendorDone
<1>7. QED
  BY <1>1, <1>2, <1>3, <1>4, <1>5, <1>6 DEF calling

LEMMA JniFrame ==
    ASSUME Shape, jniCalls
    PROVE  /\ UNCHANGED <<asked, interop, payment, swp, test, task, stack, wanted>>
           /\ \A f \in DOMAIN nfc \ {"disabling", "reader"} : nfc'[f] = nfc[f]
BY DEF jniCalls, doInitialize, doDeinitialize, serviceCalls, enableRoutingToHost,
     disableRoutingToHost, routes, ReaderMode, Calls, features, Shape, NoFlags

-----------------------------------------------------------------------------
(* The two states that shut the other users out                            *)

(* While gIsBusy is set the timer is, or a thread of Pn544Interop has still   *)
(* to come to the step that clears the one or sets the other.                *)
BusyInv ==
    interop.busy => \/ interop.armed
                    \/ {"lockStart", "restored"} \cap Todo("interop") # {}
                    \/ {"lockStop", "setTimer"} \cap Todo("tag") # {}

LEMMA InteropFrame ==
    ASSUME Shape, Next
    PROVE  \/ interop'.busy = interop.busy /\ interop'.armed = interop.armed
           \/ interopLocked \/ interopStopped \/ interopTimer \/ pn544InteropStartPolling
           \/ interopStarted \/ NFA_DM_NFCC_TRANSPORT_ERR_EVT
<1>1. CASE jniCalls
  BY <1>1, JniFrame
<1>2. ASSUME NEW t, calling(t) PROVE interop'.busy = interop.busy /\ interop'.armed = interop.armed
  BY <1>2, CallingFrame DEF pn544InteropAbortNow, Shape, NoInterop
<1>3. CASE extras
  BY <1>3 DEF extras, interopStop, eeReaderEvent, startStopSwpReaderProc, mapRefused,
     notifyEEReaderEvent, Nxp_SelfTest, prepares, awaits, nfaNxpSelfTestNtfTimerCb, SWPSelfTest,
     enableThread, features
<1>4. CASE callbacks
  BY <1>4 DEF callbacks, NxpResponse_Cb, nfaNxpSelfTestNtfCallback, nfaDone, NFA_DM_ENABLE_EVT,
     NFA_DM_DISABLE_EVT, NFA_ACTIVATED_EVT, pn544InteropIsBusy, NFA_DEACTIVATED_EVT,
     NFA_EE_ACTION_EVT, NFA_DM_RF_FIELD_EVT, features
<1>5. QED
  BY <1>1, <1>2, <1>3, <1>4 DEF Next

(* What a hard-wired step of a thread leaves for it to do.                    *)
LEMMA ThenTodo ==
    ASSUME Base, NEW t \in Threads, NEW l, l # "idle", At(t, l) \/ Wakes(t, l), NEW plan,
           IsSeq(plan), Then(t, plan)
    PROVE  /\ Todo(t)' = Elems(plan) \cup Left(t) /\ Working(t) /\ pc(t) = l /\ Others(t)
           /\ Todo(t) = {l} \cup Left(t)
<1>1. pc(t) = l /\ Working(t) /\ ThreadsOk
  BY AtPc DEF Base, Shape, Home, HomeIn
<1>2. QED
  BY <1>1, Thens DEF Todo

LEMMA AdvanceTodo ==
    ASSUME Base, NEW t \in Threads, NEW l, l # "idle", At(t, l) \/ Wakes(t, l), Advance(t)
    PROVE  Todo(t)' = Left(t) /\ Working(t) /\ pc(t) = l /\ Others(t) /\ Todo(t) = {l} \cup Left(t)
<1>1. Then(t, <<>>) /\ IsSeq(<<>>) /\ Elems(<<>>) = {}
  BY Plan0 DEF Advance
<1>2. Todo(t)' = Elems(<<>>) \cup Left(t) /\ Working(t) /\ pc(t) = l /\ Others(t)
      /\ Todo(t) = {l} \cup Left(t)
  BY <1>1, ThenTodo
<1>3. QED
  BY <1>1, <1>2

LEMMA BeginTodo ==
    ASSUME Base, NEW t, NEW op, NEW plan, Begin(t, op, plan), op # None, IsSeq(plan), plan # <<>>
    PROVE  /\ t \in Threads /\ ~Working(t) /\ Working(t)' /\ Todo(t)' = Elems(plan) /\ Others(t)
           /\ pc(t)' = Head(plan) /\ rest(t)' = Tail(plan) /\ thread'[t].st = "runs"
           /\ thread'[t].call.op = op
<1>1. t \in Threads /\ ~Working(t) /\ ThreadsOk /\ GoWith(t, Head(plan), [op |-> op, rest |-> Tail(plan)])
  BY DEF Begin, Base, Home, Shape
<1>2. IsSeq(Tail(plan)) /\ Elems(plan) = {Head(plan)} \cup Elems(Tail(plan))
  BY HeadTailElems
<1>3. /\ pc(t)' = Head(plan) /\ thread'[t].call.op = op /\ rest(t)' = Tail(plan)
      /\ thread'[t].st = "runs" /\ Others(t)
  BY <1>1, <1>2, Went DEF Others
<1>4. QED
  BY <1>1, <1>2, <1>3 DEF Working, Todo, Left

LEMMA ResetTodo ==
    ASSUME NFA_DM_NFCC_TRANSPORT_ERR_EVT, NEW t \in Threads
    PROVE  ~Working(t)' /\ Todo(t)' = {} /\ thread'[t] = Idle(NoCall)
BY DEF NFA_DM_NFCC_TRANSPORT_ERR_EVT, Working, Todo, Idle, NoCall

(* A thread at work on a step of another kind keeps those that it has left.  *)
LEMMA CallingLeaves ==
    ASSUME Base, NEW u \in roles, u # "factory", calling(u), NEW l \in Todo(u), l # pc(u)
    PROVE  l \in Todo(u)'
<1>1. /\ u \in Threads /\ Working(u)
      /\ Keeping \/ Adding(u) \/ Todo(u)' = {pc(u)'} \cup Left(u)
  BY CallingTodo
<1>2. l \in Left(u)
  BY <1>1 DEF Todo
<1>3. QED
  BY <1>1, <1>2, KeepingTodo, AddingTodo DEF Base, Shape

LEMMA BusyStep == ASSUME Base, BusyInv, Next PROVE BusyInv'
<1>0. /\ "tag" \in Threads /\ "interop" \in Threads /\ ThreadsOk
      /\ DOMAIN interop = {"mutex", "busy", "abort", "armed"}
  BY ThreadsAssumption DEF Base, Shape, NoInterop
<1>1. CASE NFA_DM_NFCC_TRANSPORT_ERR_EVT
  BY <1>1 DEF BusyInv, NFA_DM_NFCC_TRANSPORT_ERR_EVT, NoInterop
<1>2. CASE interopLocked
  <2> DEFINE a == startStopPolling(FALSE)
             plan == a \o <<"setTimer">>
  <2>1. At("tag", "lockStop") /\ Then("tag", plan)
    BY <1>2 DEF interopLocked
  <2>2. IsSeq(a) /\ IsSeq(<<"setTimer">>) /\ Elems(<<"setTimer">>) = {"setTimer"}
    BY Plan1, Plan3 DEF startStopPolling
  <2> HIDE DEF a
  <2>3. IsSeq(plan) /\ "setTimer" \in Elems(plan)
    BY <2>2, ConcatElems
  <2> HIDE DEF plan
  <2>4. "setTimer" \in Todo("tag")'
    BY <1>0, <2>1, <2>3, ThenTodo
  <2>5. QED
    BY <2>4 DEF BusyInv
<1>3. CASE interopStopped
  BY <1>3 DEF interopStopped, BusyInv
<1>4. CASE interopTimer
  <2>1. Todo("interop")' = {"lockStart"}
    BY <1>4, Plan1, BeginTodo, NoneAssumption DEF interopTimer
  <2>2. QED
    BY <2>1 DEF BusyInv
<1>5. CASE pn544InteropStartPolling
  <2> DEFINE a == startStopPolling(TRUE)
             plan == a \o <<"restored">>
  <2>1. /\ At("interop", "lockStart")
        /\ \/ interop' = [interop EXCEPT !.busy = FALSE]
           \/ interop' = [interop EXCEPT !.armed = TRUE]
           \/ Then("interop", plan)
    BY <1>5 DEF pn544InteropStartPolling
  <2>2. IsSeq(a) /\ IsSeq(<<"restored">>) /\ Elems(<<"restored">>) = {"restored"}
    BY Plan1, Plan3 DEF startStopPolling
  <2> HIDE DEF a
  <2>3. IsSeq(plan) /\ "restored" \in Elems(plan)
    BY <2>2, ConcatElems
  <2> HIDE DEF plan
  <2>4. Then("interop", plan) => "restored" \in Todo("interop")'
    BY <1>0, <2>1, <2>3, ThenTodo
  <2>5. QED
    BY <1>0, <2>1, <2>4 DEF BusyInv
<1>6. CASE interopStarted
  BY <1>0, <1>6 DEF interopStarted, BusyInv
<1>7. CASE /\ interop'.busy = interop.busy /\ interop'.armed = interop.armed
           /\ ~(NFA_DM_NFCC_TRANSPORT_ERR_EVT \/ interopLocked \/ interopStopped \/ interopTimer
                \/ pn544InteropStartPolling \/ interopStarted)
  <2>1. ASSUME NEW u \in {"tag", "interop"},
               NEW l \in {"lockStart", "restored", "lockStop", "setTimer"}, l \in Todo(u)
        PROVE  l \in Todo(u)'
    <3>1. u \in Threads /\ Working(u)
      BY <1>0, <2>1 DEF Todo
    <3>2. Undisturbed(u) \/ (u \in roles /\ calling(u)) \/ (u = "tag" /\ interopStop)
      BY <1>7, <3>1, StepsOf DEF StepOf
    <3>3. CASE Undisturbed(u)
      BY <2>1, <3>3, UndisturbedTodo
    <3>4. CASE u \in roles /\ calling(u)
      BY <2>1, <3>4, NotAtCalling, CallingLeaves
    <3>5. CASE u = "tag" /\ interopStop
      BY <3>1, <3>5 DEF interopStop, Begin
    <3>6. QED
      BY <3>2, <3>3, <3>4, <3>5
  <2>2. QED
    BY <1>7, <2>1 DEF BusyInv
<1>8. QED
  BY <1>1, <1>2, <1>3, <1>4, <1>5, <1>6, <1>7, InteropFrame DEF Base
-----------------------------------------------------------------------------
(* Sleeping and waking                                                     *)

\* The event on which a thread at l sleeps.
EventAt(l) ==
    CASE l \in DOMAIN Rf \cup DOMAIN Polls -> "poll"
      [] l \in DOMAIN EventOf -> EventOf[l]
      [] l \in {"enable", "disable"} -> l
      [] l = "send" -> "vendor"
      [] l = "notification" -> "ntf"
      [] OTHER -> "deactivated"

\* Whoever sleeps does so on the event of its step, and no request is to be
\* answered on the events that only notifications wake.
Sleeping ==
    /\ \A t \in Threads : Asleep(t) => thread[t].ev = EventAt(pc(t))
    /\ \A r \in asked : r.ev \notin {"ntf", "deactivated"}

FallsAsleep(u) ==
    /\ Undisturbed(u) /\ thread[u].st = "runs"
    /\ thread'[u].st = "sleeps" /\ thread'[u].ev = EventAt(pc(u))
Roused(u) ==
    /\ Undisturbed(u) /\ thread[u].st = "sleeps"
    /\ thread'[u].st = "woken" /\ thread'[u].ev = thread[u].ev
\* What wakes a sleeper on e.
Rousing(e) ==
    \/ e = "vendor" /\ NxpResponse_Cb
    \/ e = "ntf" /\ (nfaNxpSelfTestNtfCallback \/ nfaNxpSelfTestNtfTimerCb)
    \/ /\ e \notin {"vendor", "enable", "disable"} /\ nfaDone
       /\ \E r \in asked : r.ev = e /\ asked' = asked \ {r}
    \/ e = "enable" /\ NFA_DM_ENABLE_EVT
    \/ e = "disable" /\ NFA_DM_DISABLE_EVT
    \/ e = "deactivated" /\ NFA_DEACTIVATED_EVT
    \/ e = "poll" /\ \E t \in roles : unblock(t)

LEMMA Goes ==
    ASSUME ThreadsOk, NEW t \in Threads, NEW plan, Then(t, plan)
    PROVE  Others(t) /\ thread'[t].st = "runs"
BY DEF Then, GoWith, Moved, Idle, Others, ThreadsOk

LEMMA Asks1 ==
    ASSUME NEW t, NEW e, NEW what, Waits(t, e, what) \/ AsksStack(t, e, what)
    PROVE  SleepsOn(t, e)
BY DEF Waits, AsksStack

(* What a step of a call does to the threads.                                *)
LEMMA CallingFate ==
    ASSUME Base, NEW t \in roles, calling(t)
    PROVE  \/ SleepsOn(t, EventAt(pc(t))) /\ thread[t].st = "runs"
           \/ Others(t) /\ thread'[t].st = "runs" /\ ~unblock(t)
           \/ unblock(t)
<1>0. t \in Threads /\ ThreadsOk
  BY DEF Base, Shape, Home
<1>1. \A plan : Then(t, plan) => Others(t) /\ thread'[t].st = "runs"
  BY <1>0, Goes
<1>2. Advance(t) => Others(t) /\ thread'[t].st = "runs"
  BY <1>1 DEF Advance
<1> USE <1>0
<1>3. CASE startRfDiscovery(t)
  <2>1. PICK l \in DOMAIN Rf : At(t, l) /\ (AsksStack(t, "poll", <<l, stack.rf>>) \/ Advance(t))
    BY <1>3 DEF startRfDiscovery, Refused
  <2>2. pc(t) = l /\ thread[t].st = "runs" /\ EventAt(l) = "poll"
    BY <2>1 DEF At, pc, EventAt, EventOf, Rf, Polls
  <2>3. QED
    BY <1>2, <1>3, <2>1, <2>2, Asks1
<1>4. CASE rfDone(t) \/ rfOffIfOn(t) \/ pollingDone(t)
  BY <1>1, <1>2, <1>4 DEF rfDone, rfOffIfOn, pollingDone
<1>5. CASE polling(t)
  <2>1. PICK l \in DOMAIN Polls : At(t, l) /\ (AsksStack(t, "poll", <<l>>) \/ Advance(t))
    BY <1>5 DEF polling, Refused
  <2>2. pc(t) = l /\ thread[t].st = "runs" /\ EventAt(l) = "poll"
    BY <2>1 DEF At, pc, EventAt, EventOf, Rf, Polls
  <2>3. QED
    BY <1>2, <1>5, <2>1, <2>2, Asks1
<1>6. CASE requests(t)
  <2>1. PICK l \in DOMAIN EventOf : At(t, l) /\ (AsksStack(t, EventOf[l], <<l>>) \/ Advance(t))
    BY <1>6 DEF requests, Refused
  <2>2. pc(t) = l /\ thread[t].st = "runs" /\ EventAt(l) = EventOf[l]
    BY <2>1 DEF At, pc, EventAt, EventOf, Rf, Polls
  <2>3. QED
    BY <1>2, <2>1, <2>2, Asks1
<1>7. CASE requestDone(t) \/ linkIsDown(t)
  BY <1>2, <1>7 DEF requestDone, linkIsDown
<1>8. CASE PowerLow(t)
  BY <1>2, <1>8, AtPc DEF PowerLow, At, EventAt, Rf, Polls, EventOf
<1>9. CASE enableDiscovery(t) \/ listen(t) \/ discovered(t) \/ disableDiscovery(t)
           \/ stopDiscovery(t) \/ stillPolling(t) \/ listenOff(t)
  BY <1>1, <1>2, <1>9 DEF enableDiscovery, listen, discovered, disableDiscovery, stopDiscovery,
     stillPolling, listenOff, PutOff
<1>10. CASE routed(t) \/ setRouting(t) \/ enabled(t) \/ checkforNfceeConfig(t) \/ VenConfig(t)
            \/ disabled(t) \/ finalize(t) \/ enableDisableLptd(t) \/ pn544InteropAbortNow(t)
  BY <1>1, <1>2, <1>10 DEF routed, setRouting, enabled, checkforNfceeConfig, VenConfig, disabled,
     finalize, enableDisableLptd, pn544InteropAbortNow
<1>11. CASE enable(t) \/ disable(t)
  BY <1>2, <1>11, Asks1, AtPc DEF enable, disable, At, EventAt, Rf, Polls, EventOf
<1>12. CASE unblock(t)
  BY <1>12
<1>13. CASE SetCbStatus(t)
  BY <1>13 DEF SetCbStatus, Go, GoWith, Moved, Idle, Others, ThreadsOk
<1>14. CASE SendNxpNciCommand(t) \/ vendorDone(t)
  <2>1. Outcome(t) => Others(t) /\ thread'[t].st = "runs"
    BY <1>2 DEF Outcome, Idle, Others, ThreadsOk
  <2>2. QED
    BY <1>14, <2>1, Asks1, AtPc DEF SendNxpNciCommand, vendorDone, At, EventAt, Rf, Polls, EventOf
<1>15. QED
  BY <1>3, <1>4, <1>5, <1>6, <1>7, <1>8, <1>9, <1>10, <1>11, <1>12, <1>13, <1>14 DEF calling

(* A step leaves a thread as it is, lets it fall asleep or wakes it, or is    *)
(* its own and leaves it running.                                            *)
LEMMA Fate ==
    ASSUME Base, Sleeping, Next, NEW u \in Threads
    PROVE  \/ thread'[u] = thread[u] /\ Undisturbed(u)
           \/ FallsAsleep(u) /\ StepOf(u)
           \/ Roused(u) /\ Rousing(thread[u].ev)
           \/ StepOf(u) /\ thread'[u].st = "runs"
           \/ NFA_DM_NFCC_TRANSPORT_ERR_EVT
<1>0. ThreadsOk
  BY DEF Base, Shape
<1>1. thread'[u] = thread[u] => Undisturbed(u)
  BY DEF Undisturbed, pc
<1>2. ASSUME NEW t \in Threads, NEW e, SleepsOn(t, e), thread[t].st = "runs", e = EventAt(pc(t))
      PROVE  thread'[u] = thread[u] \/ (u = t /\ FallsAsleep(u))
  BY <1>0, <1>2, Slept DEF Others, FallsAsleep, Keeping, Undisturbed
<1>3. ASSUME NEW e, NEW t \in Sleepers(e), thread' = [thread EXCEPT ![t].st = "woken"]
      PROVE  thread'[u] = thread[u] \/ (e = thread[u].ev /\ Roused(u))
  <2>1. thread[t].ev = e /\ thread[t].st = "sleeps" /\ t \in Threads
    BY <1>3 DEF Sleepers
  <2>2. Keeping /\ Others(t) /\ thread'[t].st = "woken" /\ thread'[t].ev = e
    BY <1>0, <1>3, Woken
  <2>3. QED
    BY <2>1, <2>2 DEF Others, Roused, Keeping, Undisturbed
<1>4. ASSUME NEW e, Notify(e) PROVE thread'[u] = thread[u] \/ (e = thread[u].ev /\ Roused(u))
  BY <1>3, <1>4 DEF Notify
<1>5. ASSUME NEW t \in Threads, Others(t), thread'[t].st = "runs"
      PROVE  thread'[u] = thread[u] \/ (u = t /\ thread'[u].st = "runs")
  BY <1>5 DEF Others
<1>6. ASSUME NEW t \in roles, calling(t)
      PROVE  \/ thread'[u] = thread[u]
             \/ FallsAsleep(u) /\ StepOf(u)
             \/ Roused(u) /\ Rousing(thread[u].ev)
             \/ StepOf(u) /\ thread'[u].st = "runs"
  <2>0. t \in Threads
    BY DEF Base, Home
  <2>1. CASE SleepsOn(t, EventAt(pc(t))) /\ thread[t].st = "runs"
    BY <1>2, <1>6, <2>0, <2>1 DEF StepOf
  <2>2. CASE Others(t) /\ thread'[t].st = "runs"
    BY <1>5, <1>6, <2>0, <2>2 DEF StepOf
  <2>3. CASE unblock(t)
    <3> DEFINE finalizes == [Idle(thread[t].call) EXCEPT !.pc = "finalize"]
    <3>1. finalizes.st = "runs"
      BY DEF Idle
    <3>2. thread[t].st = "runs"
      BY <2>3 DEF unblock, At
    <3>3. \/ thread' = [thread EXCEPT ![t] = finalizes]
          \/ \E v \in Sleepers("poll") :
                thread' = [thread EXCEPT ![v].st = "woken", ![t] = finalizes]
      BY <2>3 DEF unblock
    <3> HIDE DEF finalizes
    <3>4. CASE thread' = [thread EXCEPT ![t] = finalizes]
      BY <1>0, <1>6, <2>0, <3>1, <3>4 DEF ThreadsOk, StepOf
    <3>5. ASSUME NEW v \in Sleepers("poll"),
                 thread' = [thread EXCEPT ![v].st = "woken", ![t] = finalizes]
          PROVE  \/ thread'[u] = thread[u]
                 \/ Roused(u) /\ Rousing(thread[u].ev)
                 \/ StepOf(u) /\ thread'[u].st = "runs"
      <4>1. v # t /\ v \in Threads /\ thread[v].st = "sleeps" /\ thread[v].ev = "poll"
        BY <3>2, <3>5 DEF Sleepers
      <4>2. /\ thread'[t] = finalizes /\ thread'[v] = [thread[v] EXCEPT !.st = "woken"]
            /\ \A w \in Threads \ {t, v} : thread'[w] = thread[w]
        BY <1>0, <2>0, <3>5, <4>1 DEF ThreadsOk
      <4>3. /\ thread'[v].pc = thread[v].pc /\ thread'[v].call = thread[v].call
            /\ thread'[v].st = "woken" /\ thread'[v].ev = thread[v].ev
        BY <1>0, <4>1, <4>2 DEF ThreadsOk, ThreadOk
      <4>4. Roused(v) /\ Rousing(thread[v].ev)
        BY <2>3, <4>1, <4>3 DEF Roused, Rousing, Undisturbed, pc
      <4>5. QED
        BY <1>6, <3>1, <4>2, <4>4 DEF StepOf
    <3>6. QED
      BY <3>3, <3>4, <3>5
  <2>4. QED
    BY <1>6, <2>1, <2>2, <2>3, CallingFate
<1>7. CASE jniCalls
  <2>1. PICK t \in {"service", "routes"} : Moves(t) /\ Starts(t)
    BY <1>7, JniMoves
  <2>2. t \in Threads /\ Others(t) /\ thread'[t].st = "runs"
    BY <1>0, <2>1 DEF Starts, GoWith, Moved, Idle, Others, ThreadsOk, Base, Home
  <2>3. QED
    BY <1>1, <1>7, <2>1, <2>2 DEF Others, StepOf
<1>8. ASSUME NEW t \in Threads, NEW plan, Then(t, plan) PROVE Others(t) /\ thread'[t].st = "runs"
  BY <1>0, <1>8, Goes
<1>9. ASSUME NEW t \in Threads, NEW op, NEW plan, Begin(t, op, plan)
      PROVE  Others(t) /\ thread'[t].st = "runs"
  BY <1>0, <1>9 DEF Begin, GoWith, Moved, Idle, Others, ThreadsOk
<1>10. {"tag", "interop", "swp", "factory", "payment"} \subseteq Threads
  BY ThreadsAssumption
<1>11. CASE extras
  <2>1. CASE interopStop \/ interopLocked \/ interopStopped
    <3>1. Others("tag") /\ thread'["tag"].st = "runs"
      BY <1>8, <1>9, <1>10, <2>1 DEF interopStop, interopLocked, interopStopped, Advance
    <3>2. QED
      BY <1>1, <1>5, <1>10, <2>1, <3>1 DEF StepOf
  <2>2. CASE interopTimer \/ pn544InteropStartPolling \/ interopStarted
    <3>1. Others("interop") /\ thread'["interop"].st = "runs"
      BY <1>8, <1>9, <1>10, <2>2 DEF interopTimer, pn544InteropStartPolling, interopStarted, Advance
    <3>2. QED
      BY <1>1, <1>5, <1>10, <2>2, <3>1 DEF StepOf
  <2>3. CASE eeReaderEvent \/ startStopSwpReaderProc \/ mapRefused \/ notifyEEReaderEvent
    <3>1. mapRefused => Others("swp") /\ thread'["swp"].st = "runs"
      BY <1>0, <1>10 DEF mapRefused, Others, ThreadsOk, Idle
    <3>2. Others("swp") /\ thread'["swp"].st = "runs"
      BY <1>8, <1>9, <1>10, <2>3, <3>1 DEF eeReaderEvent, startStopSwpReaderProc,
         notifyEEReaderEvent, Advance
    <3>3. QED
      BY <1>1, <1>5, <1>10, <2>3, <3>2 DEF StepOf
  <2>4. CASE Nxp_SelfTest \/ prepares \/ SWPSelfTest
    <3>1. Others("factory") /\ thread'["factory"].st = "runs"
      BY <1>8, <1>9, <1>10, <2>4 DEF Nxp_SelfTest, prepares, SWPSelfTest, Advance
    <3>2. QED
      BY <1>1, <1>5, <1>10, <2>4, <3>1 DEF StepOf
  <2>5. CASE awaits
    <3>1. /\ SleepsOn("factory", "ntf") /\ thread["factory"].st = "runs"
          /\ pc("factory") = "notification"
      BY <2>5 DEF awaits, At, pc
    <3>2. EventAt(pc("factory")) = "ntf"
      BY <3>1 DEF EventAt, Rf, Polls, EventOf
    <3>3. QED
      BY <1>1, <1>2, <1>10, <2>5, <3>1, <3>2 DEF StepOf
  <2>6. CASE nfaNxpSelfTestNtfTimerCb
    BY <1>1, <1>4, <2>6 DEF nfaNxpSelfTestNtfTimerCb, Rousing
  <2>7. CASE enableThread
    <3>1. Others("payment") /\ thread'["payment"].st = "runs"
      BY <1>8, <1>10, <2>7 DEF enableThread, Advance
    <3>2. QED
      BY <1>1, <1>5, <1>10, <2>7, <3>1 DEF StepOf
  <2>8. QED
    BY <1>11, <2>1, <2>2, <2>3, <2>4, <2>5, <2>6, <2>7 DEF extras
<1>12. CASE callbacks
  <2>1. CASE NFA_DM_RF_FIELD_EVT
    <3>1. UNCHANGED thread \/ Begin("payment", "payment", <<"lastRequest">>)
      BY <2>1 DEF NFA_DM_RF_FIELD_EVT
    <3>2. CASE UNCHANGED thread
      BY <1>1, <3>2
    <3>3. CASE Begin("payment", "payment", <<"lastRequest">>)
      BY <1>1, <1>5, <1>9, <1>10, <2>1, <3>3 DEF StepOf
    <3>4. QED
      BY <3>1, <3>2, <3>3
  <2>2. CASE NFA_ACTIVATED_EVT \/ pn544InteropIsBusy \/ NFA_EE_ACTION_EVT
    BY <1>1, <2>2 DEF NFA_ACTIVATED_EVT, pn544InteropIsBusy, NFA_EE_ACTION_EVT
  <2>3. CASE NxpResponse_Cb
    <3>1. Notify("vendor")
      BY <2>3 DEF NxpResponse_Cb, Answers, Requests
    <3>2. QED
      BY <1>1, <1>4, <2>3, <3>1 DEF Rousing
  <2>4. CASE nfaDone
    <3>1. PICK r \in asked : r.ev \notin {"vendor", "enable", "disable"} /\ Answers(r)
      BY <2>4 DEF nfaDone
    <3>2. Notify(r.ev) /\ asked' = asked \ {r}
      BY <3>1 DEF Answers
    <3>3. Rousing(r.ev)
      BY <2>4, <3>1, <3>2 DEF Rousing
    <3>4. QED
      BY <1>1, <1>4, <3>2, <3>3
  <2>5. CASE NFA_DM_ENABLE_EVT \/ NFA_DM_DISABLE_EVT
    BY <1>1, <1>4, <2>5 DEF NFA_DM_ENABLE_EVT, NFA_DM_DISABLE_EVT, Answers, Requests, Rousing
  <2>6. CASE nfaNxpSelfTestNtfCallback \/ NFA_DEACTIVATED_EVT
    BY <1>1, <1>4, <2>6 DEF nfaNxpSelfTestNtfCallback, NFA_DEACTIVATED_EVT, Rousing
  <2>7. QED
    BY <1>12, <2>1, <2>2, <2>3, <2>4, <2>5, <2>6 DEF callbacks
<1>13. QED
  BY <1>1, <1>6, <1>7, <1>11, <1>12 DEF Next

\* t makes a request and sleeps until its answer.
AsksOne(t) ==
    /\ t \in roles /\ calling(t) /\ thread[t].st = "runs" /\ FallsAsleep(t)
    /\ EventAt(pc(t)) \notin {"ntf", "deactivated"}
    /\ \E what, n : asked' = asked \cup {Request(t, EventAt(pc(t)), what, n)}

LEMMA AskedStep ==
    ASSUME Base, Next
    PROVE  asked' \subseteq asked \/ \E t \in roles : AsksOne(t)
<1>0. ThreadsOk /\ roles \subseteq Threads
  BY DEF Base, Shape, Home
<1>1. ASSUME NEW t \in roles, calling(t), NEW e, NEW what,
             Waits(t, e, what) \/ AsksStack(t, e, what), thread[t].st = "runs",
             e = EventAt(pc(t)), e \notin {"ntf", "deactivated"}
      PROVE  asked' \subseteq asked \/ AsksOne(t)
  <2>1. SleepsOn(t, e)
    BY <1>1, Asks1
  <2>2. FallsAsleep(t)
    BY <1>0, <1>1, <2>1, Slept DEF Keeping, FallsAsleep, Undisturbed
  <2>3. asked' = asked \/ \E n : asked' = asked \cup {Request(t, e, what, n)}
    BY <1>1 DEF Waits, AsksStack
  <2>4. QED
    BY <1>1, <2>2, <2>3 DEF AsksOne
<1>2. ASSUME NEW t \in roles, calling(t) PROVE asked' \subseteq asked \/ AsksOne(t)
  <2>1. CASE startRfDiscovery(t)
    <3>1. PICK l \in DOMAIN Rf :
             At(t, l) /\ (AsksStack(t, "poll", <<l, stack.rf>>) \/ UNCHANGED asked)
      BY <2>1 DEF startRfDiscovery, Refused
    <3>2. pc(t) = l /\ thread[t].st = "runs" /\ EventAt(l) = "poll"
      BY <3>1 DEF At, pc, EventAt, EventOf, Rf, Polls
    <3>3. QED
      BY <1>1, <1>2, <3>1, <3>2
  <2>2. CASE polling(t)
    <3>1. PICK l \in DOMAIN Polls : At(t, l) /\ (AsksStack(t, "poll", <<l>>) \/ UNCHANGED asked)
      BY <2>2 DEF polling, Refused
    <3>2. pc(t) = l /\ thread[t].st = "runs" /\ EventAt(l) = "poll"
      BY <3>1 DEF At, pc, EventAt, EventOf, Rf, Polls
    <3>3. QED
      BY <1>1, <1>2, <3>1, <3>2
  <2>3. CASE requests(t)
    <3>1. PICK l \in DOMAIN EventOf : At(t, l) /\ (AsksStack(t, EventOf[l], <<l>>) \/ UNCHANGED asked)
      BY <2>3 DEF requests, Refused
    <3>2. pc(t) = l /\ thread[t].st = "runs" /\ EventAt(l) = EventOf[l]
          /\ EventAt(l) \notin {"ntf", "deactivated"}
      BY <3>1 DEF At, pc, EventAt, EventOf, Rf, Polls
    <3>3. QED
      BY <1>1, <1>2, <3>1, <3>2
  <2>4. CASE enable(t) \/ disable(t)
    <3>1. PICK l \in {"enable", "disable"} : At(t, l) /\ (Waits(t, l, <<>>) \/ UNCHANGED asked)
      BY <2>4 DEF enable, disable
    <3>2. pc(t) = l /\ thread[t].st = "runs" /\ EventAt(l) = l
      BY <3>1 DEF At, pc, EventAt, EventOf, Rf, Polls
    <3>3. QED
      BY <1>1, <1>2, <3>1, <3>2
  <2>5. CASE SendNxpNciCommand(t)
    <3>1. At(t, "send") /\ (AsksStack(t, "vendor", <<>>) \/ UNCHANGED asked)
      BY <2>5 DEF SendNxpNciCommand
    <3>2. pc(t) = "send" /\ thread[t].st = "runs" /\ EventAt("send") = "vendor"
      BY <3>1 DEF At, pc, EventAt, EventOf, Rf, Polls
    <3>3. QED
      BY <1>1, <1>2, <3>1, <3>2
  <2>6. CASE finalize(t)
    BY <2>6 DEF finalize
  <2>7. QED
    BY <1>2, <2>1, <2>2, <2>3, <2>4, <2>5, <2>6, CallingFrame
<1>3. CASE jniCalls
  BY <1>3, JniFrame DEF Base
<1>4. CASE extras
  BY <1>4 DEF extras, interopStop, interopLocked, interopStopped, interopTimer,
     pn544InteropStartPolling, interopStarted, eeReaderEvent, startStopSwpReaderProc, mapRefused,
     notifyEEReaderEvent, Nxp_SelfTest, prepares, awaits, nfaNxpSelfTestNtfTimerCb, SWPSelfTest,
     enableThread
<1>5. CASE callbacks
  BY <1>5 DEF callbacks, NxpResponse_Cb, nfaNxpSelfTestNtfCallback, nfaDone, NFA_DM_ENABLE_EVT,
     NFA_DM_DISABLE_EVT, NFA_ACTIVATED_EVT, pn544InteropIsBusy, NFA_DEACTIVATED_EVT,
     NFA_EE_ACTION_EVT, NFA_DM_RF_FIELD_EVT, NFA_DM_NFCC_TRANSPORT_ERR_EVT, Answers
<1>6. QED
  BY <1>2, <1>3, <1>4, <1>5 DEF Next

LEMMA SleepingStep == ASSUME Base, Sleeping, Next PROVE Sleeping'
<1>1. ASSUME NEW u \in Threads, thread'[u].st # "runs"
      PROVE  thread'[u].ev = EventAt(thread'[u].pc)
  BY <1>1, Fate, ResetTodo DEF Sleeping, FallsAsleep, Roused, Undisturbed, Asleep, pc, Idle
<1>2. ASSUME NEW r \in asked' PROVE r.ev \notin {"ntf", "deactivated"}
  BY <1>2, AskedStep DEF Sleeping, AsksOne, Request
<1>3. QED
  BY <1>1, <1>2 DEF Sleeping, Asleep, pc

LEMMA SleepingInit == Init => Sleeping
BY DEF Init, Sleeping, Asleep, Idle

\* What all the invariants below are added to.
Ground == Base /\ Sleeping

LEMMA GroundStep == ASSUME Ground, Next PROVE Ground'
BY BaseStep, SleepingStep DEF Ground
LEMMA GroundInit == Init => Ground
BY BaseInit, SleepingInit DEF Ground
LEMMA GroundStutter == Ground /\ UNCHANGED vars => Ground'
BY BaseStutter DEF Ground, Sleeping, vars, Asleep, pc

LEMMA NotifiedOne ==
    ASSUME ThreadsOk, NEW e, Notify(e), NEW u \in Threads
    PROVE  /\ Undisturbed(u) /\ Keeping
           /\ thread'[u] = thread[u] \/ (thread[u].ev = e /\ Roused(u))
<1>1. Keeping /\ Woke(e)
  BY Notified
<1>2. Undisturbed(u)
  BY <1>1 DEF Keeping, Undisturbed
<1>3. ASSUME NEW t \in Sleepers(e), Others(t), thread'[t].st = "woken", thread'[t].ev = e
      PROVE  thread'[u] = thread[u] \/ (thread[u].ev = e /\ Roused(u))
  BY <1>2, <1>3 DEF Sleepers, Others, Roused
<1>4. QED
  BY <1>1, <1>2, <1>3 DEF Woke

(* Where the steps of a call are made.                                       *)
LEMMA Where ==
    ASSUME NEW t
    PROVE  /\ startRfDiscovery(t) \/ rfDone(t) => pc(t) \in {"rfOn", "rfOff"}
           /\ rfOffIfOn(t) => pc(t) = "rfOffIfOn"
           /\ polling(t) \/ pollingDone(t) =>
                 pc(t) \in {"pollOn", "pollOff", "startPolling", "stopPolling", "repoll"}
           /\ requests(t) \/ requestDone(t) =>
                 pc(t) \in {"p2p", "uicc", "eeRegister", "proto", "tech", "addAid", "clearAid",
                            "getConfig", "setConfig", "discMap", "dhMap"}
           /\ PowerLow(t) \/ linkIsDown(t) => pc(t) = "powerLow"
           /\ enableDiscovery(t) => pc(t) = "enableDiscovery"
           /\ disableDiscovery(t) => pc(t) = "disableDiscovery"
           /\ (listen(t) => pc(t) = "listen") /\ (discovered(t) => pc(t) = "discovered")
           /\ stopDiscovery(t) => pc(t) = "stopDiscovery"
           /\ stillPolling(t) => pc(t) = "stillPolling"
           /\ listenOff(t) => pc(t) \in {"listenOff", "modeOff"}
           /\ routed(t) => pc(t) \in {"hceOn", "hceOff"}
           /\ setRouting(t) => pc(t) = "setRouting"
           /\ enable(t) \/ enabled(t) => pc(t) = "enable"
           /\ (checkforNfceeConfig(t) => pc(t) = "nfcee") /\ (VenConfig(t) => pc(t) = "venConfig")
           /\ disable(t) \/ disabled(t) => pc(t) = "disable"
           /\ unblock(t) => pc(t) = "unblock" /\ thread[t].st = "runs"
           /\ finalize(t) => pc(t) = "finalize"
           /\ enableDisableLptd(t) => pc(t) = "lptd"
           /\ pn544InteropAbortNow(t) => pc(t) = "abortInterop"
           /\ SetCbStatus(t) => pc(t) = "vendor"
           /\ SendNxpNciCommand(t) \/ vendorDone(t) => pc(t) = "send"
<1> USE AtPc
<1>1. startRfDiscovery(t) \/ rfDone(t) => pc(t) \in {"rfOn", "rfOff"}
  BY DEF startRfDiscovery, rfDone, Rf
<1>2. polling(t) \/ pollingDone(t) =>
          pc(t) \in {"pollOn", "pollOff", "startPolling", "stopPolling", "repoll"}
  BY DEF polling, pollingDone, Polls
<1>3. requests(t) \/ requestDone(t) =>
          pc(t) \in {"p2p", "uicc", "eeRegister", "proto", "tech", "addAid", "clearAid",
                     "getConfig", "setConfig", "discMap", "dhMap"}
  BY DEF requests, requestDone, EventOf
<1>4. /\ rfOffIfOn(t) => pc(t) = "rfOffIfOn"
      /\ PowerLow(t) \/ linkIsDown(t) => pc(t) = "powerLow"
      /\ enableDiscovery(t) => pc(t) = "enableDiscovery"
      /\ disableDiscovery(t) => pc(t) = "disableDiscovery"
      /\ listen(t) => pc(t) = "listen"
      /\ discovered(t) => pc(t) = "discovered"
      /\ stopDiscovery(t) => pc(t) = "stopDiscovery"
      /\ stillPolling(t) => pc(t) = "stillPolling"
      /\ listenOff(t) => pc(t) \in {"listenOff", "modeOff"}
  BY DEF rfOffIfOn, PowerLow, linkIsDown, enableDiscovery, disableDiscovery, listen, discovered,
     stopDiscovery, stillPolling, listenOff
<1>5. /\ routed(t) => pc(t) \in {"hceOn", "hceOff"}
      /\ setRouting(t) => pc(t) = "setRouting"
      /\ enable(t) \/ enabled(t) => pc(t) = "enable"
      /\ checkforNfceeConfig(t) => pc(t) = "nfcee"
      /\ VenConfig(t) => pc(t) = "venConfig"
      /\ disable(t) \/ disabled(t) => pc(t) = "disable"
      /\ unblock(t) => pc(t) = "unblock" /\ thread[t].st = "runs"
  BY DEF routed, setRouting, enable, enabled, checkforNfceeConfig, VenConfig, disable, disabled,
     unblock, At
<1>6. /\ finalize(t) => pc(t) = "finalize"
      /\ enableDisableLptd(t) => pc(t) = "lptd"
      /\ pn544InteropAbortNow(t) => pc(t) = "abortInterop"
      /\ SetCbStatus(t) => pc(t) = "vendor"
      /\ SendNxpNciCommand(t) \/ vendorDone(t) => pc(t) = "send"
  BY DEF finalize, enableDisableLptd, pn544InteropAbortNow, SetCbStatus, SendNxpNciCommand, vendorDone
<1>7. QED
  BY <1>1, <1>2, <1>3, <1>4, <1>5, <1>6

(* No step that a thread takes by itself begins in its sleep.                *)
LEMMA CallingAwake == ASSUME NEW t, calling(t) PROVE thread[t].st \in {"runs", "woken"}
<1> USE DEF At, Wakes
<1>1. CASE startRfDiscovery(t) \/ rfDone(t) \/ rfOffIfOn(t) \/ polling(t) \/ pollingDone(t)
  BY <1>1 DEF startRfDiscovery, rfDone, rfOffIfOn, polling, pollingDone
<1>2. CASE requests(t) \/ requestDone(t) \/ PowerLow(t) \/ linkIsDown(t)
  BY <1>2 DEF requests, requestDone, PowerLow, linkIsDown
<1>3. CASE enableDiscovery(t) \/ disableDiscovery(t) \/ listen(t) \/ discovered(t)
           \/ stopDiscovery(t) \/ stillPolling(t) \/ listenOff(t)
  BY <1>3 DEF enableDiscovery, disableDiscovery, listen, discovered, stopDiscovery, stillPolling,
     listenOff
<1>4. CASE routed(t) \/ setRouting(t) \/ enable(t) \/ enabled(t) \/ checkforNfceeConfig(t)
  BY <1>4 DEF routed, setRouting, enable, enabled, checkforNfceeConfig
<1>5. CASE VenConfig(t) \/ disable(t) \/ disabled(t) \/ unblock(t) \/ finalize(t)
  BY <1>5 DEF VenConfig, disable, disabled, unblock, finalize
<1>6. CASE enableDisableLptd(t) \/ pn544InteropAbortNow(t) \/ SetCbStatus(t)
           \/ SendNxpNciCommand(t) \/ vendorDone(t)
  BY <1>6 DEF enableDisableLptd, pn544InteropAbortNow, SetCbStatus, SendNxpNciCommand, vendorDone
<1>7. QED
  BY <1>1, <1>2, <1>3, <1>4, <1>5, <1>6 DEF calling
-----------------------------------------------------------------------------
(* A self-test passes only for a link that lives                           *)

Own == {r \in asked : r.ev = "vendor" /\ r.by = "factory"}
\* Its answer is to come: the test sleeps on it, and on no other.
OwnSleeps ==
    Own # {} => /\ pc("factory") = "send" /\ thread["factory"].st = "sleeps"
                /\ \A r, s \in Own : r = s

SelfTestInv ==
    /\ Final("factory", "notification")
    /\ ~test.shared => OwnSleeps
    /\ /\ pc("factory") = "notification" /\ thread["factory"].st = "woken" /\ test.status
       => test.alive \/ test.shared
    /\ test.passed => ~Working("factory") /\ ~test.asked /\ (test.alive \/ test.shared)

LEMMA TestFrame ==
    ASSUME Shape, Next
    PROVE  \/ UNCHANGED test
           \/ NFA_DM_NFCC_TRANSPORT_ERR_EVT \/ NxpResponse_Cb \/ Nxp_SelfTest \/ prepares
           \/ nfaNxpSelfTestNtfCallback \/ nfaNxpSelfTestNtfTimerCb \/ SWPSelfTest
           \/ \E t \in roles : SetCbStatus(t)
<1>1. CASE jniCalls
  BY <1>1, JniFrame
<1>2. CASE extras
  BY <1>2 DEF extras, interopStop, interopLocked, interopStopped, interopTimer,
     pn544InteropStartPolling, interopStarted, eeReaderEvent, startStopSwpReaderProc, mapRefused,
     notifyEEReaderEvent, awaits, enableThread, features
<1>3. CASE callbacks
  BY <1>3 DEF callbacks, nfaDone, NFA_DM_ENABLE_EVT, NFA_DM_DISABLE_EVT, NFA_ACTIVATED_EVT,
     pn544InteropIsBusy, NFA_DEACTIVATED_EVT, NFA_EE_ACTION_EVT, NFA_DM_RF_FIELD_EVT, features
<1>4. QED
  BY <1>1, <1>2, <1>3, CallingFrame DEF Next

LEMMA FactoryCalls ==
    ASSUME Base, "factory" \in roles, calling("factory")
    PROVE  pc("factory") \in {"vendor", "send"} /\ Working("factory")
<1>1. Working("factory") /\ pc("factory") \notin OnlySelfTest
  BY CallingTodo, NotAtCalling
<1>2. pc("factory") \in {"vendor", "send"} \cup OnlySelfTest
  BY <1>1, ThreadsAssumption DEF Base, Home, HomeIn, HomeOf, Todo
<1>3. QED
  BY <1>1, <1>2

(* "notification" is a test's last step.                                     *)
LEMMA TestPlans ==
    ASSUME NEW op \in DOMAIN SelfTests
    PROVE  /\ IsSeq(SelfTests[op]) /\ SelfTests[op] # <<>> /\ Head(SelfTests[op]) = "vendor"
           /\ \A i \in DOMAIN Tail(SelfTests[op]) :
                 Tail(SelfTests[op])[i] = "notification" => i = Len(Tail(SelfTests[op]))
<1>1. op \in {"prbsOn", "prbsOff", "swp"}
  BY DEF SelfTests
<1> DEFINE p == SelfTests[op]
<1>2. PICK n \in {1, 3, 7} :
         /\ IsSeq(p) /\ p # <<>> /\ Len(p) = n
         /\ p[1] = "vendor" /\ \A i \in 1..n : p[i] = "notification" => i = n
  <2>1. CASE op = "prbsOn"
    <3>1. p = <<"vendor">>
      BY <2>1 DEF SelfTests
    <3>2. Len(p) = 1 /\ \A i \in 1..1 : p[i] = "vendor"
      BY <3>1
    <3>3. QED
      BY <3>1, <3>2, Plan1
  <2>2. CASE op = "prbsOff"
    <3>1. p = <<"vendor", "vendor", "vendor">>
      BY <2>2 DEF SelfTests
    <3>2. Len(p) = 3 /\ \A i \in 1..3 : p[i] = "vendor"
      BY <3>1
    <3>3. QED
      BY <3>1, <3>2, Plan3
  <2>3. CASE op = "swp"
    <3>1. p = <<"vendor", "vendor", "vendor", "registers", "vendor", "arm", "notification">>
      BY <2>3 DEF SelfTests
    <3>2. Len(p) = 7 /\ p[1] = "vendor" /\ \A i \in 1..7 : p[i] = "notification" => i = 7
      BY <3>1
    <3>3. QED
      BY <3>1, <3>2, Plan7
  <2>4. QED
    BY <1>1, <2>1, <2>2, <2>3
<1> HIDE DEF p
<1>3. /\ Head(p) = p[1] /\ Len(Tail(p)) = n - 1 /\ DOMAIN Tail(p) = 1..(n - 1)
      /\ \A i \in 1..(n - 1) : Tail(p)[i] = p[i + 1]
  BY <1>2, HeadTailElems
<1>4. ASSUME NEW i \in 1..(n - 1), Tail(p)[i] = "notification" PROVE i = n - 1
  <2>1. i + 1 \in 1..n /\ p[i + 1] = "notification"
    BY <1>2, <1>3, <1>4
  <2>2. QED
    BY <1>2, <2>1
<1>5. QED
  BY <1>2, <1>3, <1>4 DEF p

LEMMA TestLast ==
    ASSUME Base, Final("factory", "notification"), Next
    PROVE  Final("factory", "notification")'
<1>0. "factory" \in Threads /\ ThreadsOk
  BY ThreadsAssumption DEF Base, Shape
<1>1. CASE Undisturbed("factory")
  BY <1>1, UndisturbedTodo
<1>2. CASE NFA_DM_NFCC_TRANSPORT_ERR_EVT
  <2>1. thread'["factory"] = Idle(NoCall)
    BY <1>0, <1>2, ResetTodo
  <2>2. pc("factory")' = "idle" /\ rest("factory")' = <<>>
    BY <2>1 DEF pc, rest, Idle, NoCall
  <2>3. QED
    BY <2>2 DEF Final
<1>3. CASE "factory" \in roles /\ calling("factory")
  <2>1. pc("factory") \in {"vendor", "send"} /\ Working("factory")
    BY <1>3, FactoryCalls
  <2>2. "notification" \notin Adds(pc("factory"))
    BY <2>1 DEF Adds
  <2>3. CASE Keeping
    BY <1>0, <2>3, KeepingTodo
  <2>4. CASE Adding("factory")
    BY <1>0, <2>1, <2>2, <2>4, AddingTodo
  <2>5. CASE /\ pc("factory")' \in {"send", "finalize"} /\ rest("factory")' = rest("factory")
    BY <2>5 DEF Final
  <2>6. CASE Quits("factory")
    <3>1. pc("factory")' = "idle" /\ rest("factory")' = <<>>
      BY <1>0, <2>6 DEF Quits, pc, rest, Idle, NoCall, ThreadsOk
    <3>2. QED
      BY <3>1 DEF Final
  <2>7. QED
    BY <1>3, <2>3, <2>4, <2>5, <2>6, CallingTodo
<1>4. CASE Nxp_SelfTest
  <2>1. PICK op \in DOMAIN SelfTests : Begin("factory", op, SelfTests[op])
    BY <1>4 DEF Nxp_SelfTest
  <2>2. op # None
    BY <2>1, NoneAssumption DEF SelfTests
  <2>3. pc("factory")' = "vendor" /\ rest("factory")' = Tail(SelfTests[op])
    BY <2>1, <2>2, TestPlans, BeginTodo
  <2>4. QED
    BY <2>3, TestPlans DEF Final
<1>5. CASE prepares \/ SWPSelfTest
  <2>1. /\ pc("factory") \in {"registers", "arm", "notification"} /\ Advance("factory")
    BY <1>5, AtPc DEF prepares, SWPSelfTest
  <2>2. Working("factory") /\ Adding("factory") /\ "notification" \notin Adds(pc("factory"))
    BY <1>0, <2>1, AddsNothing DEF Adds, Base, Home, HomeIn
  <2>3. QED
    BY <1>0, <2>2, AddingTodo
<1>6. CASE awaits
  <2>1. Keeping
    BY <1>0, <1>6, Slept DEF awaits
  <2>2. QED
    BY <1>0, <2>1, KeepingTodo
<1>7. QED
  BY <1>0, <1>1, <1>2, <1>3, <1>4, <1>5, <1>6, StepsOf DEF StepOf

LEMMA OwnAsked ==
    ASSUME Ground, Next
    PROVE  \/ Own' \subseteq Own
           \/ AsksOne("factory") /\ pc("factory") = "send" /\ \E r : Own' = Own \cup {r}
<1>1. CASE asked' \subseteq asked
  BY <1>1 DEF Own
<1>2. ASSUME NEW t \in roles, AsksOne(t)
      PROVE  \/ Own' \subseteq Own
             \/ t = "factory" /\ pc("factory") = "send" /\ \E r : Own' = Own \cup {r}
  <2>1. PICK what, n : asked' = asked \cup {Request(t, EventAt(pc(t)), what, n)}
    BY <1>2 DEF AsksOne
  <2> DEFINE r == Request(t, EventAt(pc(t)), what, n)
  <2>2. r.ev = EventAt(pc(t)) /\ r.by = t
    BY DEF Request
  <2>3. EventAt(pc(t)) = "vendor" => pc(t) = "send"
    BY DEF EventAt, Rf, Polls, EventOf
  <2> HIDE DEF r
  <2>4. asked' = asked \cup {r}
    BY <2>1 DEF r
  <2>5. CASE r.ev = "vendor" /\ r.by = "factory"
    <3>1. Own' = Own \cup {r}
      BY <2>4, <2>5 DEF Own
    <3>2. QED
      BY <2>2, <2>3, <2>5, <3>1
  <2>6. CASE ~(r.ev = "vendor" /\ r.by = "factory")
    BY <2>4, <2>6 DEF Own
  <2>7. QED
    BY <2>5, <2>6
<1>3. QED
  BY <1>1, <1>2, AskedStep DEF Ground

(* Two parts of the invariant, by what the step does to test.                *)
LEMMA OwnNotified ==
    ASSUME Ground, OwnSleeps, NEW e, Notify(e), e # "vendor", asked' \subseteq asked
    PROVE  OwnSleeps'
<1>0. "factory" \in Threads /\ ThreadsOk
  BY ThreadsAssumption DEF Ground, Base, Shape
<1>1. Own' \subseteq Own
  BY DEF Own
<1>2. CASE Own = {}
  BY <1>1, <1>2 DEF OwnSleeps
<1>3. CASE Own # {}
  <2>1. pc("factory") = "send" /\ thread["factory"].st = "sleeps"
    BY <1>3 DEF OwnSleeps
  <2>2. thread["factory"].ev = "vendor"
    BY <1>0, <2>1 DEF Ground, Sleeping, Asleep, EventAt, Rf, Polls, EventOf
  <2>3. thread'["factory"] = thread["factory"]
    BY <1>0, <2>2, NotifiedOne
  <2>4. QED
    BY <1>1, <2>1, <2>3 DEF OwnSleeps, pc
<1>4. QED
  BY <1>2, <1>3

LEMMA OwnStep ==
    ASSUME Ground, OwnSleeps, Next, ~NFA_DM_NFCC_TRANSPORT_ERR_EVT,
           \A e : ~(Rousing(e) /\ e \in {"vendor", "ntf"})
    PROVE  OwnSleeps'
<1>0. "factory" \in Threads /\ ThreadsOk
  BY ThreadsAssumption DEF Ground, Base, Shape
<1>1. CASE Own # {}
  <2>1. pc("factory") = "send" /\ thread["factory"].st = "sleeps"
    BY <1>1 DEF OwnSleeps
  <2>2. thread["factory"].ev = "vendor"
    BY <1>0, <2>1 DEF Ground, Sleeping, Asleep, EventAt, Rf, Polls, EventOf
  <2>3. Own' \subseteq Own
    BY <2>1, OwnAsked DEF AsksOne
  <2>4. ~StepOf("factory")
    <3>1. ~calling("factory")
      BY <2>1, CallingAwake
    <3>2. ~(prepares \/ awaits \/ SWPSelfTest)
      BY <2>1 DEF prepares, awaits, SWPSelfTest, At, Wakes
    <3>3. ~Nxp_SelfTest
      BY <1>0, <2>1 DEF Nxp_SelfTest, Begin, Ground, Base, Home, HomeIn
    <3>4. QED
      BY <3>1, <3>2, <3>3 DEF StepOf
  <2>5. thread'["factory"] = thread["factory"]
    BY <1>0, <2>2, <2>4, Fate DEF Ground
  <2>6. QED
    BY <1>1, <2>1, <2>3, <2>5 DEF OwnSleeps, pc
<1>2. CASE Own = {}
  <2>1. CASE Own' \subseteq Own
    BY <1>2, <2>1 DEF OwnSleeps
  <2>2. CASE AsksOne("factory") /\ pc("factory") = "send" /\ \E r : Own' = Own \cup {r}
    BY <1>2, <2>2 DEF OwnSleeps, AsksOne, FallsAsleep, Undisturbed
  <2>3. QED
    BY <2>1, <2>2, OwnAsked
<1>3. QED
  BY <1>1, <1>2

LEMMA SelfTestStep == ASSUME Ground, SelfTestInv, Next PROVE SelfTestInv'
<1> DEFINE f == "factory"
<1>0. /\ "factory" \in Threads /\ ThreadsOk /\ Base
      /\ DOMAIN test = {"status", "asked", "armed", "alive", "passed", "shared"}
      /\ \A l : pc("factory") = l /\ l # "idle" => Working("factory")
  BY ThreadsAssumption DEF Ground, Base, Shape, NoTest, Home, HomeIn
<1>1. Final("factory", "notification")'
  BY <1>0, TestLast DEF SelfTestInv
<1>2. SUFFICES /\ ~test'.shared => OwnSleeps'
               /\ /\ pc("factory")' = "notification" /\ thread'["factory"].st = "woken" /\ test'.status
                  => test'.alive \/ test'.shared
               /\ test'.passed =>
                      ~Working("factory")' /\ ~test'.asked /\ (test'.alive \/ test'.shared)
  BY <1>1 DEF SelfTestInv
<1>3. CASE NFA_DM_NFCC_TRANSPORT_ERR_EVT
  <2>1. Own' = {} /\ thread'["factory"].st = "runs" /\ test' = NoTest
    BY <1>0, <1>3 DEF NFA_DM_NFCC_TRANSPORT_ERR_EVT, Own, Idle
  <2>2. QED
    BY <2>1 DEF NoTest, OwnSleeps
<1>4. CASE NxpResponse_Cb
  <2>1. PICK r \in asked, ok \in BOOLEAN :
           /\ r.ev = "vendor" /\ Answers(r)
           /\ test' = [test EXCEPT !.status = ok,
                              !.shared = @ \/ (r.by # "factory" /\ Working("factory"))]
    BY <1>4 DEF NxpResponse_Cb, Requests
  <2>2. /\ test'.shared = (test.shared \/ (r.by # "factory" /\ Working("factory")))
        /\ test'.alive = test.alive /\ test'.asked = test.asked /\ test'.passed = test.passed
    BY <1>0, <2>1
  <2>3. Undisturbed("factory") /\ Working("factory")' = Working("factory")
    BY <1>0, <2>1, NotifiedOne, UndisturbedTodo DEF Answers
  <2>4. asked' = asked \ {r}
    BY <2>1 DEF Answers
  <2>5. ASSUME ~test'.shared PROVE Own' = {}
    <3>1. CASE Own # {}
      <4>1. Working("factory") /\ \A q, s \in Own : q = s
        BY <1>0, <2>2, <2>5, <3>1 DEF SelfTestInv, OwnSleeps
      <4>2. r \in Own
        BY <2>1, <2>2, <2>5, <4>1 DEF Own
      <4>3. QED
        BY <2>4, <4>1, <4>2 DEF Own
    <3>2. CASE Own = {}
      BY <2>4, <3>2 DEF Own
    <3>3. QED
      BY <3>1, <3>2
  <2>6. ASSUME ~test'.shared, pc("factory")' = "notification" PROVE FALSE
    <3>1. pc("factory") = "notification" /\ Working("factory")
      BY <1>0, <2>3, <2>6 DEF Undisturbed
    <3>2. r \in Own
      BY <2>1, <2>2, <2>6, <3>1 DEF Own
    <3>3. QED
      BY <2>2, <2>6, <3>1, <3>2 DEF SelfTestInv, OwnSleeps
  <2>7. QED
    BY <2>2, <2>3, <2>5, <2>6 DEF SelfTestInv, OwnSleeps
<1>5. CASE nfaNxpSelfTestNtfCallback \/ nfaNxpSelfTestNtfTimerCb
  <2>1. /\ Notify("ntf") /\ UNCHANGED asked
        /\ test'.shared = test.shared /\ test'.passed = test.passed
        /\ (test'.status => test'.alive)
        /\ \/ test.asked
           \/ test'.asked = test.asked /\ test'.alive = test.alive
    BY <1>0, <1>5 DEF nfaNxpSelfTestNtfCallback, nfaNxpSelfTestNtfTimerCb
  <2>2. test.shared \/ OwnSleeps'
    BY <2>1, OwnNotified DEF SelfTestInv
  <2>3. Working("factory")' = Working("factory")
    BY <1>0, <2>1, NotifiedOne, UndisturbedTodo
  <2>4. QED
    BY <2>1, <2>2, <2>3 DEF SelfTestInv
<1>6. CASE Nxp_SelfTest
  <2>1. PICK op \in DOMAIN SelfTests : Begin("factory", op, SelfTests[op])
    BY <1>6 DEF Nxp_SelfTest
  <2>2. op # None
    BY <2>1, NoneAssumption DEF SelfTests
  <2>3. thread'["factory"].st = "runs"
    BY <1>0, <2>1, <2>2, TestPlans, BeginTodo
  <2>4. asked' = asked /\ ~test'.passed /\ (~test'.shared => Own = {})
    BY <1>6 DEF Nxp_SelfTest, NoTest, Own, Requests
  <2>5. ~test'.shared => Own' = {}
    BY <2>4 DEF Own
  <2>6. QED
    BY <2>3, <2>4, <2>5 DEF OwnSleeps
<1>7. CASE prepares \/ SWPSelfTest
  <2>1. /\ pc("factory") \in {"registers", "arm", "notification"} /\ Advance("factory")
        /\ asked' = asked /\ test'.shared = test.shared /\ test'.alive = test.alive
    BY <1>0, <1>7, AtPc DEF prepares, SWPSelfTest
  <2>2. thread'["factory"].st = "runs"
    BY <1>0, <2>1, Goes DEF Advance
  <2>3. test.shared \/ Own' = {}
    BY <2>1 DEF SelfTestInv, OwnSleeps, Own
  <2>4. Working("factory") /\ ~test.passed
    BY <1>0, <2>1 DEF SelfTestInv
  <2>5. CASE prepares
    <3>1. test'.passed = test.passed
      BY <1>0, <2>5 DEF prepares
    <3>2. QED
      BY <2>1, <2>2, <2>3, <2>4, <3>1 DEF OwnSleeps
  <2>6. CASE SWPSelfTest
    <3>1. /\ pc("factory") = "notification" /\ thread["factory"].st = "woken"
          /\ test'.passed = test.status /\ ~test'.asked
      BY <1>0, <2>6 DEF SWPSelfTest, Wakes, pc
    <3>2. rest("factory") = <<>>
      BY <3>1 DEF SelfTestInv, Final
    <3>3. Then("factory", <<>>) /\ IsSeq(<<>>)
      BY <2>1, Plan0 DEF Advance
    <3>4. <<>> \o rest("factory") = <<>>
      BY <3>2
    <3>5. ~Working("factory")'
      BY <1>0, <2>4, <3>3, <3>4, Thens DEF Working, Idle, NoCall
    <3>6. QED
      BY <2>1, <2>2, <2>3, <3>1, <3>5 DEF OwnSleeps, SelfTestInv
  <2>7. QED
    BY <1>7, <2>5, <2>6
<1>8. CASE /\ ~(NFA_DM_NFCC_TRANSPORT_ERR_EVT \/ NxpResponse_Cb \/ Nxp_SelfTest \/ prepares
                \/ nfaNxpSelfTestNtfCallback \/ nfaNxpSelfTestNtfTimerCb \/ SWPSelfTest)
           /\ UNCHANGED test \/ \E t \in roles : SetCbStatus(t)
  <2>1. /\ test'.shared = test.shared /\ test'.passed = test.passed /\ test'.alive = test.alive
        /\ test'.asked = test.asked /\ (test'.status => test' = test)
    BY <1>0, <1>8 DEF SetCbStatus
  <2>0. ASSUME NEW e, Rousing(e) PROVE e \notin {"vendor", "ntf"}
    <3>1. \A r \in asked : r.ev # "ntf"
      BY DEF Ground, Sleeping
    <3>2. QED
      BY <1>8, <2>0, <3>1 DEF Rousing
  <2>2. ~test.shared => OwnSleeps'
    BY <1>8, <2>0, OwnStep DEF SelfTestInv
  <2>3. \/ thread'["factory"] = thread["factory"]
        \/ Undisturbed("factory") /\ thread'["factory"].st = "sleeps" /\ Working("factory")
        \/ Undisturbed("factory") /\ thread["factory"].ev \notin {"vendor", "ntf"} /\ Roused("factory")
        \/ Working("factory") /\ thread'["factory"].st = "runs"
    <3>1. StepOf("factory") => Working("factory")
      BY <1>0, <1>8, FactoryCalls, AtPc DEF StepOf, awaits
    <3>2. QED
      BY <1>0, <1>8, <2>0, <3>1, Fate DEF Ground, FallsAsleep, Roused
  <2>4. Undisturbed("factory") => Working("factory")' = Working("factory")
    BY UndisturbedTodo
  <2>5. ~(Roused("factory") /\ thread["factory"].ev # "ntf" /\ pc("factory")' = "notification")
    BY <1>0 DEF Ground, Sleeping, Roused, Undisturbed, Asleep, EventAt, Rf, Polls, EventOf
  <2>6. thread'["factory"] = thread["factory"] => pc("factory")' = pc("factory") /\ Working("factory")' = Working("factory")
    BY DEF pc, Working
  <2>7. QED
    BY <2>1, <2>2, <2>3, <2>4, <2>5, <2>6 DEF SelfTestInv
<1>9. QED
  BY <1>0, <1>3, <1>4, <1>5, <1>6, <1>7, <1>8, TestFrame DEF Base

LEMMA SelfTestInit == Init => SelfTestInv
<1> SUFFICES ASSUME Init PROVE SelfTestInv
  OBVIOUS
<1>1. thread["factory"] = Idle(NoCall) /\ asked = {} /\ test = NoTest
  BY ThreadsAssumption DEF Init
<1>2. pc("factory") = "idle" /\ rest("factory") = <<>>
  BY <1>1 DEF pc, rest, Idle, NoCall
<1>3. QED
  BY <1>1, <1>2 DEF SelfTestInv, Final, Own, OwnSleeps, NoTest

LEMMA SelfTestStutter == SelfTestInv /\ UNCHANGED vars => SelfTestInv'
BY DEF SelfTestInv, Final, Own, OwnSleeps, vars, pc, rest, Working

\* A self-test that passed had the controller say that the link is alive, unless
\* an answer to the command of another, which shares wstatus, may have come.
THEOREM SelfTestCorrect == Spec => []SelfTestIsReal
<1>1. Init => Ground /\ SelfTestInv
  BY GroundInit, SelfTestInit
<1>2. Ground /\ SelfTestInv /\ [Next]_vars => (Ground /\ SelfTestInv)'
  BY GroundStep, GroundStutter, SelfTestStep, SelfTestStutter
<1>3. SelfTestInv => SelfTestIsReal
  BY DEF SelfTestInv, SelfTestIsReal
<1>4. QED
  BY <1>1, <1>2, <1>3, PTL DEF Spec
-----------------------------------------------------------------------------
(* The service's calls, and its answer to enabling                         *)

ServiceInv ==
    /\ "finalize" \notin Left("service")
    /\ "enable" \in Todo("service") => thread["service"].call.op = "initialize"

LEMMA StartTodo ==
    ASSUME Base, NEW t, Starts(t)
    PROVE  \E op, plan :
               /\ op # None /\ IsSeq(plan) /\ plan # <<>> /\ HomeOf(Elems(plan), t) /\ PlanOk(op, plan)
               /\ t \in Threads /\ ~Working(t) /\ Working(t)' /\ Todo(t)' = Elems(plan) /\ Others(t)
               /\ pc(t)' = Head(plan) /\ rest(t)' = Tail(plan) /\ thread'[t].st = "runs"
               /\ thread'[t].call.op = op
<1>1. PICK op, plan : /\ op # None /\ IsSeq(plan) /\ plan # <<>> /\ HomeOf(Elems(plan), t)
                      /\ PlanOk(op, plan)
                      /\ GoWith(t, Head(plan), [op |-> op, rest |-> Tail(plan)])
  BY DEF Starts
<1>2. Begin(t, op, plan)
  BY <1>1 DEF Starts, Begin
<1>3. QED
  BY <1>1, <1>2, BeginTodo

(* What the service's thread does in a step.                                 *)
LEMMA ServiceMoves ==
    ASSUME Base, Next
    PROVE  \/ Undisturbed("service")
           \/ /\ "service" \in roles /\ calling("service") /\ Working("service")
              /\ \/ Adding("service")
                 \/ /\ pc("service") \in {"vendor", "unblock"} /\ Working("service")'
                    /\ pc("service")' \in {"send", "finalize"}
                    /\ (pc("service")' = "send" <=> pc("service") = "vendor")
                    /\ Todo("service")' = {pc("service")'} \cup Left("service")
                    /\ rest("service")' = rest("service")
                    /\ thread'["service"].call = thread["service"].call
           \/ jniCalls /\ Starts("service")
           \/ NFA_DM_NFCC_TRANSPORT_ERR_EVT
<1>1. "service" \in Threads
  BY ThreadsAssumption
<1>2. CASE "service" \in roles /\ calling("service")
  <2>1. Keeping => Undisturbed("service")
    BY <1>1 DEF Keeping, Undisturbed
  <2>2. QED
    BY <1>2, <2>1, CallingTodo
<1>3. QED
  BY <1>1, <1>2, StepsOf DEF StepOf

LEMMA ServiceStep ==
    ASSUME Base, ServiceInv, Next
    PROVE  /\ ServiceInv'
           /\ pc("service")' = "finalize" => pc("service") \in {"finalize", "unblock"}
           /\ pc("service")' = "enable" => thread'["service"].call.op = "initialize"
<1> DEFINE u == "service"
<1>0. u \in Threads /\ ThreadsOk /\ HomeIn(u)
  BY ThreadsAssumption DEF Base, Shape, Home
<1>a. pc(u)' # "idle" => pc(u)' \in Todo(u)'
  <2>1. Base'
    BY BaseStep
  <2>2. QED
    BY <1>0, <2>1 DEF Base, Home, HomeIn, Todo
<1>1. CASE Undisturbed(u)
  BY <1>1, <1>a, UndisturbedTodo DEF ServiceInv, Undisturbed
<1>2. CASE NFA_DM_NFCC_TRANSPORT_ERR_EVT
  <2>1. Todo(u)' = {} /\ rest(u)' = <<>>
    BY <1>0, <1>2, ResetTodo DEF rest, Idle, NoCall
  <2>2. Left(u)' = {}
    BY <2>1, Plan0 DEF Left
  <2>3. QED
    BY <1>a, <2>1, <2>2 DEF ServiceInv
<1>3. CASE Working(u) /\ Adding(u)
  <2>1. /\ Todo(u)' \subseteq Adds(pc(u)) \cup Left(u)
        /\ Working(u)' => thread'[u].call.op = thread[u].call.op
    BY <1>0, <1>3, AddingTodo
  <2>2. "finalize" \notin Adds(pc(u)) /\ "enable" \notin Adds(pc(u))
    BY DEF Adds
  <2>3. Left(u)' \subseteq Todo(u)' \/ ~Working(u)'
    BY DEF Todo
  <2>4. ~Working(u)' => Left(u)' = {}
    <3>1. PICK plan : IsSeq(plan) /\ Then(u, plan)
      BY <1>3 DEF Adding
    <3>2. Working(u)' \/ thread'[u] = Idle(NoCall)
      BY <1>0, <1>3, <3>1, Thens
    <3>3. thread'[u] = Idle(NoCall) => rest(u)' = <<>>
      BY DEF rest, Idle, NoCall
    <3>4. QED
      BY <3>2, <3>3, Plan0 DEF Left
  <2>5. Left(u) \subseteq Todo(u) /\ (Todo(u)' # {} => Working(u)')
    BY <1>3 DEF Todo
  <2>6. QED
    BY <1>a, <2>1, <2>2, <2>3, <2>4, <2>5 DEF ServiceInv
<1>4. CASE /\ pc(u) \in {"vendor", "unblock"}
           /\ pc(u)' \in {"send", "finalize"} /\ (pc(u)' = "send" <=> pc(u) = "vendor")
           /\ Todo(u)' = {pc(u)'} \cup Left(u) /\ rest(u)' = rest(u)
           /\ thread'[u].call = thread[u].call /\ Working(u)
  BY <1>4 DEF ServiceInv, Left, Todo
<1>5. CASE Starts(u)
  <2>1. PICK op, plan :
           /\ IsSeq(plan) /\ plan # <<>> /\ PlanOk(op, plan) /\ Todo(u)' = Elems(plan)
           /\ pc(u)' = Head(plan) /\ rest(u)' = Tail(plan) /\ thread'[u].call.op = op
    BY <1>5, StartTodo
  <2>2. Elems(plan) = {Head(plan)} \cup Elems(Tail(plan))
    BY <2>1, HeadTailElems
  <2>3. Left(u)' \subseteq Elems(plan)
    BY <2>1, <2>2 DEF Left
  <2>4. QED
    BY <1>a, <2>1, <2>2, <2>3 DEF ServiceInv, PlanOk
<1>6. QED
  BY <1>1, <1>2, <1>3, <1>4, <1>5, ServiceMoves
-----------------------------------------------------------------------------
(* The controller has its routes, or they are marked as changed            *)

\* The answer to enabling is to come once, and the service sleeps until then.
EnableSleeps ==
    /\ \A r \in asked : r.ev = "enable" =>
          pc("service") = "enable" /\ thread["service"].st = "sleeps"
    /\ \A r, s \in asked : r.ev = "enable" /\ s.ev = "enable" => r = s

RoutesInv ==
    /\ ServiceInv /\ EnableSleeps
    /\ nfc.enabled => stack.on
    /\ pc("service") = "finalize" => ~nfc.enabled
    /\ nfc.enabled /\ Asleep("service") =>
          (pc("service") = "proto" => stack.route) /\ (pc("service") = "eeRegister" => nfc.dirty)
    /\ nfc.enabled /\ ~wanted.refused =>
          \/ stack.route \/ nfc.dirty
          \/ {"eeRegister", "proto"} \cap Todo("service") # {} \/ pc("service") = "enable"

LEMMA CallingRoutes ==
    ASSUME Shape, NEW t, calling(t)
    PROVE  /\ (nfc'.enabled => nfc.enabled)
           /\ (nfc.dirty => nfc'.dirty) \/ setRouting(t)
           /\ (stack.on => stack'.on) \/ finalize(t) \/ (enabled(t) /\ ~nfc.enabled)
           /\ (stack.route => stack'.route) \/ finalize(t)
           /\ (wanted.refused => wanted'.refused)
           /\ (nfc.enabled /\ unblock(t)) => ~nfc'.enabled
<1> USE DEF Shape, NoFlags, StackOff, NothingWanted
<1>1. CASE startRfDiscovery(t) \/ rfDone(t)
  BY <1>1 DEF startRfDiscovery, Refused, rfDone, setRouting, unblock, At, Wakes, Rf
<1>2. CASE polling(t)
  BY <1>2 DEF polling, Refused, unblock, At, Polls
<1>3. CASE requests(t) \/ requestDone(t)
  BY <1>3 DEF requests, requestDone, Refused, Noted, Stored, unblock, At, Wakes, EventOf
<1>4. CASE setRouting(t) \/ unblock(t) \/ finalize(t) \/ enabled(t) \/ enable(t)
  BY <1>4 DEF setRouting, unblock, finalize, enabled, enable, At, Wakes
<1>5. CASE discovered(t) \/ routed(t) \/ enableDiscovery(t) \/ disableDiscovery(t)
  BY <1>5 DEF discovered, routed, enableDiscovery, disableDiscovery, Wants, unblock, At
<1>6. CASE /\ UNCHANGED <<nfc, stack, wanted>> /\ ~unblock(t)
  BY <1>6
<1>7. QED
  BY <1>1, <1>2, <1>3, <1>4, <1>5, <1>6, CallingFrame

LEMMA RoutesFrame ==
    ASSUME Shape, Next, ~NFA_DM_NFCC_TRANSPORT_ERR_EVT
    PROVE  \/ \E t \in roles : calling(t)
           \/ /\ (nfc'.enabled => nfc.enabled) \/ NFA_DM_ENABLE_EVT
              /\ (nfc.dirty => nfc'.dirty)
              /\ (stack.on => stack'.on) /\ (stack.route => stack'.route)
              /\ (wanted.refused => wanted'.refused)
<1> USE DEF Shape, NoFlags, StackOff, NothingWanted
<1>1. CASE jniCalls
  BY <1>1, JniFrame
<1>2. CASE extras
  BY <1>2 DEF extras, interopStop, interopLocked, interopStopped, interopTimer,
     pn544InteropStartPolling, interopStarted, eeReaderEvent, startStopSwpReaderProc, mapRefused,
     notifyEEReaderEvent, Nxp_SelfTest, prepares, awaits, nfaNxpSelfTestNtfTimerCb, SWPSelfTest,
     enableThread, features
<1>3. CASE callbacks
  BY <1>3 DEF callbacks, NxpResponse_Cb, nfaNxpSelfTestNtfCallback, nfaDone, NFA_DM_ENABLE_EVT,
     NFA_DM_DISABLE_EVT, NFA_ACTIVATED_EVT, pn544InteropIsBusy, NFA_DEACTIVATED_EVT,
     NFA_EE_ACTION_EVT, NFA_DM_RF_FIELD_EVT, ResetPayment, features
<1>4. QED
  BY <1>1, <1>2, <1>3 DEF Next

LEMMA EnableStep ==
    ASSUME Ground, EnableSleeps, Next
    PROVE  EnableSleeps'
<1> DEFINE u == "service"
<1>0. u \in Threads /\ ThreadsOk /\ Home
  BY ThreadsAssumption DEF Ground, Base, Shape
<1> DEFINE Asked == {r \in asked : r.ev = "enable"}
<1>1. \/ Asked' \subseteq Asked
      \/ AsksOne(u) /\ pc(u) = "enable" /\ \E r : Asked' = Asked \cup {r}
  <2>1. ASSUME NEW t \in roles, AsksOne(t)
        PROVE  \/ Asked' \subseteq Asked
               \/ t = u /\ pc(u) = "enable" /\ \E r : Asked' = Asked \cup {r}
    <3>1. PICK what, n : asked' = asked \cup {Request(t, EventAt(pc(t)), what, n)}
      BY <2>1 DEF AsksOne
    <3> DEFINE r == Request(t, EventAt(pc(t)), what, n)
    <3>2. r.ev = EventAt(pc(t))
      BY DEF Request
    <3>3. EventAt(pc(t)) = "enable" => pc(t) = "enable"
      BY DEF EventAt, Rf, Polls, EventOf
    <3>4. pc(t) = "enable" => t = u
      BY <1>0 DEF Home, HomeIn, HomeOf, Todo, OnlyService
    <3> HIDE DEF r
    <3>5. asked' = asked \cup {r}
      BY <3>1 DEF r
    <3>6. CASE r.ev = "enable"
      <4>1. Asked' = Asked \cup {r}
        BY <3>5, <3>6
      <4>2. QED
        BY <3>2, <3>3, <3>4, <3>6, <4>1
    <3>7. CASE r.ev # "enable"
      BY <3>5, <3>7
    <3>8. QED
      BY <3>6, <3>7
  <2>2. QED
    BY <2>1, AskedStep DEF Ground
<1>2. EnableSleeps <=> (Asked # {} => /\ pc(u) = "enable" /\ thread[u].st = "sleeps"
                                      /\ \A r, s \in Asked : r = s)
  BY DEF EnableSleeps
<1>3. EnableSleeps' <=> (Asked' # {} => /\ pc(u)' = "enable" /\ thread'[u].st = "sleeps"
                                        /\ \A r, s \in Asked' : r = s)
  BY DEF EnableSleeps
<1> HIDE DEF Asked
<1>4. CASE Asked # {}
  <2>1. pc(u) = "enable" /\ thread[u].st = "sleeps" /\ \A r, s \in Asked : r = s
    BY <1>2, <1>4
  <2>2. thread[u].ev = "enable"
    BY <1>0, <2>1 DEF Ground, Sleeping, Asleep, EventAt, Rf, Polls, EventOf
  <2>3. Asked' \subseteq Asked
    BY <1>1, <2>1 DEF AsksOne
  <2>4. ~StepOf(u)
    BY <1>0, <2>1, CallingAwake DEF StepOf, Starts, Home, HomeIn
  <2>5. CASE thread'[u] = thread[u]
    BY <1>3, <2>1, <2>3, <2>5 DEF pc
  <2>6. CASE Rousing(thread[u].ev)
    <3>1. NFA_DM_ENABLE_EVT
      BY <2>2, <2>6 DEF Rousing
    <3>2. PICK r \in Asked : asked' = asked \ {r}
      BY <3>1 DEF NFA_DM_ENABLE_EVT, Requests, Answers, Asked
    <3>3. Asked' = {}
      BY <2>1, <2>3, <3>2 DEF Asked
    <3>4. QED
      BY <1>3, <3>3
  <2>7. CASE NFA_DM_NFCC_TRANSPORT_ERR_EVT
    BY <2>7 DEF EnableSleeps, NFA_DM_NFCC_TRANSPORT_ERR_EVT
  <2>8. QED
    BY <1>0, <2>4, <2>5, <2>6, <2>7, Fate DEF Ground
<1>5. CASE Asked = {}
  <2>1. CASE Asked' \subseteq Asked
    BY <1>3, <1>5, <2>1
  <2>2. CASE AsksOne(u) /\ pc(u) = "enable" /\ \E r : Asked' = Asked \cup {r}
    BY <1>3, <1>5, <2>2 DEF AsksOne, FallsAsleep, Undisturbed
  <2>3. QED
    BY <1>1, <2>1, <2>2
<1>6. QED
  BY <1>4, <1>5

(* What becomes of the two requests that the routes depend on.               *)
LEMMA RouteAsked ==
    ASSUME Shape, NEW t \in Threads, calling(t), stack.on, pc(t) \in {"proto", "eeRegister"}
    PROVE  \/ pc(t) = "proto" /\ stack'.route
           \/ pc(t) = "eeRegister" /\ nfc'.dirty
           \/ wanted'.refused /\ thread'[t].st = "runs"
           \/ thread[t].st = "woken" /\ UNCHANGED <<nfc, stack, wanted>>
<1>1. requests(t) \/ requestDone(t)
  BY Where DEF calling
<1>2. CASE requests(t)
  <2>1. PICK l \in DOMAIN EventOf : At(t, l) /\
           \/ nfc' = Noted(l) /\ stack' = Stored(l)
           \/ Refused(t)
           \/ l = "clearAid"
    BY <1>2 DEF requests
  <2>2. pc(t) = l
    BY <2>1, AtPc
  <2>3. CASE nfc' = Noted(l) /\ stack' = Stored(l)
    <3>1. CASE l = "proto"
      <4>1. stack' = [stack EXCEPT !.route = TRUE]
        BY <2>3, <3>1 DEF Stored
      <4>2. stack'.route
        BY <4>1 DEF Shape, StackOff
      <4>3. QED
        BY <2>2, <3>1, <4>2
    <3>2. CASE l = "eeRegister"
      <4>1. nfc' = [nfc EXCEPT !.dirty = TRUE]
        BY <2>3, <3>2 DEF Noted
      <4>2. nfc'.dirty
        BY <4>1 DEF Shape, NoFlags
      <4>3. QED
        BY <2>2, <3>2, <4>2
    <3>3. QED
      BY <2>2, <3>1, <3>2
  <2>4. CASE Refused(t)
    <3>1. wanted'.refused
      BY <2>4 DEF Refused, Shape, NothingWanted
    <3>2. thread'[t].st = "runs"
      BY <2>4, Goes DEF Refused, Advance, Shape
    <3>3. QED
      BY <3>1, <3>2
  <2>5. QED
    BY <2>1, <2>2, <2>3, <2>4
<1>3. CASE requestDone(t)
  <2>1. thread[t].st = "woken" /\ nfc' = nfc /\ UNCHANGED <<stack, wanted>>
    BY <1>3, AtPc DEF requestDone, Wakes
  <2>2. QED
    BY <2>1
<1>4. QED
  BY <1>1, <1>2, <1>3

LEMMA OnlyServiceSteps ==
    ASSUME Base, NEW t \in roles
    PROVE  /\ setRouting(t) => t = "service" /\ pc("service") = "setRouting"
           /\ finalize(t) => t = "service" /\ pc("service") = "finalize"
           /\ unblock(t) => t = "service" /\ pc("service") = "unblock"
           /\ enable(t) \/ enabled(t) => t = "service" /\ pc("service") = "enable"
           /\ disable(t) => t = "service" /\ pc("service") = "disable"
BY Where DEF Base, Home, HomeIn, HomeOf, Todo, OnlyService

LEMMA HeadConcat ==
    ASSUME NEW p, NEW r, IsSeq(p), IsSeq(r), p # <<>>
    PROVE  p \o r # <<>> /\ Head(p \o r) = Head(p)
<1>1. PICK S, T : p \in Seq(S) /\ r \in Seq(T)
  BY DEF IsSeq
<1>2. p \in Seq(S \cup T) /\ r \in Seq(S \cup T)
  BY <1>1, SeqWider
<1>3. PICK m \in Nat \ {0}, n \in Nat : m = Len(p) /\ n = Len(r)
  BY <1>2, LenProperties, EmptySeq
<1>4. /\ Len(p \o r) = m + n /\ p \o r \in Seq(S \cup T)
      /\ \A i \in 1..(m + n) : (p \o r)[i] = IF i <= m THEN p[i] ELSE r[i - m]
  BY <1>2, <1>3, ConcatProperties
<1>5. Len(p \o r) > 0 /\ (p \o r)[1] = p[1]
  BY <1>3, <1>4
<1>6. p \o r # <<>>
  BY <1>4, <1>5, EmptySeq
<1>7. Head(p) = p[1]
  BY HeadTailElems
<1>8. Head(p \o r) = (p \o r)[1]
  BY <1>4, <1>6, HeadTailElems DEF IsSeq
<1>9. QED
  BY <1>5, <1>6, <1>7, <1>8

LEMMA EnabledTodo ==
    ASSUME Base, "service" \in roles, enabled("service"), nfc.enabled
    PROVE  /\ Todo("service")' = {"rfOffIfOn", "rfOn", "eeRegister", "nfcee", "venConfig", "powerLow"}
                                 \cup Left("service")
           /\ pc("service")' = "rfOffIfOn" /\ Others("service")
<1> DEFINE u == "service"
           more == <<"eeRegister", "nfcee", "venConfig", "powerLow">>
           plan == SetListenMode \o more
<1>1. u \in Threads /\ Wakes(u, "enable") /\ Then(u, plan)
  BY ThreadsAssumption DEF enabled
<1>2. /\ IsSeq(SetListenMode) /\ Elems(SetListenMode) = {"rfOffIfOn", "rfOn"}
      /\ IsSeq(more) /\ Elems(more) = {"eeRegister", "nfcee", "venConfig", "powerLow"}
  BY Plan2, Plan4 DEF SetListenMode
<1>3. SetListenMode # <<>> /\ Head(SetListenMode) = "rfOffIfOn"
  BY DEF SetListenMode
<1> HIDE DEF more
<1>4. plan # <<>> /\ Head(plan) = "rfOffIfOn"
  BY <1>2, <1>3, HeadConcat
<1>5. IsSeq(plan) /\ Elems(plan) = Elems(SetListenMode) \cup Elems(more)
  BY <1>2, ConcatElems
<1> HIDE DEF plan
<1>6. Todo(u)' = Elems(plan) \cup Left(u) /\ Working(u) /\ Others(u)
  BY <1>1, <1>5, ThenTodo
<1>7. plan \o rest(u) # <<>> /\ Head(plan \o rest(u)) = "rfOffIfOn"
  BY <1>1, <1>4, <1>5, HeadConcat DEF Base, Shape, ThreadsOk, ThreadOk, rest
<1>8. pc(u)' = "rfOffIfOn"
  BY <1>1, <1>5, <1>6, <1>7, Thens DEF Base, Shape
<1>9. QED
  BY <1>2, <1>5, <1>6, <1>8

LEMMA RoutesStep == ASSUME Ground, RoutesInv, Next PROVE RoutesInv'
<1> DEFINE u == "service"
<1>0. u \in Threads /\ ThreadsOk /\ Base /\ Shape /\ (pc(u) # "idle" => Working(u))
  BY ThreadsAssumption DEF Ground, Base, Shape, Home, HomeIn
<1>1. ServiceInv' /\ EnableSleeps'
  BY <1>0, ServiceStep, EnableStep DEF RoutesInv
<1>2. CASE NFA_DM_NFCC_TRANSPORT_ERR_EVT
  <2>1. ~nfc'.enabled
    BY <1>2 DEF NFA_DM_NFCC_TRANSPORT_ERR_EVT, NoFlags
  <2>2. QED
    BY <1>1, <2>1 DEF RoutesInv
<1>3. CASE NFA_DM_ENABLE_EVT
  <2>1. PICK r \in asked : r.ev = "enable" /\ Notify("enable") /\ stack.on /\ stack' = stack
    BY <1>3 DEF NFA_DM_ENABLE_EVT, NfaTask, Answers, Requests
  <2>2. pc(u) = "enable"
    BY <2>1 DEF RoutesInv, EnableSleeps
  <2>3. pc(u)' = "enable"
    BY <1>0, <2>1, <2>2, NotifiedOne DEF Undisturbed
  <2>4. QED
    BY <1>1, <2>1, <2>3 DEF RoutesInv
<1>4. CASE ~NFA_DM_NFCC_TRANSPORT_ERR_EVT /\ ~NFA_DM_ENABLE_EVT /\ ~nfc'.enabled
  BY <1>1, <1>4 DEF RoutesInv
<1>5. CASE ~NFA_DM_NFCC_TRANSPORT_ERR_EVT /\ ~NFA_DM_ENABLE_EVT /\ nfc'.enabled
  <2>1. /\ nfc.enabled /\ (stack.on => stack'.on) /\ (stack.route => stack'.route)
        /\ (wanted.refused => wanted'.refused)
        /\ (nfc.dirty => nfc'.dirty) \/ ("service" \in roles /\ setRouting(u) /\ pc(u) = "setRouting")
    <3>1. ASSUME NEW t \in roles, calling(t)
          PROVE  /\ nfc.enabled /\ (stack.on => stack'.on) /\ (stack.route => stack'.route)
                 /\ (wanted.refused => wanted'.refused)
                 /\ (nfc.dirty => nfc'.dirty) \/ (t = u /\ setRouting(u) /\ pc(u) = "setRouting")
      <4>1. nfc.enabled
        BY <1>0, <1>5, <3>1, CallingRoutes
      <4>2. ~finalize(t)
        BY <1>0, <3>1, <4>1, OnlyServiceSteps DEF RoutesInv
      <4>3. QED
        BY <1>0, <3>1, <4>1, <4>2, CallingRoutes, OnlyServiceSteps
    <3>2. QED
      BY <1>0, <1>5, <3>1, RoutesFrame
  <2>2. stack.on /\ stack'.on
    BY <2>1 DEF RoutesInv
  <2>3. pc(u)' # "finalize"
    <3> SUFFICES ASSUME pc(u)' = "finalize" PROVE FALSE
      OBVIOUS
    <3>1. pc(u) = "unblock"
      BY <1>0, <2>1, ServiceStep DEF RoutesInv
    <3>2. "service" \in roles /\ calling(u)
      BY <1>0, <1>5, <3>1, ServiceMoves DEF Undisturbed, Starts
    <3>3. unblock(u)
      BY <3>1, <3>2, Where DEF calling
    <3>4. QED
      BY <1>0, <1>5, <2>1, <3>2, <3>3, CallingRoutes
  <2>4. ASSUME Asleep(u)'
        PROVE  (pc(u)' = "proto" => stack'.route) /\ (pc(u)' = "eeRegister" => nfc'.dirty)
    <3>1. CASE FallsAsleep(u) /\ StepOf(u)
      <4>1. pc(u)' = pc(u) /\ thread[u].st = "runs" /\ thread'[u].st = "sleeps"
            /\ Working(u)' = Working(u)
        BY <3>1, UndisturbedTodo DEF FallsAsleep, Undisturbed
      <4>2. ~Starts(u)
        BY <1>0, <4>1, StartTodo
      <4>3. calling(u)
        BY <3>1, <4>2 DEF StepOf
      <4>4. QED
        BY <1>0, <2>2, <4>1, <4>3, RouteAsked
    <3>2. CASE Undisturbed(u) /\ thread[u].st # "runs"
      BY <2>1, <3>2 DEF RoutesInv, Asleep, Undisturbed
    <3>3. CASE thread'[u] = thread[u] /\ Undisturbed(u)
      BY <2>4, <3>2, <3>3 DEF Asleep
    <3>4. QED
      BY <1>0, <1>5, <2>4, <3>1, <3>2, <3>3, Fate DEF Ground, Roused, Asleep
  <2>5. ASSUME ~wanted'.refused
        PROVE  \/ stack'.route \/ nfc'.dirty
               \/ {"eeRegister", "proto"} \cap Todo(u)' # {} \/ pc(u)' = "enable"
    <3>1. \/ stack.route \/ nfc.dirty
          \/ {"eeRegister", "proto"} \cap Todo(u) # {} \/ pc(u) = "enable"
      BY <2>1, <2>5 DEF RoutesInv
    <3>2. CASE nfc.dirty /\ "service" \in roles /\ setRouting(u)
      <4> DEFINE plan == <<"proto", "tech", "uicc">>
      <4>1. At(u, "setRouting") /\ Then(u, plan)
        BY <3>2 DEF setRouting
      <4>2. IsSeq(plan) /\ Elems(plan) = {"proto", "tech", "uicc"}
        BY Plan3
      <4> HIDE DEF plan
      <4>3. Todo(u)' = Elems(plan) \cup Left(u)
        BY <1>0, <4>1, <4>2, ThenTodo
      <4>4. QED
        BY <4>2, <4>3
    <3>3. ASSUME NEW l \in {"eeRegister", "proto"}, l \in Todo(u)
          PROVE  stack'.route \/ nfc'.dirty \/ l \in Todo(u)'
      <4>0. Working(u)
        BY <3>3 DEF Todo
      <4>1. CASE Undisturbed(u)
        BY <3>3, <4>1, UndisturbedTodo
      <4>2. CASE "service" \in roles /\ calling(u) /\ l # pc(u)
        BY <1>0, <3>3, <4>2, CallingLeaves
      <4>3. CASE "service" \in roles /\ calling(u) /\ l = pc(u)
        BY <1>0, <2>1, <2>2, <2>5, <4>3, RouteAsked DEF RoutesInv, Asleep
      <4>4. QED
        BY <1>0, <1>5, <4>0, <4>1, <4>2, <4>3, ServiceMoves DEF Starts
    <3>4. CASE pc(u) = "enable"
      <4>1. CASE Undisturbed(u)
        BY <3>4, <4>1 DEF Undisturbed
      <4>2. CASE "service" \in roles /\ calling(u)
        <5>1. enable(u) \/ enabled(u)
          BY <3>4, <4>2, Where DEF calling
        <5>2. CASE enable(u)
          <6>1. SleepsOn(u, "enable")
            BY <5>2, Asks1 DEF enable
          <6>2. QED
            BY <1>0, <3>4, <6>1, Slept DEF Keeping
        <5>3. CASE enabled(u)
          BY <1>0, <2>1, <4>2, <5>3, EnabledTodo
        <5>4. QED
          BY <5>1, <5>2, <5>3
      <4>3. QED
        BY <1>0, <1>5, <3>4, <4>1, <4>2, ServiceMoves DEF Starts
    <3>5. QED
      BY <2>1, <3>1, <3>2, <3>3, <3>4
  <2>6. QED
    BY <1>1, <2>2, <2>3, <2>4, <2>5 DEF RoutesInv
<1>6. QED
  BY <1>2, <1>3, <1>4, <1>5

LEMMA RoutesInit == Init => RoutesInv
<1> SUFFICES ASSUME Init PROVE RoutesInv
  OBVIOUS
<1>1. thread["service"] = Idle(NoCall) /\ asked = {} /\ ~nfc.enabled
  BY ThreadsAssumption DEF Init, NoFlags
<1>2. Left("service") = {} /\ Todo("service") = {} /\ pc("service") = "idle"
  BY <1>1, Plan0 DEF Left, rest, Todo, Working, Idle, NoCall, pc
<1>3. QED
  BY <1>1, <1>2 DEF RoutesInv, ServiceInv, EnableSleeps

LEMMA RoutesStutter == RoutesInv /\ UNCHANGED vars => RoutesInv'
BY DEF RoutesInv, ServiceInv, EnableSleeps, vars, Left, rest, Todo, Working, pc, Asleep

\* The controller has its routes whenever none of them is marked as changed and
\* no call is at work, across the calls that route and those that start NFC.
THEOREM RoutesCorrect == Spec => []RoutesSet
<1>1. Init => Ground /\ RoutesInv
  BY GroundInit, RoutesInit
<1>2. Ground /\ RoutesInv /\ [Next]_vars => (Ground /\ RoutesInv)'
  BY GroundStep, GroundStutter, RoutesStep, RoutesStutter
<1>3. Ground /\ RoutesInv => RoutesSet
  <2> SUFFICES ASSUME Ground, RoutesInv, nfc.enabled, Quiet, ~nfc.dirty, ~wanted.refused
               PROVE  stack.route
    BY DEF RoutesSet
  <2>1. ~Working("service") /\ pc("service") = "idle" /\ Todo("service") = {}
    BY ThreadsAssumption DEF Quiet, Ground, Base, Home, HomeIn, Todo
  <2>2. QED
    BY <2>1 DEF RoutesInv
<1>4. QED
  BY <1>1, <1>2, <1>3, PTL DEF Spec
-----------------------------------------------------------------------------
(* sRfEnabled is what the controller does                                  *)

\* Until setListenMode has switched it, the RF may differ from the flag, which
\* outlives the stack.
Initialising ==
    \/ pc("service") = "enable"
    \/ /\ thread["service"].call.op = "initialize"
       /\ "rfOn" \in Left("service") \/ (pc("service") = "rfOn" /\ ~Asleep("service"))

RfInv ==
    /\ ServiceInv
    /\ ~wanted.overlap => \A t, u \in Threads : InRf(t) /\ InRf(u) => t = u
    /\ stack.on /\ ~Excused /\ ~Initialising =>
          /\ \A t \in Threads : InRf(t) => Rf[pc(t)] = stack.rf
          /\ (\A t \in Threads : ~InRf(t)) => nfc.rf = stack.rf

(* Where no other kind of step is made, a thread's step is one of its call.   *)
LEMMA StepCalls ==
    ASSUME Base, NEW u \in Threads, StepOf(u), Working(u),
           pc(u) \notin {"lockStop", "setTimer", "lockStart", "restored", "lastRequest",
                         "letThrough", "forget"} \cup OnlySelfTest \cup OnlyReader
    PROVE  u \in roles /\ calling(u)
<1>2. u = "tag" => ~(interopStop \/ interopLocked \/ interopStopped)
  BY AtPc DEF interopStop, interopLocked, interopStopped, Begin
<1>3. u = "interop" => ~(interopTimer \/ pn544InteropStartPolling \/ interopStarted)
  BY AtPc DEF interopTimer, pn544InteropStartPolling, interopStarted, Begin
<1>4. u = "swp" => ~(eeReaderEvent \/ startStopSwpReaderProc \/ mapRefused \/ notifyEEReaderEvent)
  BY AtPc DEF eeReaderEvent, startStopSwpReaderProc, mapRefused, notifyEEReaderEvent, Begin, OnlyReader
<1>5. u = "factory" => ~(Nxp_SelfTest \/ prepares \/ awaits \/ SWPSelfTest)
  BY AtPc DEF Nxp_SelfTest, prepares, awaits, SWPSelfTest, Begin, OnlySelfTest
<1>6. u = "payment" => ~(enableThread \/ Begin("payment", "payment", <<"lastRequest">>))
  BY AtPc DEF enableThread, Begin
<1>7. QED
  BY <1>2, <1>3, <1>4, <1>5, <1>6 DEF StepOf, Starts

LEMMA InRfStep ==
    ASSUME Ground, Next, NEW u \in Threads
    PROVE  \/ InRf(u) /\ InRf(u)' /\ pc(u)' = pc(u)
           \/ ~InRf(u) /\ ~InRf(u)'
           \/ u \in roles /\ startRfDiscovery(u) /\ ~InRf(u) /\ InRf(u)'
           \/ u \in roles /\ rfDone(u) /\ InRf(u) /\ ~InRf(u)'
           \/ NFA_DM_NFCC_TRANSPORT_ERR_EVT
<1>0. Base /\ (pc(u) # "idle" => Working(u)) /\ \A t : InRf(t) => pc(t) \in {"rfOn", "rfOff"}
  BY DEF Ground, Base, Home, HomeIn, InRf, Rf, pc
<1>1. ASSUME StepOf(u), pc(u) \in {"rfOn", "rfOff"} PROVE u \in roles /\ (startRfDiscovery(u) \/ rfDone(u))
  <2>1. u \in roles /\ calling(u)
    BY <1>0, <1>1, StepCalls DEF OnlySelfTest, OnlyReader
  <2>2. QED
    BY <1>1, <2>1, Where DEF calling
<1>2. startRfDiscovery(u) => thread[u].st = "runs"
  BY DEF startRfDiscovery, At
<1>3. rfDone(u) => thread[u].st = "woken"
  BY DEF rfDone, Wakes
<1>4. CASE thread'[u] = thread[u] /\ Undisturbed(u)
  BY <1>4 DEF InRf, Undisturbed
<1>5. CASE FallsAsleep(u) /\ StepOf(u)
  BY <1>1, <1>3, <1>5 DEF InRf, FallsAsleep, Undisturbed, pc, Rf
<1>6. CASE Roused(u)
  BY <1>6 DEF InRf, Roused, Undisturbed, pc
<1>7. CASE StepOf(u) /\ thread'[u].st = "runs"
  BY <1>0, <1>1, <1>2, <1>7 DEF InRf
<1>8. QED
  BY <1>4, <1>5, <1>6, <1>7, Fate DEF Ground

LEMMA StartRf ==
    ASSUME Base, NEW t \in roles, startRfDiscovery(t), ~wanted'.refused
    PROVE  \E l \in DOMAIN Rf :
              /\ pc(t) = l /\ pc(t)' = l /\ InRf(t)' /\ ~InRf(t) /\ Others(t)
              /\ UNCHANGED nfc /\ (stack.on => stack'.rf = Rf[l])
              /\ wanted'.overlap = (wanted.overlap \/ \E u \in roles : InRf(u))
<1>1. t \in Threads /\ ThreadsOk /\ Shape
  BY DEF Base, Shape, Home
<1>2. ~Refused(t)
  BY <1>1 DEF Refused, Shape, NothingWanted
<1>3. PICK l \in DOMAIN Rf :
        /\ At(t, l) /\ AsksStack(t, "poll", <<l, stack.rf>>)
        /\ stack' = IF stack.on THEN [stack EXCEPT !.rf = Rf[l]] ELSE stack
        /\ wanted' = [wanted EXCEPT !.overlap = @ \/ \E u \in roles : InRf(u)]
        /\ UNCHANGED nfc
  BY <1>2 DEF startRfDiscovery
<1>4. Keeping /\ Others(t) /\ thread'[t].st = "sleeps"
  BY <1>1, <1>3, Asks1, Slept
<1>5. pc(t) = l /\ thread[t].st = "runs" /\ pc(t)' = l
  BY <1>1, <1>3, <1>4 DEF At, pc, Keeping
<1>6. InRf(t)' /\ ~InRf(t)
  BY <1>4, <1>5 DEF InRf, pc
<1>7. wanted'.overlap = (wanted.overlap \/ \E u \in roles : InRf(u))
  BY <1>1, <1>3 DEF Shape, NothingWanted
<1>8. stack.on => stack'.rf = Rf[l]
  BY <1>1, <1>3 DEF Shape, StackOff
<1>9. QED
  BY <1>3, <1>4, <1>5, <1>6, <1>7, <1>8

LEMMA RfFrame ==
    ASSUME Shape, Next, ~NFA_DM_NFCC_TRANSPORT_ERR_EVT
    PROVE  /\ (wanted.refused => wanted'.refused) /\ (wanted.overlap => wanted'.overlap)
           /\ nfc'.rf = nfc.rf \/ \E t \in roles : rfDone(t)
           /\ \/ stack'.rf = stack.rf /\ stack'.on = stack.on
              \/ ~stack'.on
              \/ \E t \in roles : startRfDiscovery(t) \/ enable(t)
<1> USE DEF Shape, NoFlags, StackOff, NothingWanted
<1>1. CASE jniCalls
  BY <1>1, JniFrame
<1>2. CASE extras
  BY <1>2 DEF extras, interopStop, interopLocked, interopStopped, interopTimer,
     pn544InteropStartPolling, interopStarted, eeReaderEvent, startStopSwpReaderProc, mapRefused,
     notifyEEReaderEvent, Nxp_SelfTest, prepares, awaits, nfaNxpSelfTestNtfTimerCb, SWPSelfTest,
     enableThread, features
<1>3. CASE callbacks
  BY <1>3 DEF callbacks, NxpResponse_Cb, nfaNxpSelfTestNtfCallback, nfaDone, NFA_DM_ENABLE_EVT,
     NFA_DM_DISABLE_EVT, NFA_ACTIVATED_EVT, pn544InteropIsBusy, NFA_DEACTIVATED_EVT,
     NFA_EE_ACTION_EVT, NFA_DM_RF_FIELD_EVT, ResetPayment, features
<1>4. ASSUME NEW t \in roles, calling(t)
      PROVE  /\ (wanted.refused => wanted'.refused) /\ (wanted.overlap => wanted'.overlap)
             /\ nfc'.rf = nfc.rf \/ rfDone(t)
             /\ \/ stack'.rf = stack.rf /\ stack'.on = stack.on
                \/ ~stack'.on \/ startRfDiscovery(t) \/ enable(t)
  <2>1. CASE startRfDiscovery(t) \/ rfDone(t)
    BY <2>1 DEF startRfDiscovery, Refused, rfDone
  <2>2. CASE polling(t)
    BY <2>2 DEF polling, Refused
  <2>3. CASE requests(t) \/ requestDone(t)
    BY <2>3 DEF requests, requestDone, Refused, Noted, Stored
  <2>7. CASE setRouting(t) \/ unblock(t)
    BY <2>7 DEF setRouting, unblock
  <2>4. CASE finalize(t) \/ enabled(t) \/ enable(t)
    <3>1. UNCHANGED <<nfc, wanted>>
      BY <2>4 DEF finalize, enabled, enable
    <3>2. stack' = stack \/ stack' = [stack EXCEPT !.on = FALSE] \/ stack' = StackOff \/ enable(t)
      BY <2>4 DEF finalize, enabled
    <3>3. QED
      BY <3>1, <3>2
  <2>5. CASE discovered(t) \/ routed(t) \/ enableDiscovery(t) \/ disableDiscovery(t)
    BY <2>5 DEF discovered, routed, enableDiscovery, disableDiscovery, Wants
  <2>6. CASE UNCHANGED <<nfc, stack, wanted>>
    BY <2>6
  <2>8. QED
    BY <1>4, <2>1, <2>2, <2>3, <2>7, <2>4, <2>5, <2>6, CallingFrame
<1>5. QED
  BY <1>1, <1>2, <1>3, <1>4 DEF Next

(* The service leaves initialising by a request to start the RF.              *)
LEMMA InitialisingEnds ==
    ASSUME Ground, ServiceInv, Next, ~NFA_DM_NFCC_TRANSPORT_ERR_EVT, stack'.on,
           ~wanted'.refused, Initialising, ~Initialising'
    PROVE  "service" \in roles /\ startRfDiscovery("service")
<1> DEFINE u == "service"
<1>0. u \in Threads /\ ThreadsOk /\ Base /\ Shape /\ (pc(u) # "idle" => Working(u))
      /\ (~Working(u) => thread[u].call.op # "initialize" /\ pc(u) = "idle")
  BY ThreadsAssumption, NoneAssumption DEF Ground, Base, Shape, Home, HomeIn, Working
<1>1. Working(u)
  BY <1>0 DEF Initialising
<1>2. CASE Undisturbed(u)
  <2>1. Left(u)' = Left(u) /\ pc(u)' = pc(u) /\ thread'[u].call = thread[u].call
    BY <1>2, UndisturbedTodo DEF Undisturbed
  <2>2. pc(u) = "rfOn" /\ ~Asleep(u) /\ Asleep(u)'
    BY <2>1 DEF Initialising
  <2>3. StepOf(u)
    BY <1>0, <2>2, Fate DEF Ground, FallsAsleep, Roused, Asleep
  <2>4. u \in roles /\ calling(u)
    BY <1>0, <1>1, <2>2, <2>3, StepCalls DEF OnlySelfTest, OnlyReader
  <2>5. ~rfDone(u)
    BY <2>2 DEF rfDone, Wakes, Asleep
  <2>6. QED
    BY <2>2, <2>4, <2>5, Where DEF calling
<1>3. CASE u \in roles /\ calling(u) /\ ~Undisturbed(u)
  <2>1. CASE pc(u) = "enable"
    <3>1. ~enable(u)
      <4>1. enable(u) => SleepsOn(u, "enable")
        BY Asks1 DEF enable
      <4>2. QED
        BY <1>0, <1>3, <4>1, Slept DEF Keeping, Undisturbed
    <3>2. enabled(u)
      BY <1>3, <2>1, <3>1, Where DEF calling
    <3>3. nfc.enabled
      <4>1. ~nfc.enabled => stack' = [stack EXCEPT !.on = FALSE]
        BY <3>2 DEF enabled
      <4>2. QED
        BY <1>0, <4>1 DEF Shape, StackOff
    <3>4. pc(u)' = "rfOffIfOn" /\ "rfOn" \in Todo(u)'
      BY <1>0, <1>3, <3>2, <3>3, EnabledTodo
    <3>5. "rfOn" \in Left(u)' /\ Working(u)'
      BY <3>4 DEF Todo
    <3>6. Adding(u)
      BY <1>0, <1>1, <1>3, <2>1, <3>4, ServiceMoves DEF Starts
    <3>7. thread'[u].call.op = thread[u].call.op
      BY <1>0, <1>1, <3>5, <3>6, AddingTodo
    <3>8. thread[u].call.op = "initialize"
      BY <1>1, <2>1 DEF ServiceInv, Todo
    <3>9. QED
      BY <3>5, <3>7, <3>8 DEF Initialising
  <2>2. CASE pc(u) # "enable" /\ "rfOn" \in Left(u)
    <3>1. thread[u].call.op = "initialize"
      BY <2>2 DEF Initialising
    <3>2. CASE Adding(u)
      <4>1. /\ "rfOn" \in Todo(u)' /\ thread'[u].st = "runs"
            /\ Working(u)' => thread'[u].call.op = thread[u].call.op
        BY <1>0, <1>1, <2>2, <3>2, AddingTodo
      <4>2. Working(u)' /\ ("rfOn" \in Left(u)' \/ pc(u)' = "rfOn")
        BY <4>1 DEF Todo
      <4>3. QED
        BY <3>1, <4>1, <4>2 DEF Initialising, Asleep
    <3>3. CASE rest(u)' = rest(u) /\ thread'[u].call = thread[u].call
      BY <2>2, <3>1, <3>3 DEF Initialising, Left
    <3>4. QED
      BY <1>0, <1>1, <1>3, <3>2, <3>3, ServiceMoves DEF Starts
  <2>3. CASE pc(u) = "rfOn" /\ ~Asleep(u)
    <3>1. ~rfDone(u)
      BY <2>3 DEF rfDone, Wakes, Asleep
    <3>2. QED
      BY <1>3, <2>3, <3>1, Where DEF calling
  <2>4. QED
    BY <2>1, <2>2, <2>3 DEF Initialising
<1>4. QED
  BY <1>0, <1>1, <1>2, <1>3, ServiceMoves DEF Starts

LEMMA RfStep == ASSUME Ground, RfInv, Next PROVE RfInv'
<1>0. Base /\ Shape /\ Home /\ roles \subseteq Threads
      /\ \A t \in Threads : InRf(t) => t \in roles
  BY DEF Ground, Base, Home, HomeIn, InRf, Rf, pc
<1>1. ServiceInv'
  BY <1>0, ServiceStep DEF RfInv
<1>2. CASE NFA_DM_NFCC_TRANSPORT_ERR_EVT
  <2>1. ~stack'.on /\ \A t \in Threads : ~InRf(t)'
    BY <1>2 DEF NFA_DM_NFCC_TRANSPORT_ERR_EVT, StackOff, InRf, Idle, Rf
  <2>2. QED
    BY <1>1, <2>1 DEF RfInv
<1>3. CASE ~NFA_DM_NFCC_TRANSPORT_ERR_EVT
  <2>1. (wanted.refused => wanted'.refused) /\ (wanted.overlap => wanted'.overlap)
    BY <1>0, <1>3, RfFrame
  <2>2. ASSUME ~wanted'.overlap, ~wanted'.refused, NEW t \in roles, startRfDiscovery(t)
        PROVE  /\ InRf(t)' /\ (stack.on => Rf[pc(t)'] = stack'.rf)
               /\ \A u \in Threads : InRf(u)' => u = t
    <3>1. /\ pc(t)' = pc(t) /\ InRf(t)' /\ Others(t) /\ (stack.on => stack'.rf = Rf[pc(t)])
          /\ \A u \in roles : ~InRf(u)
      BY <1>0, <2>2, StartRf
    <3>2. ASSUME NEW u \in Threads, InRf(u)', u # t PROVE FALSE
      <4>1. InRf(u)
        BY <3>1, <3>2 DEF Others, InRf
      <4>2. QED
        BY <1>0, <3>1, <4>1
    <3>3. QED
      BY <3>1, <3>2
  <2>3. ASSUME ~wanted'.overlap PROVE \A t, u \in Threads : InRf(t)' /\ InRf(u)' => t = u
    <3>1. ASSUME NEW t \in roles, startRfDiscovery(t), NEW u \in Threads, NEW v \in Threads,
                 InRf(u)', InRf(v)'
          PROVE  u = v
      <4>1. CASE wanted'.refused /\ ~wanted.refused
        <5>1. Refused(t)
          BY <1>0, <3>1, <4>1 DEF startRfDiscovery, Shape, NothingWanted
        <5>2. Others(t) /\ thread'[t].st = "runs"
          BY <1>0, <3>1, <5>1, Goes DEF Refused, Advance, Shape
        <5>3. InRf(u) /\ InRf(v)
          BY <3>1, <5>2 DEF InRf, Others
        <5>4. QED
          BY <2>1, <2>3, <5>3 DEF RfInv
      <4>2. CASE Others(t) /\ thread'[t].st = "runs"
        <5>3. InRf(u) /\ InRf(v)
          BY <3>1, <4>2 DEF InRf, Others
        <5>4. QED
          BY <2>1, <2>3, <5>3 DEF RfInv
      <4>3. CASE ~Refused(t)
        <5>1. /\ \A w \in roles : ~InRf(w)
          BY <1>0, <2>3, <3>1, <4>3 DEF startRfDiscovery, Shape, NothingWanted
        <5>2. Others(t)
          BY <1>0, <3>1, <4>3, Asks1, Slept DEF startRfDiscovery, Shape
        <5>3. \A w \in Threads : InRf(w)' => w = t
          BY <1>0, <5>1, <5>2 DEF Others, InRf
        <5>4. QED
          BY <3>1, <5>3
      <4>4. CASE Refused(t)
        BY <1>0, <3>1, <4>2, <4>4, Goes DEF Refused, Advance, Shape
      <4>5. QED
        BY <4>3, <4>4
    <3>2. ASSUME \A t \in roles : ~startRfDiscovery(t), NEW u \in Threads, NEW v \in Threads,
                 InRf(u)', InRf(v)'
          PROVE  u = v
      BY <1>3, <2>1, <2>3, <3>2, InRfStep DEF RfInv
    <3>3. QED
      BY <3>1, <3>2
  <2>4. ASSUME stack'.on, ~Excused', ~Initialising'
        PROVE  /\ \A t \in Threads : InRf(t)' => Rf[pc(t)'] = stack'.rf
               /\ (\A t \in Threads : ~InRf(t)') => nfc'.rf = stack'.rf
    <3>1. ~wanted'.refused /\ ~wanted'.overlap /\ ~Excused
      BY <2>1, <2>4 DEF Excused
    <3>2. ~ \E t \in roles : enable(t)
      <4>1. ASSUME NEW t \in roles, enable(t) PROVE FALSE
        <5>1. t = "service" /\ SleepsOn(t, "enable") /\ pc(t) = "enable"
          BY <1>0, <4>1, Asks1, OnlyServiceSteps DEF enable
        <5>2. pc("service")' = "enable"
          BY <1>0, <5>1, Slept DEF Keeping, Shape
        <5>3. QED
          BY <2>4, <5>2 DEF Initialising
      <4>2. QED
        BY <4>1
    <3>3. CASE \E t \in roles : startRfDiscovery(t)
      <4>1. PICK t \in roles : startRfDiscovery(t)
        BY <3>3
      <4>2. stack.on
        BY <2>4, <4>1 DEF startRfDiscovery, Refused
      <4>3. QED
        BY <1>0, <2>2, <3>1, <4>1, <4>2
    <3>4. CASE ~ \E t \in roles : startRfDiscovery(t)
      <4>1. stack'.rf = stack.rf /\ stack.on
        BY <1>0, <1>3, <2>4, <3>2, <3>4, RfFrame
      <4>2. ~Initialising
        BY <1>0, <1>3, <2>4, <3>1, <3>4, InitialisingEnds DEF RfInv
      <4>3. /\ \A t \in Threads : InRf(t) => Rf[pc(t)] = stack.rf
            /\ (\A t \in Threads : ~InRf(t)) => nfc.rf = stack.rf
        BY <3>1, <4>1, <4>2 DEF RfInv
      <4>4. \A t \in Threads : InRf(t)' => InRf(t) /\ pc(t)' = pc(t)
        BY <1>3, <3>4, InRfStep
      <4>5. CASE \E t \in roles : rfDone(t)
        <5>1. PICK t \in roles : rfDone(t)
          BY <4>5
        <5>2. pc(t) \in DOMAIN Rf /\ InRf(t) /\ nfc'.rf = Rf[pc(t)]
          BY <1>0, <5>1 DEF rfDone, Wakes, InRf, pc, Shape, NoFlags
        <5>3. nfc'.rf = stack'.rf
          BY <1>0, <4>1, <4>3, <5>2
        <5>4. QED
          BY <4>1, <4>3, <4>4, <5>3
      <4>6. CASE ~ \E t \in roles : rfDone(t)
        <5>1. nfc'.rf = nfc.rf
          BY <1>0, <1>3, <4>6, RfFrame
        <5>2. \A t \in Threads : InRf(t) => InRf(t)'
          BY <1>3, <4>6, InRfStep
        <5>3. QED
          BY <4>1, <4>3, <4>4, <5>1, <5>2
      <4>7. QED
        BY <4>5, <4>6
    <3>5. QED
      BY <3>3, <3>4
  <2>5. QED
    BY <1>1, <2>3, <2>4 DEF RfInv, InRf, pc
<1>4. QED
  BY <1>2, <1>3

LEMMA RfInit == Init => RfInv
<1> SUFFICES ASSUME Init PROVE RfInv
  OBVIOUS
<1>1. ServiceInv
  BY RoutesInit DEF RoutesInv
<1>2. ~stack.on /\ \A t \in Threads : ~InRf(t)
  BY DEF Init, StackOff, InRf, Idle, Rf
<1>3. QED
  BY <1>1, <1>2 DEF RfInv

LEMMA RfStutter == RfInv /\ UNCHANGED vars => RfInv'
BY DEF RfInv, ServiceInv, Initialising, Excused, vars, Left, rest, Todo, Working, pc, Asleep, InRf

\* sRfEnabled says between calls what the RF is, unless a request was refused or
\* two threads were inside startRfDiscovery at once.
THEOREM RfCorrect == Spec => []RfFlagTrue
<1>1. Init => Ground /\ RfInv
  BY GroundInit, RfInit
<1>2. Ground /\ RfInv /\ [Next]_vars => (Ground /\ RfInv)'
  BY GroundStep, GroundStutter, RfStep, RfStutter
<1>3. Ground /\ RfInv => RfFlagTrue
  <2> SUFFICES ASSUME Ground, RfInv, stack.on, Quiet, ~Excused PROVE nfc.rf = stack.rf
    BY DEF RfFlagTrue
  <2>1. \A t \in Threads : pc(t) = "idle" /\ ~InRf(t)
    BY DEF Quiet, Ground, Base, Home, HomeIn, InRf, Rf, pc
  <2>2. thread["service"].call.op = None
    BY ThreadsAssumption DEF Quiet, Working
  <2>3. ~Initialising
    BY <2>1, <2>2, ThreadsAssumption, NoneAssumption DEF Initialising
  <2>4. QED
    BY <2>1, <2>3 DEF RfInv
<1>4. QED
  BY <1>1, <1>2, <1>3, PTL DEF Spec

-----------------------------------------------------------------------------

-----------------------------------------------------------------------------
(* A reader over SWP ends                                                  *)

Mapped == {r \in asked : r.ev = "map"}
\* The answer to come is the one the reader's thread sleeps on; of the request
\* to give the controller back, which the stack has carried out by then.
MapSleeps ==
    Mapped # {} => /\ pc("swp") \in {"discMap", "dhMap"} /\ thread["swp"].st = "sleeps"
                   /\ pc("swp") = "dhMap" => ~stack.reader
                   /\ \A r, s \in Mapped : r = s

ReaderInv ==
    /\ Final("swp", "notifyRequested") /\ Final("swp", "notifyStop")
    /\ "discMap" \in Todo("swp") => /\ "notifyRequested" \in Todo("swp")
                                    /\ Todo("swp") \cap {"dhMap", "notifyStop"} = {}
    /\ MapSleeps
    /\ pc("swp") = "dhMap" /\ thread["swp"].st = "woken" => ~stack.reader
    /\ ~wanted.refused =>
          /\ stack.reader => swp.start \/ swp.stop \/ {"notifyRequested", "dhMap"} \cap Todo("swp") # {}
          /\ "notifyStop" \in Todo("swp") => "dhMap" \in Todo("swp") \/ ~stack.reader

(* Where a plan has step l last, a call that begins with it does.            *)
LEMMA LastInTail ==
    ASSUME NEW p, IsSeq(p), p # <<>>, NEW l, \A i \in DOMAIN p : p[i] = l => i = Len(p)
    PROVE  \A i \in DOMAIN Tail(p) : Tail(p)[i] = l => i = Len(Tail(p))
<1>1. PICK n \in Nat \ {0} : n = Len(p)
  BY HeadTailElems
<1>2. /\ Len(Tail(p)) = n - 1 /\ DOMAIN Tail(p) = 1..(n - 1) /\ DOMAIN p = 1..n
      /\ \A i \in 1..(n - 1) : Tail(p)[i] = p[i + 1]
  BY <1>1, HeadTailElems, LenProperties DEF IsSeq
<1>3. ASSUME NEW i \in 1..(n - 1), Tail(p)[i] = l PROVE i = n - 1
  <2>1. i + 1 \in 1..n /\ p[i + 1] = l
    BY <1>1, <1>2, <1>3
  <2>2. QED
    BY <1>1, <1>2, <2>1
<1>4. QED
  BY <1>2, <1>3

LEMMA LastAppended ==
    ASSUME NEW p, IsSeq(p), NEW l, l \notin Elems(p)
    PROVE  \A i \in DOMAIN (p \o <<l>>) : (p \o <<l>>)[i] = l => i = Len(p \o <<l>>)
<1>1. PICK S : p \in Seq(S) /\ <<l>> \in Seq(S)
  <2>1. PICK S : p \in Seq(S)
    BY DEF IsSeq
  <2>2. p \in Seq(S \cup {l}) /\ <<l>> \in Seq(S \cup {l})
    BY <2>1, SeqWider
  <2>3. QED
    BY <2>2
<1> DEFINE q == <<l>>
<1>2. Len(q) = 1 /\ q \in Seq(S)
  BY <1>1
<1> HIDE DEF q
<1>3. PICK n \in Nat : n = Len(p)
  BY <1>1, LenProperties
<1>4. /\ Len(p \o q) = n + 1 /\ DOMAIN (p \o q) = 1..(n + 1) /\ DOMAIN p = 1..n
      /\ \A i \in 1..(n + 1) : i <= n => (p \o q)[i] = p[i]
  BY <1>1, <1>2, <1>3, ConcatProperties, LenProperties
<1>5. ASSUME NEW i \in 1..(n + 1), (p \o q)[i] = l PROVE i = n + 1
  <2>1. i <= n => p[i] = l /\ i \in DOMAIN p
    BY <1>3, <1>4, <1>5
  <2>2. QED
    BY <1>3, <2>1 DEF Elems
<1>6. QED
  BY <1>3, <1>4, <1>5 DEF q

LEMMA ReaderLast ==
    ASSUME NEW plan \in {ReaderRequested, ReaderStop}, NEW l \in {"notifyRequested", "notifyStop"}
    PROVE  Head(plan) # l /\ \A i \in DOMAIN Tail(plan) : Tail(plan)[i] = l => i = Len(Tail(plan))
<1> DEFINE p == ReaderRequested
           a == <<"rfOff", "dhMap", "uicc", "p2p", "stopPolling">>
           b == startStopPolling(TRUE)
           c == <<"notifyStop">>
<1>1. /\ Len(p) = 10 /\ DOMAIN p = 1..10 /\ p[1] = "rfOffIfOn" /\ Head(p) = p[1]
      /\ \A i \in 1..10 : p[i] = l => i = 10
  BY DEF ReaderRequested
<1>2. /\ IsSeq(a) /\ Elems(a) = {"rfOff", "dhMap", "uicc", "p2p", "stopPolling"} /\ a # <<>>
      /\ Head(a) = "rfOff"
      /\ IsSeq(b) /\ Elems(b) = {"rfOff", "startPolling", "rfOn"}
      /\ ReaderStop = (a \o b) \o c
  BY Plan5, Plan3 DEF startStopPolling, ReaderStop
<1> HIDE DEF a, b, p
<1>3. IsSeq(a \o b) /\ Elems(a \o b) = Elems(a) \cup Elems(b)
  BY <1>2, ConcatElems
<1>4. l \notin Elems(a \o b)
  BY <1>2, <1>3
<1>5. "notifyStop" \notin Elems(a \o b)
  BY <1>2, <1>3
<1>6. \A i \in DOMAIN ReaderStop : ReaderStop[i] = "notifyStop" => i = Len(ReaderStop)
  BY <1>2, <1>3, <1>5, LastAppended
<1>7. l # "notifyStop" => l \notin Elems(ReaderStop)
  BY ReaderPlans
<1>8. \A i \in DOMAIN ReaderStop : ReaderStop[i] = l => i = Len(ReaderStop)
  BY <1>6, <1>7 DEF Elems
<1>9. Head(ReaderStop) = "rfOff"
  <2>1. IsSeq(c) /\ a \o b # <<>> /\ Head(a \o b) = Head(a)
    BY <1>2, Plan1, Plan3, HeadConcat
  <2> HIDE DEF c
  <2>2. Head((a \o b) \o c) = Head(a \o b)
    BY <1>3, <2>1, HeadConcat
  <2>3. QED
    BY <1>2, <2>1, <2>2
<1>10. QED
  BY <1>1, <1>8, <1>9, LastInTail, ReaderPlans DEF p

(* What a step does to the plan of the reader's thread.                      *)
LEMMA ReaderMoves ==
    ASSUME Base, Next, ~NFA_DM_NFCC_TRANSPORT_ERR_EVT
    PROVE  \/ Undisturbed("swp")
           \/ /\ "swp" \in roles /\ calling("swp") /\ Adding("swp")
              /\ pc("swp") \in {"discMap", "dhMap"} => requestDone("swp")
           \/ /\ "swp" \in roles /\ calling("swp") /\ pc("swp") \in {"vendor", "unblock"}
              /\ Todo("swp")' = {pc("swp")'} \cup Left("swp") /\ rest("swp")' = rest("swp")
              /\ pc("swp")' \in {"send", "finalize"} /\ Working("swp")
           \/ /\ eeReaderEvent \/ startStopSwpReaderProc
              /\ \E plan \in {ReaderRequested, ReaderStop} :
                    /\ ~Working("swp") /\ Todo("swp")' = Elems(plan) /\ pc("swp")' = Head(plan)
                    /\ rest("swp")' = Tail(plan) /\ thread'["swp"].st = "runs"
           \/ mapRefused /\ thread'["swp"] = Idle(NoCall)
           \/ notifyEEReaderEvent /\ Adding("swp") /\ pc("swp") \in {"notifyRequested", "notifyStop"}
<1>0. "swp" \in Threads /\ ThreadsOk
  BY ThreadsAssumption DEF Base, Shape
<1>1. CASE "swp" \in roles /\ calling("swp")
  <2>1. Keeping => Undisturbed("swp")
    BY <1>0 DEF Keeping, Undisturbed
  <2>2. Working("swp")
    BY <1>1, CallingTodo
  <2>3. ASSUME Adding("swp"), pc("swp") \in {"discMap", "dhMap"} PROVE requestDone("swp")
    <3>1. requests("swp") => \E e, what : AsksStack("swp", e, what)
      <4> SUFFICES ASSUME requests("swp") PROVE \E e, what : AsksStack("swp", e, what)
        OBVIOUS
      <4>1. PICK l \in DOMAIN EventOf : At("swp", l) /\
              \/ AsksStack("swp", EventOf[l], <<l>>)
              \/ l \notin {"discMap", "dhMap", "clearAid"}
              \/ l = "clearAid"
        BY DEF requests
      <4>2. pc("swp") = l
        BY <4>1, AtPc
      <4>3. QED
        BY <2>3, <4>1, <4>2
    <3>2. thread'["swp"].st = "runs"
      BY <1>0, <2>2, <2>3, AddingTodo
    <3>3. ~requests("swp")
      BY <1>0, <3>1, <3>2, Asks1, Slept
    <3>4. QED
      BY <1>1, <2>3, <3>3, Where DEF calling
  <2>4. QED
    BY <1>0, <1>1, <2>1, <2>3, CallingTodo
<1>2. CASE eeReaderEvent \/ startStopSwpReaderProc
  <2>1. PICK plan \in {ReaderRequested, ReaderStop} : Begin("swp", "swp", plan)
    BY <1>2 DEF eeReaderEvent, startStopSwpReaderProc
  <2>2. "swp" # None
    BY NoneAssumption
  <2>3. IsSeq(plan) /\ plan # <<>>
    BY <2>1, ReaderPlans
  <2>4. QED
    BY <1>2, <2>1, <2>2, <2>3, BeginTodo
<1>3. CASE mapRefused
  BY <1>0, <1>3 DEF mapRefused, ThreadsOk
<1>4. CASE notifyEEReaderEvent
  BY <1>4, AtPc, AddsNothing DEF notifyEEReaderEvent
<1>5. QED
  BY <1>0, <1>1, <1>2, <1>3, <1>4, StepsOf DEF StepOf

LEMMA ReaderFinal ==
    ASSUME Base, Next, NEW l \in {"notifyRequested", "notifyStop"}, Final("swp", l)
    PROVE  Final("swp", l)'
<1>0. "swp" \in Threads /\ ThreadsOk /\ (pc("swp") # "idle" => Working("swp"))
  BY ThreadsAssumption DEF Base, Shape, Home, HomeIn
<1>1. ASSUME thread'["swp"] = Idle(NoCall) PROVE Final("swp", l)'
  <2>1. pc("swp")' = "idle" /\ rest("swp")' = <<>>
    BY <1>1 DEF pc, rest, Idle, NoCall
  <2>2. QED
    BY <2>1 DEF Final
<1>2. CASE NFA_DM_NFCC_TRANSPORT_ERR_EVT
  BY <1>0, <1>1, <1>2, ResetTodo
<1>3. CASE ~NFA_DM_NFCC_TRANSPORT_ERR_EVT
  <2>1. CASE Undisturbed("swp")
    BY <2>1, UndisturbedTodo
  <2>2. CASE Adding("swp") /\ Working("swp")
    <3>1. l \notin Adds(pc("swp"))
      BY DEF Adds
    <3>2. QED
      BY <1>0, <2>2, <3>1, AddingTodo
  <2>3. CASE rest("swp")' = rest("swp") /\ pc("swp")' \in {"send", "finalize"}
    BY <2>3 DEF Final
  <2>4. ASSUME NEW plan \in {ReaderRequested, ReaderStop}, pc("swp")' = Head(plan),
               rest("swp")' = Tail(plan)
        PROVE  Final("swp", l)'
    BY <2>4, ReaderLast DEF Final
  <2>5. "swp" \in roles /\ calling("swp") => Working("swp")
    BY CallingTodo
  <2>6. pc("swp") \in {"notifyRequested", "notifyStop"} => Working("swp")
    BY <1>0
  <2>7. QED
    BY <1>1, <1>3, <2>1, <2>2, <2>3, <2>4, <2>5, <2>6, ReaderMoves
<1>4. QED
  BY <1>2, <1>3

LEMMA ReaderFrame ==
    ASSUME Shape, Next, ~NFA_DM_NFCC_TRANSPORT_ERR_EVT
    PROVE  /\ UNCHANGED swp \/ swp'.stop \/ startStopSwpReaderProc \/ notifyEEReaderEvent
           /\ \/ stack'.reader = stack.reader \/ ~stack'.reader
              \/ \E t \in roles : requests(t) /\ pc(t) = "discMap"
<1> USE DEF Shape, StackOff
<1>1. CASE jniCalls
  BY <1>1, JniFrame
<1>2. CASE extras
  BY <1>2 DEF extras, interopStop, interopLocked, interopStopped, interopTimer,
     pn544InteropStartPolling, interopStarted, eeReaderEvent, mapRefused,
     startStopSwpReaderProc, notifyEEReaderEvent,
     Nxp_SelfTest, prepares, awaits, nfaNxpSelfTestNtfTimerCb, SWPSelfTest, enableThread, features
<1>3. CASE callbacks
  <2>1. CASE NxpResponse_Cb
    BY <2>1 DEF NxpResponse_Cb, features
  <2>2. CASE nfaNxpSelfTestNtfCallback
    BY <2>2 DEF nfaNxpSelfTestNtfCallback, features
  <2>3. CASE nfaDone
    BY <2>3 DEF nfaDone, features
  <2>4. CASE NFA_DM_ENABLE_EVT
    BY <2>4 DEF NFA_DM_ENABLE_EVT, features
  <2>5. CASE NFA_DM_DISABLE_EVT
    BY <2>5 DEF NFA_DM_DISABLE_EVT, features
  <2>6. CASE NFA_ACTIVATED_EVT
    BY <2>6 DEF NFA_ACTIVATED_EVT, features
  <2>7. CASE pn544InteropIsBusy
    BY <2>7 DEF pn544InteropIsBusy, features
  <2>8. CASE NFA_DEACTIVATED_EVT
    BY <2>8 DEF NFA_DEACTIVATED_EVT, features
  <2>9. CASE NFA_EE_ACTION_EVT
    BY <2>9 DEF NFA_EE_ACTION_EVT, features
  <2>10. CASE NFA_DM_RF_FIELD_EVT
    BY <2>10 DEF NFA_DM_RF_FIELD_EVT, features
  <2>11. QED
    BY <1>3, <2>1, <2>2, <2>3, <2>4, <2>5, <2>6, <2>7, <2>8, <2>9, <2>10 DEF callbacks
<1>4. ASSUME NEW t \in roles, calling(t)
      PROVE  stack'.reader = stack.reader \/ ~stack'.reader \/ (requests(t) /\ pc(t) = "discMap")
  <2>1. CASE startRfDiscovery(t)
    BY <2>1 DEF startRfDiscovery, Refused
  <2>2. CASE polling(t)
    BY <2>2 DEF polling, Refused
  <2>3. CASE requests(t)
    <3>1. PICK l \in DOMAIN EventOf : At(t, l) /\ (stack' = Stored(l) \/ stack' = stack)
      BY <2>3 DEF requests, Refused
    <3>2. pc(t) = l
      BY <3>1, AtPc
    <3>3. l # "discMap" => stack' = stack \/ stack'.reader = stack.reader \/ ~stack'.reader
      <4>1. CASE l = "proto"
        BY <3>1, <4>1 DEF Stored
      <4>2. CASE l = "dhMap"
        BY <3>1, <4>2 DEF Stored
      <4>3. CASE l \notin {"proto", "discMap", "dhMap"}
        BY <3>1, <4>3 DEF Stored
      <4>4. QED
        BY <4>1, <4>2, <4>3
    <3>4. QED
      BY <2>3, <3>2, <3>3
  <2>4. CASE finalize(t)
    BY <2>4 DEF finalize
  <2>5. CASE enabled(t)
    BY <2>5 DEF enabled
  <2>6. CASE enable(t)
    BY <2>6 DEF enable
  <2>7. QED
    BY <1>4, <2>1, <2>2, <2>3, <2>4, <2>5, <2>6, CallingFrame
<1>5. QED
  BY <1>1, <1>2, <1>3, <1>4, CallingFrame DEF Next

(* Only the reader's thread maps discovery, and sleeps on the answer.        *)
LEMMA MapAsked ==
    ASSUME Ground, Next
    PROVE  \/ Mapped' \subseteq Mapped
           \/ /\ AsksOne("swp") /\ pc("swp") \in {"discMap", "dhMap"} /\ asked' # asked
              /\ \E r : Mapped' = Mapped \cup {r}
<1>1. CASE asked' \subseteq asked
  BY <1>1 DEF Mapped
<1>2. ASSUME NEW t \in roles, AsksOne(t)
      PROVE  \/ Mapped' \subseteq Mapped
             \/ /\ t = "swp" /\ pc("swp") \in {"discMap", "dhMap"}
                /\ \E r : Mapped' = Mapped \cup {r}
  <2>1. PICK what, n : asked' = asked \cup {Request(t, EventAt(pc(t)), what, n)}
    BY <1>2 DEF AsksOne
  <2> DEFINE r == Request(t, EventAt(pc(t)), what, n)
  <2>2. r.ev = EventAt(pc(t))
    BY DEF Request
  <2>3. EventAt(pc(t)) = "map" => pc(t) \in {"discMap", "dhMap"}
    BY DEF EventAt, Rf, Polls, EventOf
  <2>4. pc(t) \in {"discMap", "dhMap"} => t = "swp"
    BY DEF Ground, Base, Home, HomeIn, HomeOf, Todo, OnlyReader
  <2> HIDE DEF r
  <2>5. asked' = asked \cup {r}
    BY <2>1 DEF r
  <2>6. CASE r.ev = "map"
    <3>1. Mapped' = Mapped \cup {r}
      BY <2>5, <2>6 DEF Mapped
    <3>2. QED
      BY <2>2, <2>3, <2>4, <2>6, <3>1
  <2>7. CASE r.ev # "map"
    BY <2>5, <2>7 DEF Mapped
  <2>8. QED
    BY <2>6, <2>7
<1>3. QED
  BY <1>1, <1>2, AskedStep DEF Ground

(* A request to map discovery is never refused by the stack at once.         *)
LEMMA MapRequest ==
    ASSUME Ground, NEW t \in roles, requests(t), pc(t) \in {"discMap", "dhMap"}
    PROVE  /\ t = "swp" /\ Keeping /\ thread[t].st = "runs" /\ thread'[t].st = "sleeps"
           /\ UNCHANGED <<swp, wanted>>
           /\ stack.on \/ asked' = asked
           /\ stack.on /\ pc(t) = "dhMap" => ~stack'.reader
<1>1. Shape /\ t \in Threads /\ ThreadsOk /\ t = "swp"
  BY DEF Ground, Base, Home, HomeIn, HomeOf, Todo, OnlyReader, Shape
<1>2. PICK l \in {"discMap", "dhMap"} :
         /\ At(t, l) /\ AsksStack(t, EventOf[l], <<l>>) /\ UNCHANGED wanted
         /\ stack' = IF stack.on THEN Stored(l) ELSE stack
  <2>1. PICK l \in DOMAIN EventOf : At(t, l) /\
          \/ /\ AsksStack(t, EventOf[l], <<l>>)
             /\ stack' = IF stack.on THEN Stored(l) ELSE stack
             /\ UNCHANGED wanted
          \/ l \notin {"discMap", "dhMap", "clearAid"}
          \/ l = "clearAid"
    BY DEF requests
  <2>2. l \in {"discMap", "dhMap"}
    BY <2>1, AtPc
  <2>3. QED
    BY <2>1, <2>2
<1>3. pc(t) = l /\ thread[t].st = "runs"
  BY <1>2 DEF At, pc
<1>4. Keeping /\ thread'[t].st = "sleeps"
  BY <1>1, <1>2, Asks1, Slept
<1>5. stack.on \/ asked' = asked
  BY <1>2 DEF AsksStack
<1>6. stack.on /\ l = "dhMap" => ~stack'.reader
  BY <1>1, <1>2 DEF Stored, Shape, StackOff
<1>7. UNCHANGED swp
  BY DEF requests, features
<1>8. QED
  BY <1>1, <1>2, <1>3, <1>4, <1>5, <1>6, <1>7

LEMMA MapStep ==
    ASSUME Ground, ReaderInv, Next
    PROVE  /\ MapSleeps'
           /\ pc("swp")' = "dhMap" /\ thread'["swp"].st = "woken" => ~stack'.reader
<1> DEFINE u == "swp"
<1>0. u \in Threads /\ ThreadsOk /\ Base /\ Shape /\ roles \subseteq Threads
      /\ (pc(u) # "idle" => Working(u))
  BY ThreadsAssumption DEF Ground, Base, Shape, Home, HomeIn
<1>1. CASE NFA_DM_NFCC_TRANSPORT_ERR_EVT
  <2>1. asked' = {} /\ thread'[u].st = "runs"
    BY <1>0, <1>1 DEF NFA_DM_NFCC_TRANSPORT_ERR_EVT, Idle
  <2>2. QED
    BY <2>1 DEF MapSleeps, Mapped
<1> SUFFICES ASSUME ~NFA_DM_NFCC_TRANSPORT_ERR_EVT
             PROVE  /\ MapSleeps'
                    /\ pc("swp")' = "dhMap" /\ thread'["swp"].st = "woken" => ~stack'.reader
  BY <1>1
<1>2. \/ stack'.reader = stack.reader \/ ~stack'.reader
      \/ /\ requests(u) /\ pc(u) = "discMap" /\ pc(u)' = pc(u)
         /\ thread[u].st = "runs" /\ thread'[u].st = "sleeps"
  BY <1>0, ReaderFrame, MapRequest DEF Keeping
<1>3. FallsAsleep(u) \/ Mapped' \subseteq Mapped
  BY MapAsked DEF AsksOne
<1>4. CASE thread'[u] = thread[u]
  <2>1. Mapped' \subseteq Mapped /\ pc(u)' = pc(u)
    BY <1>3, <1>4 DEF FallsAsleep, pc
  <2>2. stack'.reader => stack.reader
    BY <1>2, <1>4
  <2>3. QED
    BY <1>4, <2>1, <2>2 DEF ReaderInv, MapSleeps
<1>5. CASE FallsAsleep(u)
  <2>1. Mapped = {} /\ thread'[u].st = "sleeps" /\ pc(u)' = pc(u) /\ thread[u].st = "runs"
    BY <1>5 DEF FallsAsleep, Undisturbed, ReaderInv, MapSleeps
  <2>2. CASE Mapped' \subseteq Mapped
    BY <2>1, <2>2 DEF MapSleeps
  <2>3. CASE ~(Mapped' \subseteq Mapped)
    <3>1. /\ AsksOne(u) /\ pc(u) \in {"discMap", "dhMap"}
          /\ \E r : Mapped' = Mapped \cup {r}
      BY <2>3, MapAsked
    <3>2. requests(u) /\ u \in roles
      <4>1. ~requestDone(u)
        BY <2>1 DEF requestDone, Wakes
      <4>2. QED
        BY <3>1, <4>1, Where DEF AsksOne, calling
    <3>3. asked' # asked
      BY <2>3 DEF Mapped
    <3>4. pc(u) = "dhMap" => ~stack'.reader
      BY <3>1, <3>2, <3>3, MapRequest
    <3>5. QED
      BY <2>1, <3>1, <3>4 DEF MapSleeps
  <2>4. QED
    BY <2>2, <2>3
<1>6. CASE Roused(u) /\ Rousing(thread[u].ev)
  <2>1. /\ Mapped' \subseteq Mapped /\ pc(u)' = pc(u) /\ thread'[u].st = "woken"
        /\ thread[u].st = "sleeps" /\ thread[u].ev = EventAt(pc(u))
    BY <1>0, <1>3, <1>6 DEF Roused, FallsAsleep, Undisturbed, Ground, Sleeping, Asleep
  <2>2. stack'.reader => stack.reader
    BY <1>2, <2>1
  <2>3. CASE pc(u) \in {"discMap", "dhMap"}
    <3>1. thread[u].ev = "map"
      BY <2>1, <2>3 DEF EventAt, Rf, Polls, EventOf
    <3>2. PICK r \in asked : r.ev = "map" /\ asked' = asked \ {r}
      BY <1>6, <3>1 DEF Rousing
    <3>3. r \in Mapped /\ Mapped' = Mapped \ {r}
      BY <3>2 DEF Mapped
    <3>4. Mapped' = {} /\ (pc(u) = "dhMap" => ~stack.reader)
      BY <3>3 DEF ReaderInv, MapSleeps
    <3>5. QED
      BY <2>1, <2>2, <3>4 DEF MapSleeps
  <2>4. CASE pc(u) \notin {"discMap", "dhMap"}
    BY <2>1, <2>4 DEF ReaderInv, MapSleeps
  <2>5. QED
    BY <2>3, <2>4
<1>7. CASE StepOf(u) /\ thread'[u].st = "runs"
  <2>1. thread[u].st # "sleeps" \/ ~Working(u)
    <3>1. mapRefused \/ notifyEEReaderEvent => thread[u].st = "runs"
      BY DEF mapRefused, notifyEEReaderEvent, At
    <3>2. eeReaderEvent \/ startStopSwpReaderProc => ~Working(u)
      BY DEF eeReaderEvent, startStopSwpReaderProc, Begin
    <3>3. QED
      BY <1>7, <3>1, <3>2, CallingAwake DEF StepOf
  <2>2. Mapped = {}
    BY <1>0, <2>1 DEF ReaderInv, MapSleeps
  <2>3. Mapped' = {}
    BY <1>3, <1>7, <2>2 DEF FallsAsleep
  <2>4. QED
    BY <1>7, <2>3 DEF MapSleeps
<1>8. QED
  BY <1>0, <1>4, <1>5, <1>6, <1>7, Fate DEF Ground

LEMMA ReaderStep == ASSUME Ground, ReaderInv, Next PROVE ReaderInv'
<1> DEFINE u == "swp"
           T == Todo(u)
<1>0. u \in Threads /\ ThreadsOk /\ Base /\ Shape /\ (pc(u) # "idle" => Working(u))
      /\ DOMAIN swp = {"start", "stop"}
  BY ThreadsAssumption DEF Ground, Base, Shape, Home, HomeIn, NoTimers
<1>1. Final(u, "notifyRequested")' /\ Final(u, "notifyStop")'
  BY <1>0, ReaderFinal DEF ReaderInv
<1>2. MapSleeps' /\ (pc(u)' = "dhMap" /\ thread'[u].st = "woken" => ~stack'.reader)
  BY MapStep
<1> DEFINE Mapping(S) == "discMap" \in S => "notifyRequested" \in S /\ S \cap {"dhMap", "notifyStop"} = {}
           Ending(S, k, on) ==
              /\ on => k.start \/ k.stop \/ {"notifyRequested", "dhMap"} \cap S # {}
              /\ "notifyStop" \in S => "dhMap" \in S \/ ~on
<1>3. SUFFICES Mapping(T') /\ (~wanted'.refused => Ending(T', swp', stack'.reader))
  BY <1>1, <1>2 DEF ReaderInv, Todo, pc
<1>4. Mapping(T) /\ (~wanted.refused => Ending(T, swp, stack.reader))
  BY DEF ReaderInv
<1>5. CASE NFA_DM_NFCC_TRANSPORT_ERR_EVT
  <2>1. T' = {} /\ ~stack'.reader
    BY <1>0, <1>5, ResetTodo DEF NFA_DM_NFCC_TRANSPORT_ERR_EVT, StackOff
  <2>2. QED
    BY <2>1
<1>6. CASE startStopSwpReaderProc
  <2>1. Begin(u, "swp", ReaderStop)
    BY <1>6 DEF startStopSwpReaderProc
  <2>2. T' = Elems(ReaderStop)
    BY <1>0, <2>1, ReaderPlans, BeginTodo, NoneAssumption
  <2>3. "dhMap" \in T' /\ "discMap" \notin T'
    BY <2>2, ReaderPlans
  <2>4. QED
    BY <2>3
<1>7. CASE notifyEEReaderEvent
  <2>1. PICK l \in {"notifyRequested", "notifyStop"} :
           /\ At(u, l) /\ Advance(u)
           /\ l = "notifyRequested" => swp' = [swp EXCEPT !.start = TRUE]
    BY <1>7 DEF notifyEEReaderEvent
  <2>2. T' = Left(u) /\ pc(u) = l /\ T = {l} \cup Left(u)
    BY <1>0, <2>1, AdvanceTodo
  <2>3. Left(u) = {}
    BY <2>2, Plan0 DEF ReaderInv, Final, Left
  <2>4. UNCHANGED <<stack, wanted>>
    BY <1>7 DEF notifyEEReaderEvent
  <2>5. l = "notifyRequested" => swp'.start
    BY <1>0, <2>1
  <2>6. l = "notifyStop" /\ ~wanted.refused => ~stack.reader
    BY <1>4, <2>2, <2>3
  <2>7. QED
    BY <2>1, <2>2, <2>3, <2>4, <2>5, <2>6
<1>8. CASE ~(NFA_DM_NFCC_TRANSPORT_ERR_EVT \/ startStopSwpReaderProc \/ notifyEEReaderEvent)
  <2>1. UNCHANGED swp \/ swp'.stop
    BY <1>0, <1>8, ReaderFrame
  <2>2. (stack'.reader => stack.reader) \/ (T' = T /\ "discMap" \in T)
    <3>1. \A t \in roles : requests(t) /\ pc(t) = "discMap" => t = u /\ Keeping
      BY MapRequest
    <3>2. Keeping => T' = T
      BY <1>0, KeepingTodo
    <3>3. pc(u) = "discMap" => "discMap" \in T
      BY <1>0 DEF Todo
    <3>4. QED
      BY <1>0, <1>8, <3>1, <3>2, <3>3, ReaderFrame
  <2>3. wanted.refused => wanted'.refused
    BY <1>0, <1>8, RfFrame
  <2> HIDE DEF T
  <2>4. CASE Undisturbed(u)
    <3>1. T' = T
      BY <2>4, UndisturbedTodo DEF T
    <3>2. QED
      BY <1>4, <2>1, <2>2, <2>3, <3>1
  <2>5. ASSUME u \in roles, calling(u), Working(u), NEW A, A \cap OnlyReader = {},
               T' \subseteq A \cup Left(u), Left(u) \subseteq T',
               pc(u) \in {"discMap", "dhMap"} => requestDone(u)
        PROVE  Mapping(T') /\ (~wanted'.refused => Ending(T', swp', stack'.reader))
    <3>1. T = {pc(u)} \cup Left(u)
      BY <2>5 DEF T, Todo
    <3>2. pc(u) \notin {"notifyRequested", "notifyStop"}
      BY <2>5, NotAtCalling
    <3>3. pc(u) = "dhMap" => ~stack.reader
      BY <2>5 DEF requestDone, Wakes, ReaderInv
    <3>4. /\ "notifyRequested" \in T' <=> "notifyRequested" \in T
          /\ "notifyStop" \in T' <=> "notifyStop" \in T
          /\ "discMap" \in T' => "discMap" \in T
          /\ "dhMap" \in T' => "dhMap" \in T
          /\ "dhMap" \in T => "dhMap" \in T' \/ pc(u) = "dhMap"
      BY <2>5, <3>1, <3>2 DEF OnlyReader
    <3>5. Mapping(T')
      BY <1>4, <3>4
    <3>6. ~wanted'.refused => Ending(T', swp', stack'.reader)
      BY <1>4, <2>1, <2>2, <2>3, <3>3, <3>4
    <3>7. QED
      BY <3>5, <3>6
  <2>6. CASE /\ u \in roles /\ calling(u) /\ Adding(u)
             /\ pc(u) \in {"discMap", "dhMap"} => requestDone(u)
    <3>1. Working(u)
      BY <1>0, <2>6, CallingTodo
    <3>2. T' \subseteq Adds(pc(u)) \cup Left(u) /\ Left(u) \subseteq T'
      BY <1>0, <2>6, <3>1, AddingTodo DEF T
    <3>3. Adds(pc(u)) \cap OnlyReader = {}
      BY DEF Adds, OnlyReader
    <3>4. QED
      BY <2>5, <2>6, <3>1, <3>2, <3>3
  <2>7. CASE /\ u \in roles /\ calling(u) /\ Working(u) /\ pc(u) \in {"vendor", "unblock"}
             /\ T' = {pc(u)'} \cup Left(u) /\ pc(u)' \in {"send", "finalize"}
    <3>1. {pc(u)'} \cap OnlyReader = {} /\ pc(u) \notin {"discMap", "dhMap"}
      BY <2>7 DEF OnlyReader
    <3>2. QED
      BY <2>5, <2>7, <3>1
  <2>8. ASSUME NEW plan \in {ReaderRequested, ReaderStop}, ~Working(u), T' = Elems(plan),
               eeReaderEvent
        PROVE  Mapping(T') /\ (~wanted'.refused => Ending(T', swp', stack'.reader))
    <3>1. T = {} /\ UNCHANGED swp
      BY <2>8 DEF T, Todo, eeReaderEvent, features
    <3>2. CASE plan = ReaderRequested
      <4>1. "notifyRequested" \in T' /\ "dhMap" \notin T' /\ "notifyStop" \notin T'
        BY <2>8, <3>2, ReaderPlans
      <4>2. QED
        BY <4>1
    <3>3. CASE plan = ReaderStop
      <4>1. "dhMap" \in T' /\ "discMap" \notin T'
        BY <2>8, <3>3, ReaderPlans
      <4>2. QED
        BY <4>1
    <3>4. QED
      BY <2>8, <3>2, <3>3
  <2>9. CASE mapRefused /\ thread'[u] = Idle(NoCall)
    <3>1. T' = {}
      BY <2>9, IdleOk DEF T, Todo, Working, Idle, NoCall
    <3>2. wanted'.refused
      BY <1>0, <2>9 DEF mapRefused, Shape, NothingWanted
    <3>3. QED
      BY <3>1, <3>2
  <2>10. QED
    BY <1>0, <1>8, <2>4, <2>6, <2>7, <2>8, <2>9, ReaderMoves DEF T
<1>9. QED
  BY <1>5, <1>6, <1>7, <1>8

LEMMA TemporaryInit == Init => BusyInv /\ ReaderInv
<1> SUFFICES ASSUME Init PROVE BusyInv /\ ReaderInv
  OBVIOUS
<1>1. "swp" \in Threads /\ thread["swp"] = Idle(NoCall)
  BY ThreadsAssumption DEF Init
<1>2. pc("swp") = "idle" /\ rest("swp") = <<>> /\ ~Working("swp") /\ thread["swp"].st = "runs"
  BY <1>1 DEF pc, rest, Idle, NoCall, Working
<1>3. Todo("swp") = {} /\ asked = {} /\ ~stack.reader /\ ~interop.busy
  BY <1>2 DEF Todo, Init, StackOff, NoInterop
<1>4. Final("swp", "notifyRequested") /\ Final("swp", "notifyStop")
  BY <1>2 DEF Final
<1>5. QED
  BY <1>2, <1>3, <1>4 DEF BusyInv, ReaderInv, MapSleeps, Mapped

LEMMA TemporaryStutter == BusyInv /\ ReaderInv /\ UNCHANGED vars => BusyInv' /\ ReaderInv'
BY DEF BusyInv, ReaderInv, MapSleeps, Mapped, Final, Todo, Left, rest, Working, pc, vars

\* gIsBusy and the reading for the secure element end: what ends them is set, or
\* a thread is on its way to do so.
THEOREM TemporaryCorrect == Spec => []TemporaryStatesEnd
<1>1. Init => Ground /\ BusyInv /\ ReaderInv
  BY GroundInit, TemporaryInit
<1>2. Ground /\ BusyInv /\ ReaderInv /\ [Next]_vars => (Ground /\ BusyInv /\ ReaderInv)'
  <2>1. Ground /\ BusyInv /\ ReaderInv /\ Next => (Ground /\ BusyInv /\ ReaderInv)'
    BY GroundStep, BusyStep, ReaderStep DEF Ground
  <2>2. QED
    BY <2>1, GroundStutter, TemporaryStutter
<1>3. Ground /\ BusyInv /\ ReaderInv => TemporaryStatesEnd
  BY DEF TemporaryStatesEnd, BusyEnds, ReaderModeEnds, BusyInv, ReaderInv, Todo
<1>4. QED
  BY <1>1, <1>2, <1>3, PTL DEF Spec

-----------------------------------------------------------------------------
(* Discovery is what the service asked for last                            *)

Ahead(t) == Todo(t) \cap Discovering

\* A call that changes discovery does that last; deinitialize does not; and
\* enableThread still has to read last_request or to forget it.
DiscoveryPlans ==
    /\ Ahead("service") \cap {"enableDiscovery", "disableDiscovery"} # {} => Left("service") = {}
    /\ "unblock" \in Todo("service") => Ahead("service") = {}
    /\ Final("payment", "forget")
    /\ "lastRequest" \in Todo("payment") => rest("payment") = <<>>
    /\ Working("payment") => {"lastRequest", "forget"} \cap Todo("payment") # {}

(* Only the steps of Discovering, and enableThread, change what is ahead.    *)
LEMMA AheadStays ==
    ASSUME Base, NEW u \in {"service", "payment"}, u \in roles, calling(u), pc(u) \notin Discovering
    PROVE  Ahead(u)' = Ahead(u)
<1>1. u \in Threads /\ ThreadsOk /\ pc(u) # "lastRequest"
  BY ThreadsAssumption, NotAtCalling DEF Base, Shape
<1>2. Adds(pc(u)) \cap Discovering = {}
  BY <1>1 DEF Adds, Discovering, Enabling, Stopping
<1>3. CASE Keeping
  BY <1>1, <1>3, KeepingTodo DEF Ahead
<1>4. CASE Adding(u) /\ Working(u)
  <2>1. Todo(u)' \subseteq Adds(pc(u)) \cup Left(u) /\ Left(u) \subseteq Todo(u)'
    BY <1>1, <1>4, AddingTodo
  <2>2. Todo(u) = {pc(u)} \cup Left(u)
    BY <1>4 DEF Todo
  <2>3. QED
    BY <1>2, <2>1, <2>2 DEF Ahead
<1>5. CASE Todo(u)' = {pc(u)'} \cup Left(u) /\ pc(u)' \in {"send", "finalize"} /\ Working(u)
  <2>1. Todo(u) = {pc(u)} \cup Left(u)
    BY <1>5 DEF Todo
  <2>2. QED
    BY <1>5, <2>1 DEF Ahead, Discovering, Enabling, Stopping
<1>6. QED
  BY <1>3, <1>4, <1>5, CallingTodo

(* Within a request that was put off, enableThread comes to its end.         *)
LEMMA PaymentCalls ==
    ASSUME Base, DiscoveryPlans, "payment" \in roles, calling("payment")
    PROVE  /\ Working("payment") /\ pc("payment") \notin {"lastRequest", "forget"}
           /\ Working("payment")' /\ "forget" \in Todo("payment")'
           /\ "lastRequest" \notin Todo("payment")' /\ pc("payment")' # "lastRequest"
           /\ Final("payment", "forget")'
<1> DEFINE u == "payment"
<1>1. /\ u \in Threads /\ ThreadsOk /\ Working(u) /\ pc(u) \notin {"lastRequest", "forget", "idle"}
  BY ThreadsAssumption, NotAtCalling, CallingTodo DEF Base, Shape
<1>2. "lastRequest" \notin Left(u) /\ "forget" \in Left(u)
  <2>1. rest(u) = <<>> => Left(u) = {}
    BY Plan0 DEF Left
  <2>2. QED
    BY <1>1, <2>1 DEF DiscoveryPlans, Todo
<1>3. "forget" \in Todo(u)'
  BY <1>1, <1>2, CallingLeaves DEF Todo
<1>4. Working(u)'
  BY <1>3 DEF Todo
<1>5. "lastRequest" \notin Adds(pc(u)) /\ "forget" \notin Adds(pc(u))
  BY <1>1 DEF Adds
<1>6. "lastRequest" \notin Todo(u)' /\ Final(u, "forget")'
  <2>1. CASE Keeping
    BY <1>1, <1>2, <2>1, KeepingTodo DEF DiscoveryPlans, Todo
  <2>2. CASE Adding(u)
    BY <1>1, <1>2, <1>5, <2>2, AddingTodo DEF DiscoveryPlans
  <2>3. CASE Todo(u)' = {pc(u)'} \cup Left(u) /\ pc(u)' \in {"send", "finalize"} /\ rest(u)' = rest(u)
    BY <1>2, <2>3 DEF DiscoveryPlans, Final
  <2>4. QED
    BY <2>1, <2>2, <2>3, CallingTodo
<1>7. pc(u)' # "lastRequest"
  BY <1>4, <1>6 DEF Todo
<1>8. QED
  BY <1>1, <1>3, <1>4, <1>6, <1>7

(* What enableThread does with the request that it reads.                    *)
LEMMA RequestTaken ==
    ASSUME Base, At("payment", "lastRequest"), rest("payment") = <<>>, NEW c, IsSeq(c),
           "forget" \notin Elems(c),
           Then("payment", <<"letThrough">> \o c \o <<"forget">>)
    PROVE  /\ Todo("payment")' = {"letThrough", "forget"} \cup Elems(c) /\ Working("payment")'
           /\ pc("payment")' = "letThrough" /\ Final("payment", "forget")'
           /\ Others("payment")
<1> DEFINE u == "payment"
           a == <<"letThrough">>
           p == a \o c
           plan == p \o <<"forget">>
<1>1. u \in Threads /\ ThreadsOk /\ pc(u) = "lastRequest" /\ Working(u)
  BY ThreadsAssumption, AtPc DEF Base, Shape, Home, HomeIn
<1>2. IsSeq(a) /\ Elems(a) = {"letThrough"} /\ a # <<>> /\ Head(a) = "letThrough"
      /\ IsSeq(<<"forget">>) /\ Elems(<<"forget">>) = {"forget"}
  BY Plan1
<1> HIDE DEF a
<1>3. IsSeq(p) /\ Elems(p) = {"letThrough"} \cup Elems(c) /\ p # <<>> /\ Head(p) = "letThrough"
  BY <1>2, ConcatElems, HeadConcat
<1>4. Then(u, plan)
  BY DEF a
<1> HIDE DEF p
<1>5. /\ IsSeq(plan) /\ Elems(plan) = {"letThrough", "forget"} \cup Elems(c)
      /\ plan # <<>> /\ Head(plan) = "letThrough"
  BY <1>2, <1>3, ConcatElems, HeadConcat
<1>6. \A i \in DOMAIN plan : plan[i] = "forget" => i = Len(plan)
  BY <1>3, LastAppended
<1> HIDE DEF plan
<1>7. plan \o rest(u) = plan
  BY <1>5, ConcatEmptySeq DEF IsSeq
<1>8. \A i \in DOMAIN Tail(plan) : Tail(plan)[i] = "forget" => i = Len(Tail(plan))
  BY <1>5, <1>6, LastInTail
<1>9. /\ Todo(u)' = Elems(plan) \cup Left(u) /\ Others(u) /\ Working(u)'
      /\ pc(u)' = "letThrough" /\ rest(u)' = Tail(plan)
  BY <1>1, <1>4, <1>5, <1>7, Thens
<1>10. Left(u) = {}
  BY Plan0 DEF Left
<1>11. Final(u, "forget")'
  BY <1>8, <1>9 DEF Final
<1>12. QED
  BY <1>5, <1>9, <1>10, <1>11

LEMMA ThreadSteps ==
    ASSUME Base, DiscoveryPlans, enableThread
    PROVE  /\ Others("payment") /\ Working("payment") /\ nfc' = nfc /\ wanted' = wanted
           /\ \/ /\ pc("payment") = "lastRequest" /\ payment' = payment /\ Todo("payment") = {"lastRequest"}
                 /\ Working("payment")' /\ pc("payment")' = "letThrough" /\ Final("payment", "forget")'
                 /\ payment.last = None => Todo("payment")' = {"letThrough", "forget"}
                 /\ payment.last = "enable" =>
                       Todo("payment")' = {"letThrough", "forget", "enableDiscovery"}
                 /\ payment.last = "disable" =>
                       Todo("payment")' = {"letThrough", "forget", "disableDiscovery"}
              \/ /\ pc("payment") = "letThrough" /\ payment' = [payment EXCEPT !.progress = FALSE]
                 /\ Working("payment")' /\ pc("payment")' # "lastRequest" /\ Final("payment", "forget")'
                 /\ "forget" \in Todo("payment")' /\ "lastRequest" \notin Todo("payment")'
                 /\ Ahead("payment")' = Ahead("payment")
              \/ /\ pc("payment") = "forget" /\ payment' = NoPayment /\ Todo("payment") = {"forget"}
                 /\ ~Working("payment")' /\ Todo("payment")' = {} /\ Final("payment", "forget")'
<1> DEFINE u == "payment"
<1>0. u \in Threads /\ ThreadsOk /\ nfc' = nfc /\ wanted' = wanted
  BY ThreadsAssumption DEF Base, Shape, enableThread
<1>r. rest(u) = <<>> => Left(u) = {}
  BY Plan0 DEF Left
<1>1. CASE At(u, "lastRequest")
  <2>1. pc(u) = "lastRequest" /\ Working(u)
    BY <1>0, <1>1, AtPc DEF Base, Home, HomeIn
  <2>2. rest(u) = <<>> /\ Todo(u) = {"lastRequest"}
    BY <1>r, <2>1 DEF DiscoveryPlans, Todo
  <2>3. /\ payment' = payment
        /\ Then(u, <<"letThrough">> \o (IF payment.last = None THEN <<>> ELSE PutOffCall[payment.last])
                   \o <<"forget">>)
    BY <1>1, <2>1, AtPc DEF enableThread
  <2>4. ASSUME NEW c, IsSeq(c), "forget" \notin Elems(c),
               c = IF payment.last = None THEN <<>> ELSE PutOffCall[payment.last]
        PROVE  /\ Todo(u)' = {"letThrough", "forget"} \cup Elems(c) /\ Working(u)'
               /\ pc(u)' = "letThrough" /\ Final(u, "forget")' /\ Others(u)
    <3>1. Then(u, <<"letThrough">> \o c \o <<"forget">>)
      BY <2>3, <2>4
    <3>2. QED
      BY <1>1, <2>2, <2>4, <3>1, RequestTaken
  <2>5. CASE payment.last = None
    <3>1. /\ Todo(u)' = {"letThrough", "forget"} \cup Elems(<<>>) /\ Working(u)'
          /\ pc(u)' = "letThrough" /\ Final(u, "forget")' /\ Others(u)
      BY <2>4, <2>5, Plan0
    <3>2. QED
      BY <1>0, <2>1, <2>2, <2>3, <2>5, <3>1, Plan0, NoneAssumption
  <2>6. ASSUME NEW l, IsSeq(<<l>>), Elems(<<l>>) = {l}, payment.last # None, l # "forget",
               PutOffCall[payment.last] = <<l>>
        PROVE  /\ Todo(u)' = {"letThrough", "forget", l} /\ Working(u)'
               /\ pc(u)' = "letThrough" /\ Final(u, "forget")' /\ Others(u)
    <3>1. /\ Todo(u)' = {"letThrough", "forget"} \cup Elems(<<l>>) /\ Working(u)'
          /\ pc(u)' = "letThrough" /\ Final(u, "forget")' /\ Others(u)
      BY <2>4, <2>6
    <3>2. QED
      BY <2>6, <3>1
  <2>7. CASE payment.last = "enable"
    <3>1. PutOffCall[payment.last] = <<"enableDiscovery">> /\ payment.last # None
      BY <2>7, NoneAssumption DEF PutOffCall
    <3>2. QED
      BY <1>0, <2>1, <2>2, <2>3, <2>6, <2>7, <3>1, Plan1
  <2>8. CASE payment.last = "disable"
    <3>1. PutOffCall[payment.last] = <<"disableDiscovery">> /\ payment.last # None
      BY <2>8, NoneAssumption DEF PutOffCall
    <3>2. QED
      BY <1>0, <2>1, <2>2, <2>3, <2>6, <2>8, <3>1, Plan1
  <2>9. QED
    BY <2>5, <2>7, <2>8 DEF Base, Shape
<1>2. CASE At(u, "letThrough") /\ Advance(u) /\ payment' = [payment EXCEPT !.progress = FALSE]
  <2>1. /\ Todo(u)' = Left(u) /\ Working(u) /\ pc(u) = "letThrough" /\ Others(u)
        /\ Todo(u) = {"letThrough"} \cup Left(u)
    BY <1>0, <1>2, AdvanceTodo
  <2>2. "lastRequest" \notin Left(u) /\ "forget" \in Left(u)
    BY <1>r, <2>1 DEF DiscoveryPlans
  <2>3. Working(u)' /\ pc(u)' # "lastRequest"
    BY <2>1, <2>2 DEF Todo
  <2>4. Adding(u) /\ "forget" \notin Adds(pc(u))
    BY <1>2, <2>1, AddsNothing DEF Adds
  <2>5. Final(u, "forget")'
    BY <1>0, <2>1, <2>4, AddingTodo DEF DiscoveryPlans
  <2>6. Ahead(u)' = Ahead(u)
    BY <2>1 DEF Ahead, Discovering, Enabling, Stopping
  <2>7. QED
    BY <1>0, <1>2, <2>1, <2>2, <2>3, <2>5, <2>6
<1>3. CASE At(u, "forget") /\ Advance(u) /\ payment' = NoPayment
  <2>1. /\ Todo(u)' = Left(u) /\ Working(u) /\ pc(u) = "forget" /\ Others(u)
        /\ Todo(u) = {"forget"} \cup Left(u)
    BY <1>0, <1>3, AdvanceTodo
  <2>2. Left(u) = {}
    BY <1>r, <2>1 DEF DiscoveryPlans, Final
  <2>3. ~Working(u)'
    BY <2>1, <2>2 DEF Todo
  <2>4. Adding(u) /\ "forget" \notin Adds(pc(u))
    BY <1>3, <2>1, AddsNothing DEF Adds
  <2>5. Final(u, "forget")'
    BY <1>0, <2>1, <2>4, AddingTodo DEF DiscoveryPlans
  <2>6. QED
    BY <1>0, <1>3, <2>1, <2>2, <2>3, <2>5
<1>4. QED
  BY <1>1, <1>2, <1>3 DEF enableThread

LEMMA DiscoveryPlansStep ==
    ASSUME Base, DiscoveryPlans, Next
    PROVE  DiscoveryPlans'
<1>0. "service" \in Threads /\ "payment" \in Threads /\ ThreadsOk
  BY ThreadsAssumption DEF Base, Shape
<1>1. CASE NFA_DM_NFCC_TRANSPORT_ERR_EVT
  <2>1. ASSUME NEW u \in Threads PROVE ~Working(u)' /\ Todo(u)' = {} /\ Final(u, "forget")'
    <3>1. ~Working(u)' /\ Todo(u)' = {} /\ pc(u)' = "idle" /\ rest(u)' = <<>>
      BY <1>1, ResetTodo DEF pc, rest, Idle, NoCall
    <3>2. QED
      BY <3>1 DEF Final
  <2>2. QED
    BY <1>0, <2>1 DEF DiscoveryPlans, Ahead
<1>2. CASE ~NFA_DM_NFCC_TRANSPORT_ERR_EVT
  <2>1. /\ Ahead("service")' \cap {"enableDiscovery", "disableDiscovery"} # {} => Left("service")' = {}
        /\ "unblock" \in Todo("service")' => Ahead("service")' = {}
    <3> DEFINE u == "service"
    <3>1. CASE Undisturbed(u)
      BY <3>1, UndisturbedTodo DEF DiscoveryPlans, Ahead
    <3>2. ASSUME Working(u), pc(u) # "lastRequest", Todo(u)' \subseteq Adds(pc(u)) \cup Left(u) \cup {"send", "finalize"}
          PROVE  /\ Ahead(u)' \cap {"enableDiscovery", "disableDiscovery"} = {}
                 /\ "unblock" \in Todo(u)' => Ahead(u)' = {}
      <4>1. /\ Adds(pc(u)) \cap {"enableDiscovery", "disableDiscovery", "unblock"} = {}
            /\ pc(u) \notin Discovering => Adds(pc(u)) \cap Discovering = {}
        BY <3>2 DEF Adds, Discovering, Enabling, Stopping
      <4>2. Todo(u) = {pc(u)} \cup Left(u)
        BY <3>2 DEF Todo
      <4>3. ASSUME NEW l \in {"enableDiscovery", "disableDiscovery"}, l \in Left(u) PROVE FALSE
        BY <4>2, <4>3 DEF DiscoveryPlans, Ahead, Discovering, Enabling
      <4>4. "unblock" \in Left(u) => Ahead(u) = {}
        BY <4>2 DEF DiscoveryPlans
      <4>5. "send" \notin Discovering /\ "finalize" \notin Discovering
        BY DEF Discovering, Enabling, Stopping
      <4>6. QED
        BY <3>2, <4>1, <4>2, <4>3, <4>4, <4>5 DEF Ahead
    <3>3. CASE u \in roles /\ calling(u) /\ Working(u)
      <4>1. pc(u) # "lastRequest"
        BY <3>3, NotAtCalling
      <4>2. CASE Adding(u)
        BY <1>0, <3>2, <3>3, <4>1, <4>2, AddingTodo
      <4>3. CASE pc(u)' \in {"send", "finalize"} /\ Todo(u)' = {pc(u)'} \cup Left(u)
        BY <3>2, <3>3, <4>1, <4>3
      <4>4. Keeping => Undisturbed(u)
        BY <1>0 DEF Keeping, Undisturbed
      <4>5. QED
        BY <3>1, <3>3, <4>2, <4>3, <4>4, CallingTodo
    <3>4. CASE Starts(u)
      <4>1. PICK op, plan : /\ IsSeq(plan) /\ plan # <<>> /\ PlanOk(op, plan)
                            /\ Todo(u)' = Elems(plan) /\ rest(u)' = Tail(plan)
        BY <3>4, StartTodo
      <4>2. Elems(plan) = {Head(plan)} \cup Elems(Tail(plan))
        BY <4>1, HeadTailElems
      <4>3. Left(u)' = Elems(Tail(plan))
        BY <4>1 DEF Left
      <4>4. ASSUME Elems(plan) \cap Discovering # {}
            PROVE  Left(u)' = {} /\ "unblock" \notin Todo(u)'
        <5>1. Tail(plan) = <<>> /\ Head(plan) # "unblock"
          BY <4>1, <4>4 DEF PlanOk
        <5>2. Elems(Tail(plan)) = {}
          BY <5>1, Plan0
        <5>3. QED
          BY <4>1, <4>2, <4>3, <5>1, <5>2
      <4>5. Ahead(u)' = Elems(plan) \cap Discovering
        BY <4>1 DEF Ahead
      <4>6. QED
        BY <4>4, <4>5
    <3>5. QED
      BY <1>2, <3>1, <3>3, <3>4, ServiceMoves
  <2>2. /\ Final("payment", "forget")'
        /\ "lastRequest" \in Todo("payment")' => rest("payment")' = <<>>
        /\ Working("payment")' => {"lastRequest", "forget"} \cap Todo("payment")' # {}
    <3> DEFINE u == "payment"
    <3>1. CASE Undisturbed(u)
      BY <3>1, UndisturbedTodo DEF DiscoveryPlans
    <3>2. CASE u \in roles /\ calling(u)
      BY <3>2, PaymentCalls
    <3>3. CASE enableThread
      BY <3>3, ThreadSteps DEF Base, Shape
    <3>4. CASE Begin(u, "payment", <<"lastRequest">>)
      <4>1. /\ Working(u)' /\ Todo(u)' = {"lastRequest"} /\ rest(u)' = <<>> /\ pc(u)' = "lastRequest"
        BY <3>4, BeginTodo, Plan1, NoneAssumption
      <4>2. QED
        BY <4>1 DEF Final
    <3>5. QED
      BY <1>0, <1>2, <3>1, <3>2, <3>3, <3>4, StepsOf DEF StepOf
  <2>3. QED
    BY <2>1, <2>2 DEF DiscoveryPlans
<1>3. QED
  BY <1>1, <1>2

\* The steps that bring discovery to what is wanted.
Polling == {"pollOn"} \cup Stopping

\* d is discovery and on what is wanted of it; S and P are what the service and
\* enableThread have ahead, working whether the latter runs, first whether it
\* has still to read last_request.
Agrees(d, on, last, progress, S, P, working, first) ==
    /\ \A T \in {S, P} : ("pollOn" \in T => on) /\ (T \cap Stopping # {} => ~on)
    /\ ("enableDiscovery" \in P => on) /\ ("disableDiscovery" \in P => ~on)
    /\ last # None => (on <=> last = "enable") /\ (working \/ progress)
    /\ P # {} => last # None
    /\ \/ d <=> on
       \/ (S \cup P) \cap Polling # {}
       \/ P \cap {"enableDiscovery", "disableDiscovery"} # {}
       \/ last # None /\ (working => first)
AgreesNow ==
    Agrees(nfc.discovery, wanted.on, payment.last, payment.progress, Ahead("service"),
           Ahead("payment"), Working("payment"), pc("payment") = "lastRequest")

\* Who waits for polling to start, or to stop, has said so before.
AsleepPolling ==
    \A t \in {"service", "payment"} :
        Asleep(t) => (pc(t) = "pollOn" => nfc.discovery) /\ (pc(t) = "pollOff" => ~nfc.discovery)

DiscoveryInv ==
    /\ nfc.discovery \in BOOLEAN /\ wanted.on \in BOOLEAN
    /\ DiscoveryPlans
    /\ ~wanted.dropped /\ ~wanted.refused => AsleepPolling /\ AgreesNow

(* What the steps of a call change of all this.                              *)
LEMMA CallingDiscovery ==
    ASSUME Shape, NEW t, calling(t)
    PROVE  /\ \/ nfc'.discovery = nfc.discovery
              \/ unblock(t) \/ (polling(t) /\ pc(t) \in {"pollOn", "pollOff"})
           /\ wanted'.on = wanted.on \/ enableDiscovery(t) \/ disableDiscovery(t) \/ unblock(t)
           /\ (wanted.dropped => wanted'.dropped) /\ (wanted.refused => wanted'.refused)
           /\ UNCHANGED payment \/ enableDiscovery(t) \/ disableDiscovery(t)
<1> USE DEF Shape, NoFlags, NothingWanted
<1>1. /\ wanted'.on = wanted.on \/ enableDiscovery(t) \/ disableDiscovery(t) \/ unblock(t)
      /\ (wanted.dropped => wanted'.dropped) /\ (wanted.refused => wanted'.refused)
  <2>1. CASE startRfDiscovery(t) \/ polling(t) \/ requests(t)
    BY <2>1 DEF startRfDiscovery, polling, requests, Refused
  <2>2. CASE enableDiscovery(t) \/ disableDiscovery(t) \/ unblock(t)
    BY <2>2 DEF enableDiscovery, disableDiscovery, unblock, Wants
  <2>3. QED
    BY <2>1, <2>2, CallingFrame
<1>2. \/ nfc'.discovery = nfc.discovery
      \/ unblock(t) \/ (polling(t) /\ pc(t) \in {"pollOn", "pollOff"})
  <2>1. CASE polling(t)
    <3>1. PICK l \in DOMAIN Polls : At(t, l) /\ (Refused(t) \/ l \in {"pollOn", "pollOff"} \/ nfc' = nfc)
      BY <2>1 DEF polling
    <3>2. QED
      BY <2>1, <3>1, AtPc DEF Refused
  <2>2. CASE requests(t)
    <3>1. PICK l \in DOMAIN EventOf :
             nfc' = Noted(l) \/ Refused(t) \/ nfc' = [nfc EXCEPT !.dirty = TRUE]
      BY <2>2 DEF requests
    <3>2. nfc' = nfc \/ nfc' = [nfc EXCEPT !.dirty = TRUE]
      BY <3>1 DEF Noted, Refused
    <3>3. QED
      BY <3>2
  <2>3. CASE rfDone(t) \/ requestDone(t) \/ discovered(t) \/ routed(t) \/ setRouting(t)
    BY <2>3 DEF rfDone, requestDone, discovered, routed, setRouting
  <2>4. QED
    BY <2>1, <2>2, <2>3, CallingFrame
<1>3. QED
  BY <1>1, <1>2, CallingFrame

LEMMA DiscoveryFrame ==
    ASSUME Shape, Next, ~NFA_DM_NFCC_TRANSPORT_ERR_EVT
    PROVE  \/ \E t \in roles : calling(t)
           \/ /\ nfc'.discovery = nfc.discovery /\ wanted'.on = wanted.on
              /\ (wanted.dropped => wanted'.dropped) /\ (wanted.refused => wanted'.refused)
              /\ \/ payment'.last = payment.last /\ payment'.progress = payment.progress
                 \/ enableThread \/ NFA_DM_RF_FIELD_EVT
<1> USE DEF Shape, NoFlags, NothingWanted, NoPayment
<1>1. CASE jniCalls
  BY <1>1, JniFrame
<1>2. CASE extras
  <2>1. CASE enableThread
    BY <2>1 DEF enableThread
  <2>2. CASE ~enableThread
    BY <1>2, <2>2 DEF extras, interopStop, interopLocked, interopStopped, interopTimer,
       pn544InteropStartPolling, interopStarted, eeReaderEvent, startStopSwpReaderProc, mapRefused,
       notifyEEReaderEvent, Nxp_SelfTest, prepares, awaits, nfaNxpSelfTestNtfTimerCb, SWPSelfTest,
       features
  <2>3. QED
    BY <2>1, <2>2
<1>3. CASE callbacks
  <2>1. CASE NxpResponse_Cb \/ nfaNxpSelfTestNtfCallback \/ nfaDone \/ pn544InteropIsBusy
    BY <2>1 DEF NxpResponse_Cb, nfaNxpSelfTestNtfCallback, nfaDone, pn544InteropIsBusy, features
  <2>2. CASE NFA_DM_ENABLE_EVT \/ NFA_DM_DISABLE_EVT \/ NFA_DEACTIVATED_EVT \/ NFA_EE_ACTION_EVT
    BY <2>2 DEF NFA_DM_ENABLE_EVT, NFA_DM_DISABLE_EVT, NFA_DEACTIVATED_EVT, NFA_EE_ACTION_EVT, features
  <2>3. CASE NFA_ACTIVATED_EVT
    <3>1. /\ wanted' = wanted
          /\ payment' = payment \/ payment' = [payment EXCEPT !.state = "activated"]
          /\ nfc' = nfc \/ nfc' = [nfc EXCEPT !.activated = TRUE]
      BY <2>3 DEF NFA_ACTIVATED_EVT
    <3>2. QED
      BY <3>1
  <2>4. CASE NFA_DM_RF_FIELD_EVT
    BY <2>4 DEF NFA_DM_RF_FIELD_EVT, ResetPayment
  <2>5. QED
    BY <1>3, <2>1, <2>2, <2>3, <2>4 DEF callbacks
<1>4. QED
  BY <1>1, <1>2, <1>3 DEF Next

(* A step of Discovering that leaves its thread with what brings discovery    *)
(* to what is wanted, or that has brought it there, keeps the agreement.      *)
LEMMA AgreesAfter ==
    ASSUME Base, DiscoveryPlans, AgreesNow, NEW t \in {"service", "payment"}, t \in roles, calling(t),
           \A u \in Threads \ {t} : Undisturbed(u),
           UNCHANGED payment, wanted'.on = wanted.on, pc(t) \in Discovering,
           "pollOn" \in Ahead(t)' => wanted.on, Ahead(t)' \cap Stopping # {} => ~wanted.on,
           Ahead(t)' \cap {"enableDiscovery", "disableDiscovery"} \subseteq Ahead(t),
           (nfc'.discovery <=> wanted.on) \/ Ahead(t)' \cap Polling # {}
    PROVE  AgreesNow'
<1>0. "service" \in Threads /\ "payment" \in Threads /\ Working(t) /\ Ahead(t) # {}
  BY ThreadsAssumption, CallingTodo DEF Ahead, Todo
<1>1. CASE t = "service"
  <2>1. /\ Ahead("payment")' = Ahead("payment") /\ Working("payment")' = Working("payment")
        /\ pc("payment")' = pc("payment")
    BY <1>0, <1>1, UndisturbedTodo DEF Ahead, Undisturbed
  <2>2. QED
    BY <1>1, <2>1 DEF AgreesNow, Agrees
<1>2. CASE t = "payment"
  <2>1. Ahead("service")' = Ahead("service")
    BY <1>0, <1>2, UndisturbedTodo DEF Ahead
  <2>2. Working("payment") /\ Working("payment")' /\ pc("payment") # "lastRequest"
        /\ pc("payment")' # "lastRequest"
    BY <1>2, PaymentCalls
  <2>3. QED
    BY <1>0, <1>2, <2>1, <2>2 DEF AgreesNow, Agrees
<1>3. QED
  BY <1>1, <1>2

LEMMA EnablePlan ==
    ASSUME Base, NEW t \in {"service", "payment"}, t \in roles, enableDiscovery(t)
    PROVE  /\ Others(t) /\ Working(t) /\ pc(t) = "enableDiscovery" /\ nfc' = nfc
           /\ \/ /\ payment.progress /\ payment' = [payment EXCEPT !.last = "enable"]
                 /\ Ahead(t)' = Left(t) \cap Discovering
              \/ /\ ~payment.progress /\ payment' = payment
                 /\ \/ nfc.discovery /\ Ahead(t)' = Left(t) \cap Discovering
                    \/ Ahead(t)' = {"pollOn"} \cup (Left(t) \cap Discovering)
<1>0. t \in Threads /\ nfc' = nfc /\ At(t, "enableDiscovery")
  BY ThreadsAssumption DEF enableDiscovery
<1>1. CASE PutOff(t, "enable")
  <2>1. payment.progress /\ payment' = [payment EXCEPT !.last = "enable"] /\ Advance(t)
    BY <1>1 DEF PutOff
  <2>2. Todo(t)' = Left(t) /\ Working(t) /\ pc(t) = "enableDiscovery" /\ Others(t)
    BY <1>0, <2>1, AdvanceTodo
  <2>3. QED
    BY <1>0, <2>1, <2>2 DEF Ahead
<1>2. CASE ~PutOff(t, "enable")
  <2> DEFINE p == <<"rfOffIfOn", "vendor", "p2p", "pollOn", "listen", "rfOn", "discovered">>
  <2>1. /\ ~payment.progress /\ payment' = payment
        /\ Then(t, IF nfc.discovery /\ ~nfc.force THEN <<>> ELSE p)
    BY <1>2 DEF enableDiscovery
  <2>2. /\ IsSeq(p)
        /\ Elems(p) = {"rfOffIfOn", "vendor", "p2p", "pollOn", "listen", "rfOn", "discovered"}
    BY Plan7
  <2> HIDE DEF p
  <2>3. CASE nfc.discovery /\ Then(t, <<>>)
    <3>1. Todo(t)' = Elems(<<>>) \cup Left(t) /\ Working(t) /\ pc(t) = "enableDiscovery" /\ Others(t)
      BY <1>0, <2>3, Plan0, ThenTodo
    <3>2. QED
      BY <1>0, <2>1, <2>3, <3>1, Plan0 DEF Ahead
  <2>4. CASE Then(t, p)
    <3>1. Todo(t)' = Elems(p) \cup Left(t) /\ Working(t) /\ pc(t) = "enableDiscovery" /\ Others(t)
      BY <1>0, <2>2, <2>4, ThenTodo
    <3>2. Elems(p) \cap Discovering = {"pollOn"}
      BY <2>2 DEF Discovering, Enabling, Stopping
    <3>3. QED
      BY <1>0, <2>1, <3>1, <3>2 DEF Ahead
  <2>5. QED
    BY <2>1, <2>3, <2>4
<1>3. QED
  BY <1>1, <1>2

LEMMA DisablePlan ==
    ASSUME Base, NEW t \in {"service", "payment"}, t \in roles, disableDiscovery(t)
    PROVE  /\ Others(t) /\ Working(t) /\ pc(t) = "disableDiscovery" /\ nfc' = nfc
           /\ \/ /\ payment.progress /\ payment' = [payment EXCEPT !.last = "disable"]
                 /\ Ahead(t)' = Left(t) \cap Discovering
              \/ /\ ~payment.progress /\ payment' = payment
                 /\ Ahead(t)' = {"stopDiscovery"} \cup (Left(t) \cap Discovering)
<1>0. t \in Threads /\ nfc' = nfc /\ At(t, "disableDiscovery")
  BY ThreadsAssumption DEF disableDiscovery
<1>1. CASE PutOff(t, "disable")
  <2>1. payment.progress /\ payment' = [payment EXCEPT !.last = "disable"] /\ Advance(t)
    BY <1>1 DEF PutOff
  <2>2. Todo(t)' = Left(t) /\ Working(t) /\ pc(t) = "disableDiscovery" /\ Others(t)
    BY <1>0, <2>1, AdvanceTodo
  <2>3. QED
    BY <1>0, <2>1, <2>2 DEF Ahead
<1>2. CASE ~PutOff(t, "disable")
  <2> DEFINE p == <<"abortInterop", "stopDiscovery">>
  <2>1. ~payment.progress /\ payment' = payment /\ Then(t, p)
    BY <1>2 DEF disableDiscovery
  <2>2. IsSeq(p) /\ Elems(p) = {"abortInterop", "stopDiscovery"}
    BY Plan2
  <2> HIDE DEF p
  <2>3. Todo(t)' = Elems(p) \cup Left(t) /\ Working(t) /\ pc(t) = "disableDiscovery" /\ Others(t)
    BY <1>0, <2>1, <2>2, ThenTodo
  <2>4. Elems(p) \cap Discovering = {"stopDiscovery"}
    BY <2>2 DEF Discovering, Enabling, Stopping
  <2>5. QED
    BY <1>0, <2>1, <2>3, <2>4 DEF Ahead
<1>3. QED
  BY <1>1, <1>2

\* The other threads of a step that only its own changes.
LEMMA OthersUndisturbed ==
    ASSUME NEW t, Others(t)
    PROVE  \A u \in Threads \ {t} : Undisturbed(u)
BY DEF Others, Undisturbed, pc

(* What the service asks for                                                 *)
LEMMA ServiceWants ==
    ASSUME Base, DiscoveryPlans, AgreesNow, "service" \in roles, ~wanted'.dropped,
           enableDiscovery("service") \/ disableDiscovery("service")
    PROVE  AgreesNow' /\ wanted'.on \in BOOLEAN
<1> DEFINE u == "service"
<1>0. u \in Threads /\ "payment" \in Threads
  BY ThreadsAssumption
<1>1. /\ ~Working("payment") /\ wanted'.on = enableDiscovery(u)
  <2>1. Wants(u, TRUE) => ~Working("payment") /\ wanted'.on = TRUE
    BY DEF Wants, Base, Shape, NothingWanted
  <2>2. Wants(u, FALSE) => ~Working("payment") /\ wanted'.on = FALSE
    BY DEF Wants, Base, Shape, NothingWanted
  <2>3. ~(enableDiscovery(u) /\ disableDiscovery(u))
    BY Where
  <2>4. QED
    BY <2>1, <2>2, <2>3 DEF enableDiscovery, disableDiscovery
<1>2. CASE enableDiscovery(u)
  <2>1. Others(u) /\ Working(u) /\ pc(u) = "enableDiscovery" /\ nfc' = nfc
    BY <1>2, EnablePlan
  <2>2. Left(u) = {}
    BY <2>1 DEF DiscoveryPlans, Ahead, Todo, Discovering, Enabling
  <2>3. /\ Ahead("payment")' = Ahead("payment") /\ ~Working("payment")' /\ Ahead("payment") = {}
    BY <1>0, <1>1, <2>1, OthersTodo DEF Ahead, Todo
  <2>4. wanted'.on = TRUE
    BY <1>1, <1>2 DEF enableDiscovery, Wants, Base, Shape, NothingWanted
  <2>5. CASE payment' = [payment EXCEPT !.last = "enable"] /\ payment.progress /\ Ahead(u)' = {}
    <3>1. payment'.last = "enable" /\ payment'.progress
      BY <2>5 DEF Base, Shape, NoPayment
    <3>2. QED
      BY <2>3, <2>4, <2>5, <3>1, NoneAssumption DEF AgreesNow, Agrees
  <2>6. CASE /\ ~payment.progress /\ payment' = payment
             /\ \/ nfc.discovery /\ Ahead(u)' = {}
                \/ Ahead(u)' = {"pollOn"}
    <3>1. payment.last = None
      BY <1>1, <2>6 DEF AgreesNow, Agrees
    <3>2. QED
      BY <2>1, <2>3, <2>4, <2>6, <3>1 DEF AgreesNow, Agrees, Polling, Stopping
  <2>7. QED
    BY <1>2, <2>2, <2>4, <2>5, <2>6, EnablePlan
<1>3. CASE disableDiscovery(u)
  <2>1. Others(u) /\ Working(u) /\ pc(u) = "disableDiscovery" /\ nfc' = nfc
    BY <1>3, DisablePlan
  <2>2. Left(u) = {}
    BY <2>1 DEF DiscoveryPlans, Ahead, Todo, Discovering, Enabling
  <2>3. /\ Ahead("payment")' = Ahead("payment") /\ ~Working("payment")' /\ Ahead("payment") = {}
    BY <1>0, <1>1, <2>1, OthersTodo DEF Ahead, Todo
  <2>4. wanted'.on = FALSE
    BY <1>1, <1>3 DEF disableDiscovery, Wants, Base, Shape, NothingWanted
  <2>5. CASE payment' = [payment EXCEPT !.last = "disable"] /\ payment.progress /\ Ahead(u)' = {}
    <3>1. payment'.last = "disable" /\ payment'.progress
      BY <2>5 DEF Base, Shape, NoPayment
    <3>2. QED
      BY <2>3, <2>4, <2>5, <3>1, NoneAssumption DEF AgreesNow, Agrees
  <2>6. CASE ~payment.progress /\ payment' = payment /\ Ahead(u)' = {"stopDiscovery"}
    <3>1. payment.last = None
      BY <1>1, <2>6 DEF AgreesNow, Agrees
    <3>2. "pollOn" \notin Ahead(u)' /\ Ahead(u)' \cap Polling # {}
      BY <2>6 DEF Polling, Stopping
    <3>3. QED
      BY <2>1, <2>3, <2>4, <2>6, <3>1, <3>2 DEF AgreesNow, Agrees
  <2>7. QED
    BY <1>3, <2>2, <2>4, <2>5, <2>6, DisablePlan
<1>4. QED
  BY <1>2, <1>3

(* The steps of both calls, and of what enableThread takes up again           *)
LEMMA PaymentTakesUp ==
    ASSUME Base, DiscoveryPlans, AgreesNow, "payment" \in roles, ~wanted'.dropped,
           enableDiscovery("payment") \/ disableDiscovery("payment")
    PROVE  AgreesNow' /\ wanted'.on = wanted.on
<1> DEFINE u == "payment"
<1>0. u \in Threads
  BY ThreadsAssumption
<1>1. ~payment.progress /\ wanted'.on = wanted.on
  <2>1. (Wants(u, TRUE) \/ Wants(u, FALSE)) => ~payment.progress /\ wanted'.on = wanted.on
    BY DEF Wants, Base, Shape, NothingWanted
  <2>2. QED
    BY <2>1 DEF enableDiscovery, disableDiscovery
<1>2. calling(u)
  BY DEF calling
<1>3. /\ Others(u) /\ Working(u) /\ nfc' = nfc /\ payment' = payment
      /\ \/ /\ pc(u) = "enableDiscovery"
            /\ \/ nfc.discovery /\ Ahead(u)' = Left(u) \cap Discovering
               \/ Ahead(u)' = {"pollOn"} \cup (Left(u) \cap Discovering)
         \/ /\ pc(u) = "disableDiscovery"
            /\ Ahead(u)' = {"stopDiscovery"} \cup (Left(u) \cap Discovering)
  BY <1>1, EnablePlan, DisablePlan
<1>4. pc(u) \in Ahead(u) /\ Left(u) \cap Discovering \subseteq Ahead(u)
  BY <1>3 DEF Ahead, Todo, Discovering, Enabling
<1>5. /\ pc(u) = "enableDiscovery" => wanted.on
      /\ pc(u) = "disableDiscovery" => ~wanted.on
      /\ ("pollOn" \in Ahead(u) => wanted.on) /\ (Ahead(u) \cap Stopping # {} => ~wanted.on)
  BY <1>4 DEF AgreesNow, Agrees
<1>6. /\ "pollOn" \in Ahead(u)' => wanted.on
      /\ Ahead(u)' \cap Stopping # {} => ~wanted.on
      /\ Ahead(u)' \cap {"enableDiscovery", "disableDiscovery"} \subseteq Ahead(u)
      /\ (nfc'.discovery <=> wanted.on) \/ Ahead(u)' \cap Polling # {}
  BY <1>3, <1>4, <1>5 DEF Polling, Stopping
<1>7. \A v \in Threads \ {u} : Undisturbed(v)
  BY <1>3, OthersUndisturbed
<1>8. pc(u) \in Discovering
  BY <1>4 DEF Ahead
<1>9. QED
  BY <1>1, <1>2, <1>3, <1>6, <1>7, <1>8, AgreesAfter

\* startStopPolling's requests, and their answers, leave what is ahead.
LEMMA PollingAhead ==
    ASSUME Base, NEW t \in {"service", "payment"}, t \in roles, polling(t), ~wanted'.refused,
           pc(t) \in {"pollOn", "pollOff"}
    PROVE  /\ Ahead(t)' = Ahead(t) /\ (nfc'.discovery <=> pc(t) = "pollOn") /\ wanted' = wanted
           /\ \A u \in Threads \ {t} : Undisturbed(u)
           /\ thread[t].st = "runs" /\ nfc'.discovery \in BOOLEAN
<1>0. t \in Threads /\ ThreadsOk
  BY ThreadsAssumption DEF Base, Shape
<1>1. PICK l \in DOMAIN Polls : At(t, l) /\
        \/ Refused(t)
        \/ /\ AsksStack(t, "poll", <<l>>)
           /\ nfc' = IF l \in {"pollOn", "pollOff"} THEN [nfc EXCEPT !.discovery = Polls[l]] ELSE nfc
           /\ UNCHANGED wanted
  BY DEF polling
<1>2. l = pc(t) /\ thread[t].st = "runs"
  BY <1>1 DEF At, pc
<1>3. ~Refused(t)
  BY DEF Refused, Base, Shape, NothingWanted
<1>4. Keeping
  BY <1>0, <1>1, <1>3, AskedSleeps
<1>5. nfc' = [nfc EXCEPT !.discovery = Polls[l]] /\ wanted' = wanted
  BY <1>1, <1>2, <1>3
<1>6. nfc'.discovery = Polls[l]
  BY <1>5 DEF Base, Shape, NoFlags
<1>7. Polls[l] \in BOOLEAN /\ (Polls[l] <=> l = "pollOn")
  <2>1. Polls["pollOn"] = TRUE /\ Polls["pollOff"] = FALSE
    BY DEF Polls
  <2>2. QED
    BY <1>2, <2>1
<1>8. Ahead(t)' = Ahead(t)
  BY <1>0, <1>4, KeepingTodo DEF Ahead
<1>9. \A u \in Threads \ {t} : Undisturbed(u)
  BY <1>4 DEF Keeping, Undisturbed
<1>10. QED
  BY <1>2, <1>5, <1>6, <1>7, <1>8, <1>9

LEMMA AnsweredPlan ==
    ASSUME Base, NEW t \in {"service", "payment"}, t \in roles, pollingDone(t),
           pc(t) \in {"pollOn", "pollOff"}
    PROVE  /\ Ahead(t)' = Left(t) \cap Discovering /\ Others(t) /\ thread[t].st = "woken"
           /\ UNCHANGED <<nfc, payment, wanted>>
<1>0. t \in Threads /\ UNCHANGED <<nfc, payment, wanted>>
  BY ThreadsAssumption DEF pollingDone, features
<1>1. PICK l \in DOMAIN Polls :
         Wakes(t, l) /\ Then(t, IF l = "repoll" THEN <<"startPolling">> ELSE <<>>)
  BY DEF pollingDone
<1>2. l = pc(t) /\ thread[t].st = "woken"
  BY <1>1 DEF Wakes, pc
<1>3. Wakes(t, l) /\ Then(t, <<>>) /\ l # "idle"
  BY <1>1, <1>2
<1>4. Todo(t)' = Elems(<<>>) \cup Left(t) /\ Others(t)
  BY <1>0, <1>3, Plan0, ThenTodo
<1>5. QED
  BY <1>0, <1>2, <1>4, Plan0 DEF Ahead

LEMMA StopPlan ==
    ASSUME Base, NEW t \in {"service", "payment"}, t \in roles, stopDiscovery(t) \/ stillPolling(t)
    PROVE  /\ Others(t) /\ pc(t) \in {"stopDiscovery", "stillPolling"}
           /\ UNCHANGED <<nfc, payment, wanted>>
           /\ \/ ~nfc.discovery /\ Ahead(t)' = Left(t) \cap Discovering
              \/ \E l \in {"stillPolling", "pollOff"} : Ahead(t)' = {l} \cup (Left(t) \cap Discovering)
<1>0. t \in Threads /\ UNCHANGED <<nfc, payment, wanted>>
  BY ThreadsAssumption DEF stopDiscovery, stillPolling, features
<1>1. CASE stopDiscovery(t)
  <2> DEFINE p == <<"rfOff", "stillPolling", "p2p", "vendor", "listenOff", "rfOn", "modeOff">>
  <2>1. At(t, "stopDiscovery") /\ Then(t, IF ~nfc.discovery THEN <<>> ELSE p)
    BY <1>1 DEF stopDiscovery
  <2>2. /\ IsSeq(p)
        /\ Elems(p) = {"rfOff", "stillPolling", "p2p", "vendor", "listenOff", "rfOn", "modeOff"}
    BY Plan7
  <2> HIDE DEF p
  <2>3. CASE ~nfc.discovery /\ Then(t, <<>>)
    <3>1. Todo(t)' = Elems(<<>>) \cup Left(t) /\ pc(t) = "stopDiscovery" /\ Others(t)
      BY <1>0, <2>1, <2>3, Plan0, ThenTodo
    <3>2. QED
      BY <1>0, <2>3, <3>1, Plan0 DEF Ahead
  <2>4. CASE Then(t, p)
    <3>1. Todo(t)' = Elems(p) \cup Left(t) /\ pc(t) = "stopDiscovery" /\ Others(t)
      BY <1>0, <2>1, <2>2, <2>4, ThenTodo
    <3>2. Elems(p) \cap Discovering = {"stillPolling"}
      BY <2>2 DEF Discovering, Enabling, Stopping
    <3>3. QED
      BY <1>0, <3>1, <3>2 DEF Ahead
  <2>5. QED
    BY <2>1, <2>3, <2>4
<1>2. CASE stillPolling(t)
  <2> DEFINE p == <<"pollOff">>
  <2>1. At(t, "stillPolling") /\ Then(t, IF nfc.discovery THEN p ELSE <<>>)
    BY <1>2 DEF stillPolling
  <2>2. IsSeq(p) /\ Elems(p) = {"pollOff"}
    BY Plan1
  <2> HIDE DEF p
  <2>3. CASE ~nfc.discovery /\ Then(t, <<>>)
    <3>1. Todo(t)' = Elems(<<>>) \cup Left(t) /\ pc(t) = "stillPolling" /\ Others(t)
      BY <1>0, <2>1, <2>3, Plan0, ThenTodo
    <3>2. QED
      BY <1>0, <2>3, <3>1, Plan0 DEF Ahead
  <2>4. CASE Then(t, p)
    <3>1. Todo(t)' = Elems(p) \cup Left(t) /\ pc(t) = "stillPolling" /\ Others(t)
      BY <1>0, <2>1, <2>2, <2>4, ThenTodo
    <3>2. Elems(p) \cap Discovering = {"pollOff"}
      BY <2>2 DEF Discovering, Enabling, Stopping
    <3>3. QED
      BY <1>0, <3>1, <3>2 DEF Ahead
  <2>5. QED
    BY <2>1, <2>3, <2>4
<1>3. QED
  BY <1>1, <1>2

(* A step of Discovering                                                     *)
LEMMA DiscoveringStep ==
    ASSUME Base, DiscoveryPlans, AgreesNow, AsleepPolling, NEW t \in roles, calling(t),
           pc(t) \in Discovering, ~wanted'.dropped, ~wanted'.refused
    PROVE  AgreesNow'
<1>0. t \in {"service", "payment"} /\ t \in Threads /\ Working(t) /\ thread[t].st \in {"runs", "woken"}
  <2>1. t \in Threads /\ Working(t)
    BY CallingTodo
  <2>2. pc(t) \in Todo(t) \cap Discovering
    BY <2>1 DEF Todo
  <2>3. HomeOf(Todo(t), t)
    BY <2>1 DEF Base, Home, HomeIn
  <2>4. QED
    BY <2>1, <2>2, <2>3, CallingAwake DEF HomeOf
<1>1. pc(t) \in Ahead(t) /\ Left(t) \cap Discovering \subseteq Ahead(t)
  BY <1>0 DEF Ahead, Todo
<1>2. ("pollOn" \in Ahead(t) => wanted.on) /\ (Ahead(t) \cap Stopping # {} => ~wanted.on)
  BY <1>0 DEF AgreesNow, Agrees
<1>3. CASE enableDiscovery(t) \/ disableDiscovery(t)
  BY <1>0, <1>3, ServiceWants, PaymentTakesUp
<1>4. CASE polling(t)
  <2>1. pc(t) \in {"pollOn", "pollOff"}
    BY <1>4, Where DEF Discovering, Enabling, Stopping
  <2>2. /\ Ahead(t)' = Ahead(t) /\ (nfc'.discovery <=> pc(t) = "pollOn") /\ wanted' = wanted
        /\ \A u \in Threads \ {t} : Undisturbed(u)
    BY <1>0, <1>4, <2>1, PollingAhead
  <2>3. UNCHANGED payment
    BY <1>4 DEF polling, features
  <2>4. (pc(t) = "pollOn" => wanted.on) /\ (pc(t) = "pollOff" => ~wanted.on)
    BY <1>1, <1>2 DEF Stopping
  <2>5. nfc'.discovery <=> wanted.on
    BY <2>1, <2>2, <2>4
  <2>6. QED
    BY <1>0, <1>2, <2>2, <2>3, <2>5, AgreesAfter
<1>5. CASE pollingDone(t)
  <2>1. pc(t) \in {"pollOn", "pollOff"}
    BY <1>5, Where DEF Discovering, Enabling, Stopping
  <2>2. /\ Ahead(t)' = Left(t) \cap Discovering /\ Others(t) /\ thread[t].st = "woken"
        /\ UNCHANGED <<nfc, payment, wanted>>
    BY <1>0, <1>5, <2>1, AnsweredPlan
  <2>3. \A u \in Threads \ {t} : Undisturbed(u)
    BY <2>2, OthersUndisturbed
  <2>4. (pc(t) = "pollOn" => wanted.on) /\ (pc(t) = "pollOff" => ~wanted.on)
    BY <1>1, <1>2 DEF Stopping
  <2>5. nfc'.discovery <=> wanted.on
    BY <1>0, <2>1, <2>2, <2>4 DEF AsleepPolling, Asleep
  <2>6. ("pollOn" \in Ahead(t)' => wanted.on) /\ (Ahead(t)' \cap Stopping # {} => ~wanted.on)
    BY <1>1, <1>2, <2>2
  <2>7. QED
    BY <1>0, <1>1, <2>2, <2>3, <2>5, <2>6, AgreesAfter
<1>6. CASE stopDiscovery(t) \/ stillPolling(t)
  <2>1. Others(t) /\ pc(t) \in Stopping /\ UNCHANGED <<nfc, payment, wanted>>
    BY <1>0, <1>6, StopPlan DEF Stopping
  <2>2. \A u \in Threads \ {t} : Undisturbed(u)
    BY <2>1, OthersUndisturbed
  <2>3. ~wanted.on
    BY <1>1, <1>2, <2>1
  <2>4. CASE ~nfc.discovery /\ Ahead(t)' = Left(t) \cap Discovering
    <3>1. /\ "pollOn" \in Ahead(t)' => wanted.on
          /\ Ahead(t)' \cap {"enableDiscovery", "disableDiscovery"} \subseteq Ahead(t)
          /\ nfc'.discovery <=> wanted.on
      BY <1>1, <1>2, <2>1, <2>3, <2>4
    <3>2. QED
      BY <1>0, <2>1, <2>2, <2>3, <3>1, AgreesAfter
  <2>5. ASSUME NEW l \in {"stillPolling", "pollOff"}, Ahead(t)' = {l} \cup (Left(t) \cap Discovering)
        PROVE  AgreesNow'
    <3>1. /\ "pollOn" \in Ahead(t)' => wanted.on
          /\ Ahead(t)' \cap {"enableDiscovery", "disableDiscovery"} \subseteq Ahead(t)
          /\ Ahead(t)' \cap Polling # {}
      BY <1>1, <1>2, <2>5 DEF Polling, Stopping
    <3>2. QED
      BY <1>0, <2>1, <2>2, <2>3, <3>1, AgreesAfter
  <2>6. QED
    BY <1>0, <1>6, <2>4, <2>5, StopPlan
<1>7. enableDiscovery(t) \/ disableDiscovery(t) \/ polling(t) \/ pollingDone(t) \/ stopDiscovery(t)
      \/ stillPolling(t)
  BY Where DEF calling, Discovering, Enabling, Stopping
<1>8. QED
  BY <1>3, <1>4, <1>5, <1>6, <1>7

LEMMA CallingOthers ==
    ASSUME Base, NEW t \in roles, calling(t), NEW u \in Threads \ {t}
    PROVE  Undisturbed(u)
<1>1. Keeping => Undisturbed(u)
  BY DEF Keeping, Undisturbed
<1>2. QED
  BY <1>1, CallingMoves, MovesOthers

(* Switching off leaves nothing to be done, and nothing put off.             *)
LEMMA UnblockWants ==
    ASSUME Base, DiscoveryPlans, AgreesNow, NEW t \in roles, unblock(t), ~wanted'.dropped
    PROVE  Ahead("service") = {} /\ Ahead("payment") = {} /\ AgreesNow'
<1>0. "service" \in Threads /\ "payment" \in Threads /\ t = "service" /\ pc("service") = "unblock"
      /\ calling("service") /\ "service" \in roles
  BY ThreadsAssumption, OnlyServiceSteps DEF calling
<1>1. "unblock" \in Todo("service")
  BY <1>0, CallingTodo DEF Todo
<1>2. Ahead("service") = {}
  BY <1>1 DEF DiscoveryPlans
<1>3. /\ payment.last = None /\ payment' = payment
      /\ ~nfc'.discovery /\ ~wanted'.on
  BY DEF unblock, features, Base, Shape, NoFlags, NothingWanted
<1>4. Ahead("payment") = {}
  BY <1>3 DEF AgreesNow, Agrees
<1>5. "unblock" \notin Discovering
  BY DEF Discovering, Enabling, Stopping
<1>6. Ahead("service")' = {}
  BY <1>0, <1>2, <1>5, AheadStays
<1>7. Ahead("payment")' = {}
  BY <1>0, <1>4, CallingOthers, UndisturbedTodo DEF Ahead
<1>8. QED
  BY <1>2, <1>3, <1>4, <1>6, <1>7 DEF AgreesNow, Agrees

(* The steps of enableThread                                                 *)
LEMMA ThreadWants ==
    ASSUME Base, DiscoveryPlans, AgreesNow, enableThread
    PROVE  AgreesNow'
<1>0. "service" \in Threads /\ "payment" \in Threads
  BY ThreadsAssumption
<1>1. /\ Ahead("service")' = Ahead("service") /\ Working("payment")
      /\ nfc' = nfc /\ wanted' = wanted
  BY <1>0, ThreadSteps, OthersTodo DEF Ahead
<1>2. "letThrough" \notin Discovering /\ "forget" \notin Discovering /\ "lastRequest" \notin Discovering
      /\ "enableDiscovery" \in Discovering /\ "disableDiscovery" \in Discovering
  BY DEF Discovering, Enabling, Stopping
<1>3. CASE /\ pc("payment") = "lastRequest" /\ payment' = payment /\ Todo("payment") = {"lastRequest"}
           /\ Working("payment")' /\ pc("payment")' = "letThrough"
  <2>1. Ahead("payment") = {}
    BY <1>2, <1>3 DEF Ahead
  <2>2. CASE payment.last = None /\ Todo("payment")' = {"letThrough", "forget"}
    <3>1. Ahead("payment")' = {}
      BY <1>2, <2>2 DEF Ahead
    <3>2. QED
      BY <1>1, <1>3, <2>1, <2>2, <3>1 DEF AgreesNow, Agrees
  <2>3. CASE payment.last = "enable" /\ Todo("payment")' = {"letThrough", "forget", "enableDiscovery"}
    <3>1. Ahead("payment")' = {"enableDiscovery"}
      BY <1>2, <2>3 DEF Ahead
    <3>2. QED
      BY <1>1, <1>3, <2>1, <2>3, <3>1, NoneAssumption DEF AgreesNow, Agrees, Stopping
  <2>4. CASE payment.last = "disable" /\ Todo("payment")' = {"letThrough", "forget", "disableDiscovery"}
    <3>1. Ahead("payment")' = {"disableDiscovery"}
      BY <1>2, <2>4 DEF Ahead
    <3>2. QED
      BY <1>1, <1>3, <2>1, <2>4, <3>1, NoneAssumption DEF AgreesNow, Agrees, Stopping
  <2>5. payment.last \in {None, "enable", "disable"}
    BY DEF Base, Shape
  <2>6. QED
    BY <1>3, <2>2, <2>3, <2>4, <2>5, NoneAssumption, ThreadSteps
<1>4. CASE /\ pc("payment") = "letThrough" /\ payment' = [payment EXCEPT !.progress = FALSE]
           /\ Working("payment")' /\ pc("payment")' # "lastRequest"
           /\ Ahead("payment")' = Ahead("payment")
  <2>1. payment'.last = payment.last
    BY <1>4 DEF Base, Shape, NoPayment
  <2>2. QED
    BY <1>1, <1>4, <2>1 DEF AgreesNow, Agrees
<1>5. CASE /\ pc("payment") = "forget" /\ payment' = NoPayment /\ Todo("payment") = {"forget"}
           /\ Todo("payment")' = {}
  <2>1. Ahead("payment") = {} /\ Ahead("payment")' = {} /\ payment'.last = None
    BY <1>2, <1>5 DEF Ahead, NoPayment
  <2>2. QED
    BY <1>1, <1>5, <2>1 DEF AgreesNow, Agrees
<1>6. QED
  BY <1>3, <1>4, <1>5, ThreadSteps

(* The RF field, during a payment                                            *)
LEMMA FieldWants ==
    ASSUME Base, DiscoveryPlans, AgreesNow, NFA_DM_RF_FIELD_EVT, ~wanted'.dropped
    PROVE  AgreesNow'
<1>0. "service" \in Threads /\ "payment" \in Threads
  BY ThreadsAssumption
<1>1. nfc' = nfc
  BY DEF NFA_DM_RF_FIELD_EVT
<1>2. /\ wanted'.on = wanted.on
      /\ \/ payment'.last = payment.last /\ (payment.progress => payment'.progress)
         \/ payment'.last = None /\ payment.last = None
  <2>1. \/ payment' = [payment EXCEPT !.state = "fieldOff"] /\ wanted' = wanted
        \/ payment' = [payment EXCEPT !.state = "start", !.progress = TRUE] /\ wanted' = wanted
        \/ payment' = [payment EXCEPT !.state = "progress"] /\ wanted' = wanted
        \/ ResetPayment
    BY DEF NFA_DM_RF_FIELD_EVT
  <2>2. CASE ResetPayment
    <3>1. /\ payment' = NoPayment
          /\ wanted' = [wanted EXCEPT !.dropped = wanted.dropped \/ payment.last # None]
      BY <2>2 DEF ResetPayment
    <3>2. wanted'.on = wanted.on /\ (wanted'.dropped <=> wanted.dropped \/ payment.last # None)
      BY <3>1 DEF Base, Shape, NothingWanted
    <3>3. QED
      BY <3>1, <3>2 DEF NoPayment
  <2>3. QED
    BY <2>1, <2>2 DEF Base, Shape, NoPayment
<1>3. CASE Begin("payment", "payment", <<"lastRequest">>)
  <2>1. /\ ~Working("payment") /\ Working("payment")' /\ Todo("payment")' = {"lastRequest"}
        /\ pc("payment")' = "lastRequest" /\ Others("payment")
    BY <1>3, BeginTodo, Plan1, NoneAssumption
  <2>3. Ahead("payment")' = {} /\ Ahead("payment") = {} /\ Ahead("service")' = Ahead("service")
    BY <1>0, <2>1, OthersTodo DEF Ahead, Todo, Discovering, Enabling, Stopping
  <2>4. QED
    BY <1>1, <1>2, <2>1, <2>3 DEF AgreesNow, Agrees
<1>4. CASE UNCHANGED thread
  <2>1. /\ Ahead("service")' = Ahead("service") /\ Ahead("payment")' = Ahead("payment")
        /\ Working("payment")' = Working("payment") /\ pc("payment")' = pc("payment")
    BY <1>4 DEF Ahead, Todo, Left, rest, Working, pc
  <2>2. QED
    BY <1>1, <1>2, <2>1 DEF AgreesNow, Agrees
<1>5. QED
  BY <1>3, <1>4 DEF NFA_DM_RF_FIELD_EVT

(* Any other step                                                            *)
LEMMA AgreesKept ==
    ASSUME Base, DiscoveryPlans, AgreesNow, nfc'.discovery = nfc.discovery, wanted'.on = wanted.on,
           payment'.last = payment.last, payment'.progress = payment.progress,
           Ahead("service")' \cap Polling = Ahead("service") \cap Polling,
           Ahead("payment")' = Ahead("payment"), Working("payment")' = Working("payment"),
           pc("payment")' = "lastRequest" <=> pc("payment") = "lastRequest"
    PROVE  AgreesNow'
BY DEF AgreesNow, Agrees, Polling

LEMMA OtherWants ==
    ASSUME Base, DiscoveryPlans, AgreesNow, Next, ~NFA_DM_NFCC_TRANSPORT_ERR_EVT, ~enableThread,
           ~NFA_DM_RF_FIELD_EVT, \A t \in roles : calling(t) => pc(t) \notin Discovering /\ ~unblock(t)
    PROVE  AgreesNow'
<1>0. "service" \in Threads /\ "payment" \in Threads /\ ThreadsOk
  BY ThreadsAssumption DEF Base, Shape
<1>1. ASSUME NEW t \in roles, calling(t) PROVE AgreesNow'
  <2>1. pc(t) \notin Discovering /\ ~unblock(t)
    BY <1>1
  <2>2. ~enableDiscovery(t) /\ ~disableDiscovery(t) /\ pc(t) \notin {"pollOn", "pollOff"}
    BY <2>1, Where DEF Discovering, Enabling, Stopping
  <2>3. nfc'.discovery = nfc.discovery /\ wanted'.on = wanted.on /\ payment' = payment
    BY <1>1, <2>1, <2>2, CallingDiscovery DEF Base
  <2>4. ASSUME NEW u \in {"service", "payment"} PROVE Ahead(u)' = Ahead(u)
    BY <1>0, <1>1, <2>1, <2>4, AheadStays, CallingOthers, UndisturbedTodo DEF Ahead
  <2>5. /\ Working("payment")' = Working("payment")
        /\ pc("payment")' = "lastRequest" <=> pc("payment") = "lastRequest"
    <3>1. CASE t = "payment"
      BY <1>1, <3>1, PaymentCalls DEF Working
    <3>2. CASE t # "payment"
      <4>1. Undisturbed("payment")
        BY <1>0, <1>1, <3>2, CallingOthers
      <4>2. QED
        BY <4>1, UndisturbedTodo DEF Undisturbed
    <3>3. QED
      BY <3>1, <3>2
  <2>6. Ahead("service")' = Ahead("service") /\ Ahead("payment")' = Ahead("payment")
    BY <2>4
  <2>7. QED
    BY <2>3, <2>5, <2>6, AgreesKept
<1>2. CASE ~\E t \in roles : calling(t)
  <2>1. /\ nfc'.discovery = nfc.discovery /\ wanted'.on = wanted.on
        /\ payment'.last = payment.last /\ payment'.progress = payment.progress
    BY <1>2, DiscoveryFrame DEF Base
  <2>2. Undisturbed("payment")
    BY <1>0, <1>2, StepsOf DEF StepOf
  <2>3. /\ Ahead("payment")' = Ahead("payment") /\ Working("payment")' = Working("payment")
        /\ pc("payment")' = pc("payment")
    BY <2>2, UndisturbedTodo DEF Ahead, Undisturbed
  <2>4. Ahead("service")' \cap Polling = Ahead("service") \cap Polling
    <3>1. CASE Undisturbed("service")
      BY <3>1, UndisturbedTodo DEF Ahead
    <3>2. CASE Starts("service")
      <4>1. PICK op, plan : /\ IsSeq(plan) /\ plan # <<>> /\ PlanOk(op, plan)
                            /\ ~Working("service") /\ Todo("service")' = Elems(plan)
        BY <3>2, StartTodo
      <4>2. Elems(plan) = {Head(plan)} \cup Elems(Tail(plan))
        BY <4>1, HeadTailElems
      <4>3. ASSUME Elems(plan) \cap Discovering # {}
            PROVE  Elems(plan) \subseteq {"enableDiscovery", "disableDiscovery"}
        <5>1. Tail(plan) = <<>> /\ Head(plan) \in {"enableDiscovery", "disableDiscovery"}
          BY <4>1, <4>3 DEF PlanOk
        <5>2. Elems(Tail(plan)) = {}
          BY <5>1, Plan0
        <5>3. QED
          BY <4>2, <5>1, <5>2
      <4>4. Elems(plan) \cap Discovering \cap Polling = {}
        BY <4>3 DEF Polling, Stopping
      <4>5. QED
        BY <4>1, <4>4 DEF Ahead, Todo
    <3>3. QED
      BY <1>2, <3>1, <3>2, ServiceMoves
  <2>5. QED
    BY <2>1, <2>3, <2>4, AgreesKept
<1>3. QED
  BY <1>1, <1>2

(* Who waits for polling to start or to stop is not overtaken.               *)
LEMMA AsleepStep ==
    ASSUME Ground, DiscoveryPlans, AgreesNow, AsleepPolling, Next, ~wanted'.dropped,
           ~wanted'.refused, NEW u \in {"service", "payment"}, thread'[u].st # "runs",
           pc(u)' \in {"pollOn", "pollOff"}
    PROVE  nfc'.discovery <=> pc(u)' = "pollOn"
<1>0. u \in Threads /\ Base /\ Shape /\ (pc(u) # "idle" => Working(u))
  BY ThreadsAssumption DEF Ground, Base, Home, HomeIn
<1>r. ~NFA_DM_NFCC_TRANSPORT_ERR_EVT
  BY <1>0, ResetTodo DEF Idle
<1>1. CASE FallsAsleep(u) /\ StepOf(u)
  <2>1. /\ pc(u)' = pc(u) /\ thread[u].st = "runs" /\ Working(u)' = Working(u) /\ Working(u)
    BY <1>0, <1>1, UndisturbedTodo DEF FallsAsleep, Undisturbed
  <2>2. ~Starts(u)
    BY <1>0, <2>1, StartTodo
  <2>3. pc(u) \notin {"lastRequest", "letThrough", "forget"}
    BY <2>1
  <2>4. u = "payment" => ~enableThread /\ ~Begin("payment", "payment", <<"lastRequest">>)
    BY <1>0, <2>1, <2>3, ThreadSteps DEF Begin
  <2>5. u \in roles /\ calling(u)
    BY <1>1, <2>2, <2>4 DEF StepOf
  <2>6. polling(u) \/ pollingDone(u)
    BY <2>1, <2>5, Where DEF calling
  <2>7. ~pollingDone(u)
    BY <1>0, <2>1, <2>5, AnsweredPlan
  <2>8. QED
    BY <1>0, <2>1, <2>5, <2>6, <2>7, PollingAhead
<1>2. CASE Undisturbed(u) /\ thread[u].st # "runs"
  <2>1. pc(u)' = pc(u) /\ Working(u) /\ pc(u) \in Ahead(u)
    BY <1>0, <1>2 DEF Undisturbed, Ahead, Todo, Discovering, Enabling, Stopping
  <2>2. nfc.discovery <=> pc(u) = "pollOn"
    BY <1>2, <2>1 DEF AsleepPolling, Asleep
  <2>3. wanted.on <=> pc(u) = "pollOn"
    BY <2>1 DEF AgreesNow, Agrees, Stopping
  <2>4. ASSUME NEW t \in roles, calling(t), nfc'.discovery # nfc.discovery
        PROVE  nfc'.discovery <=> pc(u) = "pollOn"
    <3>1. ~unblock(t)
      BY <1>0, <2>1, <2>4, UnblockWants
    <3>2. polling(t) /\ pc(t) \in {"pollOn", "pollOff"}
      BY <1>0, <2>4, <3>1, CallingDiscovery
    <3>3. t \in Threads /\ Working(t) /\ pc(t) \in Ahead(t)
      BY <1>0, <2>4, <3>2, CallingTodo DEF Ahead, Todo, Discovering, Enabling, Stopping
    <3>4. t \in {"service", "payment"}
      BY <1>0, <3>3 DEF Base, Home, HomeIn, HomeOf, Ahead
    <3>5. wanted.on <=> pc(t) = "pollOn"
      BY <3>2, <3>3, <3>4 DEF AgreesNow, Agrees, Stopping
    <3>6. nfc'.discovery <=> pc(t) = "pollOn"
      BY <1>0, <3>2, <3>4, PollingAhead
    <3>7. QED
      BY <2>3, <3>5, <3>6
  <2>5. CASE nfc'.discovery = nfc.discovery
    BY <2>1, <2>2, <2>5
  <2>6. QED
    BY <1>0, <1>r, <2>1, <2>4, <2>5, DiscoveryFrame
<1>3. QED
  BY <1>0, <1>1, <1>2, <1>r, Fate DEF Ground, Roused

LEMMA DiscoveryTypes ==
    ASSUME Shape, Next, nfc.discovery \in BOOLEAN, wanted.on \in BOOLEAN
    PROVE  nfc'.discovery \in BOOLEAN /\ wanted'.on \in BOOLEAN
<1>1. CASE NFA_DM_NFCC_TRANSPORT_ERR_EVT
  BY <1>1 DEF NFA_DM_NFCC_TRANSPORT_ERR_EVT, NoFlags, NothingWanted
<1>2. ASSUME NEW t \in roles, calling(t) PROVE nfc'.discovery \in BOOLEAN /\ wanted'.on \in BOOLEAN
  <2>1. CASE unblock(t)
    BY <2>1 DEF unblock, Shape, NoFlags, NothingWanted
  <2>2. CASE enableDiscovery(t) \/ disableDiscovery(t)
    <3>1. nfc' = nfc
      BY <2>2 DEF enableDiscovery, disableDiscovery
    <3>2. wanted'.on = wanted.on \/ wanted'.on \in BOOLEAN
      <4>1. ASSUME NEW on \in BOOLEAN, Wants(t, on) PROVE wanted'.on = wanted.on \/ wanted'.on \in BOOLEAN
        BY <4>1 DEF Wants, Shape, NothingWanted
      <4>2. QED
        BY <2>2, <4>1 DEF enableDiscovery, disableDiscovery
    <3>3. QED
      BY <3>1, <3>2
  <2>3. CASE polling(t)
    <3>1. PICK l \in DOMAIN Polls :
             nfc' = nfc \/ nfc' = [nfc EXCEPT !.discovery = Polls[l]]
      BY <2>3 DEF polling, Refused
    <3>2. Polls[l] \in BOOLEAN
      <4>1. /\ Polls["pollOn"] = TRUE /\ Polls["pollOff"] = FALSE
            /\ Polls["startPolling"] = TRUE /\ Polls["stopPolling"] = FALSE
            /\ Polls["repoll"] = FALSE
        BY DEF Polls
      <4>2. l \in {"pollOn", "pollOff", "startPolling", "stopPolling", "repoll"}
        BY DEF Polls
      <4>3. QED
        BY <4>1, <4>2
    <3>3. wanted'.on = wanted.on
      BY <2>3 DEF polling, Refused, Shape, NothingWanted
    <3>4. QED
      BY <3>1, <3>2, <3>3 DEF Shape, NoFlags
  <2>4. QED
    BY <1>2, <2>1, <2>2, <2>3, CallingDiscovery
<1>3. QED
  BY <1>1, <1>2, DiscoveryFrame

LEMMA DiscoveryStep == ASSUME Ground, DiscoveryInv, Next PROVE DiscoveryInv'
<1>0. Base /\ Shape /\ nfc'.discovery \in BOOLEAN /\ wanted'.on \in BOOLEAN /\ DiscoveryPlans'
  BY DiscoveryTypes, DiscoveryPlansStep DEF Ground, Base, DiscoveryInv
<1>1. CASE NFA_DM_NFCC_TRANSPORT_ERR_EVT
  <2>1. \A u \in {"service", "payment"} :
           ~Working(u)' /\ Todo(u)' = {} /\ thread'[u].st = "runs"
    BY <1>1, ThreadsAssumption, ResetTodo DEF Idle
  <2>2. ~nfc'.discovery /\ ~wanted'.on /\ payment'.last = None
    BY <1>1 DEF NFA_DM_NFCC_TRANSPORT_ERR_EVT, NoFlags, NothingWanted, NoPayment
  <2>3. AsleepPolling'
    BY <2>1 DEF AsleepPolling, Asleep
  <2>4. Ahead("service")' = {} /\ Ahead("payment")' = {}
    BY <2>1 DEF Ahead
  <2>5. AgreesNow'
    BY <2>2, <2>4 DEF AgreesNow, Agrees
  <2>6. QED
    BY <1>0, <2>3, <2>5 DEF DiscoveryInv
<1>2. CASE ~NFA_DM_NFCC_TRANSPORT_ERR_EVT /\ ~wanted'.dropped /\ ~wanted'.refused
  <2>1. ~wanted.dropped /\ ~wanted.refused
    BY <1>0, <1>2, CallingDiscovery, DiscoveryFrame
  <2>2. DiscoveryPlans /\ AsleepPolling /\ AgreesNow
    BY <2>1 DEF DiscoveryInv
  <2>3. AsleepPolling'
    <3>1. ASSUME NEW u \in {"service", "payment"}, thread'[u].st # "runs"
          PROVE  (pc(u)' = "pollOn" => nfc'.discovery) /\ (pc(u)' = "pollOff" => ~nfc'.discovery)
      BY <1>2, <2>2, <3>1, AsleepStep
    <3>2. QED
      BY <3>1 DEF AsleepPolling, Asleep
  <2>4. AgreesNow'
    <3>1. ASSUME NEW t \in roles, calling(t), pc(t) \in Discovering PROVE AgreesNow'
      BY <1>0, <1>2, <2>2, <3>1, DiscoveringStep
    <3>2. ASSUME NEW t \in roles, unblock(t) PROVE AgreesNow'
      BY <1>0, <1>2, <2>2, <3>2, UnblockWants
    <3>3. CASE enableThread
      BY <1>0, <2>2, <3>3, ThreadWants
    <3>4. CASE NFA_DM_RF_FIELD_EVT
      BY <1>0, <1>2, <2>2, <3>4, FieldWants
    <3>5. QED
      BY <1>0, <1>2, <2>2, <3>1, <3>2, <3>3, <3>4, OtherWants
  <2>5. QED
    BY <1>0, <2>3, <2>4 DEF DiscoveryInv
<1>3. CASE wanted'.dropped \/ wanted'.refused
  BY <1>0, <1>3 DEF DiscoveryInv
<1>4. QED
  BY <1>1, <1>2, <1>3

LEMMA DiscoveryInit == Init => DiscoveryInv
<1> SUFFICES ASSUME Init PROVE DiscoveryInv
  OBVIOUS
<1>1. \A u \in {"service", "payment"} : thread[u] = Idle(NoCall)
  BY ThreadsAssumption DEF Init
<1>2. \A u \in {"service", "payment"} :
         pc(u) = "idle" /\ rest(u) = <<>> /\ ~Working(u) /\ thread[u].st = "runs"
  BY <1>1 DEF pc, rest, Idle, NoCall, Working
<1>3. \A u \in {"service", "payment"} : Todo(u) = {} /\ Ahead(u) = {} /\ ~Asleep(u)
  BY <1>2 DEF Todo, Ahead, Asleep
<1>4. nfc.discovery = FALSE /\ wanted.on = FALSE /\ payment.last = None
  BY DEF Init, NoFlags, NothingWanted, NoPayment
<1>5. DiscoveryPlans
  BY <1>2, <1>3 DEF DiscoveryPlans, Final
<1>6. AsleepPolling
  BY <1>3 DEF AsleepPolling
<1>7. AgreesNow
  BY <1>3, <1>4 DEF AgreesNow, Agrees
<1>8. QED
  BY <1>4, <1>5, <1>6, <1>7 DEF DiscoveryInv

LEMMA DiscoveryStutter == DiscoveryInv /\ UNCHANGED vars => DiscoveryInv'
BY DEF DiscoveryInv, DiscoveryPlans, AsleepPolling, AgreesNow, Agrees, Ahead, Final, Todo, Left,
       rest, Working, Asleep, pc, vars

\* Discovery is on or off as the service asked for last, also when a payment
\* put its request off, unless it asked while enableThread was at work.
THEOREM WantedCorrect == Spec => []DiscoveryAsWanted
<1>1. Init => Ground /\ DiscoveryInv
  BY GroundInit, DiscoveryInit
<1>2. Ground /\ DiscoveryInv /\ [Next]_vars => (Ground /\ DiscoveryInv)'
  BY GroundStep, GroundStutter, DiscoveryStep, DiscoveryStutter
<1>3. Ground /\ DiscoveryInv => DiscoveryAsWanted
  <2> SUFFICES ASSUME Ground, DiscoveryInv, nfc.enabled, Quiet, ~payment.progress,
                      ~wanted.dropped, ~wanted.refused
               PROVE  nfc.discovery = wanted.on
    BY DEF DiscoveryAsWanted
  <2>1. \A u \in {"service", "payment"} : ~Working(u) /\ Ahead(u) = {}
    BY ThreadsAssumption DEF Quiet, Ahead, Todo
  <2>2. nfc.discovery <=> wanted.on
    BY <2>1 DEF DiscoveryInv, AgreesNow, Agrees
  <2>3. QED
    BY <2>2 DEF DiscoveryInv
<1>4. QED
  BY <1>1, <1>2, <1>3, PTL DEF Spec

-----------------------------------------------------------------------------
(* The Java object of a tag *)

(* What TagIsTheActiveTarget says of the object n of target t. *)
Describes(n, t) ==
    /\ DOMAIN n.techs = 0..(Len(Technologies(t)) - 1)
    /\ \A i \in DOMAIN n.techs :
          LET e == n.techs[i]
          IN  /\ e.tech = Technologies(t)[i + 1]
              /\ e.handle = t.id /\ e.type = t.protocol
              /\ OfTarget(t, e.poll) /\ OfTarget(t, e.act)
    /\ OfTarget(t, n.uid)

LEMMA TechnologiesLength ==
    ASSUME NEW t
    PROVE  \/ \E a : Technologies(t) = <<a>>
           \/ \E a, b : Technologies(t) = <<a, b>>
BY DEF Technologies

LEMMA RoomForTwo == MaxTech \in Nat /\ MaxTech >= 2
<1>1. MaxTech \in Nat \ {0, 1}
  BY NfcTagAssumption
<1>2. QED
  BY <1>1

LEMMA TechnologiesFit ==
    ASSUME NEW t
    PROVE  Len(Technologies(t)) \in 1..2 /\ Len(Technologies(t)) <= MaxTech
<1>1. Len(Technologies(t)) \in 1..2
  BY TechnologiesLength
<1>2. \A n \in 1..2 : n <= MaxTech
  BY RoomForTwo
<1>3. QED
  BY <1>1, <1>2

(* The bytes of an entry are those of the target it was made from. *)
LEMMA BytesOfTarget ==
    ASSUME NEW t \in Targets, t.mode # "LISTEN_A", NEW tech, NEW e, e = Entry(tech, t)
    PROVE  OfTarget(t, PollBytes(e, t)) /\ OfTarget(t, ActBytes(e, t))
<1>1. e.params = t /\ e.tech = tech /\ e.protocol = t.protocol
  BY DEF Entry
<1>2. OfTarget(t, <<>>) /\ \A a : OfTarget(t, <<a, t>>) /\ OfTarget(t, <<a, t, t>>)
  BY DEF OfTarget
<1>3. OfTarget(t, PollBytes(e, t))
  BY <1>1, <1>2 DEF PollBytes
<1>4. OfTarget(t, ActBytes(e, t))
  BY <1>1, <1>2 DEF ActBytes
<1>5. QED
  BY <1>3, <1>4

(* An activation makes the object from nothing but the target: the arrays   *)
(* are filled from the start, and only what was filled is read.             *)
LEMMA ActivationDescribes ==
    ASSUME NEW t \in Targets, t.mode # "LISTEN_A", NEW l
    PROVE  Describes(createNativeNfcTag(DiscoverActivated(l, t), t), t)
<1> DEFINE techs == Technologies(t)
           m == DiscoverActivated(l, t)
           n == createNativeNfcTag(m, t)
<1>1. Len(techs) \in 1..2 /\ Len(techs) <= MaxTech /\ MaxTech \in Nat
  BY TechnologiesFit, RoomForTwo
<1>2. m.num = Len(techs)
  BY <1>1 DEF DiscoverActivated, WithTechs
<1>3. \A i \in 0..(Len(techs) - 1) : i \in Indices /\ m.at[i] = Entry(techs[i + 1], t)
  BY <1>1 DEF DiscoverActivated, WithTechs, Indices
<1> HIDE DEF m
<1>4. Listed(m) = 0..(Len(techs) - 1)
  BY <1>1, <1>2 DEF Listed, Indices
<1>5. n.techs = TechMembers(m, t) /\ n.uid = Uid(m, t)
  BY DEF createNativeNfcTag
<1>6. DOMAIN n.techs = 0..(Len(techs) - 1)
  BY <1>4, <1>5 DEF TechMembers
<1>7. ASSUME NEW i \in DOMAIN n.techs
      PROVE  /\ n.techs[i].tech = techs[i + 1]
             /\ n.techs[i].handle = t.id /\ n.techs[i].type = t.protocol
             /\ OfTarget(t, n.techs[i].poll) /\ OfTarget(t, n.techs[i].act)
  <2>1. m.at[i] = Entry(techs[i + 1], t)
    BY <1>3, <1>6, <1>7
  <2>2. /\ n.techs[i].tech = m.at[i].tech /\ n.techs[i].handle = m.at[i].id
        /\ n.techs[i].type = m.at[i].protocol
        /\ n.techs[i].poll = PollBytes(m.at[i], t) /\ n.techs[i].act = ActBytes(m.at[i], t)
    BY <1>4, <1>5, <1>6, <1>7 DEF TechMembers
  <2>3. m.at[i].tech = techs[i + 1] /\ m.at[i].id = t.id /\ m.at[i].protocol = t.protocol
    BY <2>1 DEF Entry
  <2>4. QED
    BY <2>1, <2>2, <2>3, BytesOfTarget
<1>8. OfTarget(t, n.uid)
  <2>1. m.at[0].params = t
    <3>1. 0 \in 0..(Len(techs) - 1)
      BY <1>1
    <3>2. m.at[0] = Entry(techs[0 + 1], t)
      BY <1>3, <3>1
    <3>3. QED
      BY <3>2 DEF Entry
  <2>2. t.mode \in Modes
    BY NfcTagAssumption
  <2>3. \A a : OfTarget(t, <<a, t>>)
    BY DEF OfTarget
  <2>4. QED
    BY <1>5, <2>1, <2>2, <2>3 DEF Uid, Modes, TechA
<1> HIDE DEF n
<1>9. Describes(n, t)
  BY <1>6, <1>7, <1>8 DEF Describes
<1>10. QED
  BY <1>9 DEF n, m

(* A description is only held while a tag is active: mProtocol is cleared   *)
(* with the tag, and what a peer or a card activates leaves it so.          *)
ObjectInv ==
    /\ rf # "active" => mProtocol = Absent
    /\ rf = "active" /\ mProtocol # Absent =>
           mProtocol = target.protocol /\ Describes(nativeTag, target)

LEMMA ObjectStep == ASSUME ObjectInv, TagNext PROVE ObjectInv'
<1>1. ASSUME NEW t \in Targets, NEW more \in BOOLEAN, DiscResult(t, more) PROVE ObjectInv'
  <2>1. rf = "discovery" /\ rf' # "active" /\ mProtocol' = mProtocol
    BY <1>1 DEF DiscResult, handleRfDiscoveryEvent, Select, tagVars
  <2>2. QED
    BY <2>1 DEF ObjectInv
<1>2. ASSUME NEW t \in Targets, Activated(t) PROVE ObjectInv'
  <2>1. rf # "active" /\ mProtocol = Absent /\ target' = t
    BY <1>2 DEF Activated, MayActivate, ObjectInv
  <2>2. CASE ActivatedP2p(t)
    BY <2>1, <2>2 DEF ActivatedP2p, ObjectInv
  <2>3. CASE ActivatedTag(t) /\ mProtocol' = mProtocol
    BY <2>1, <2>3 DEF ActivatedTag, ObjectInv
  <2>4. CASE ActivatedTag(t) /\ mProtocol' # mProtocol
    <3>1. /\ rf' = "active" /\ t.mode # "LISTEN_A" /\ mProtocol' = t.protocol
          /\ nativeTag' = createNativeNfcTag(DiscoverActivated(list, t), t)
      BY <2>4 DEF ActivatedTag
    <3>2. QED
      BY <2>1, <3>1, ActivationDescribes DEF ObjectInv
  <2>5. QED
    BY <1>2, <2>2, <2>3, <2>4 DEF Activated
<1>3. CASE SelectFailed \/ Deactivated \/ Restart \/ KovioForgotten \/ SetReaderMode
  BY <1>3 DEF SelectFailed, Deactivated, Restart, KovioForgotten, SetReaderMode, ObjectInv, tagVars,
     rfVars
<1>4. QED
  BY <1>1, <1>2, <1>3 DEF TagNext

(* The Java object describes the tag that was activated and nothing else,   *)
(* whatever results and tags the arrays held before.                        *)
THEOREM ObjectCorrect == TagSpec => []TagIsTheActiveTarget
<1>1. TagInit => ObjectInv
  BY DEF TagInit, ObjectInv
<1>2. ObjectInv /\ [TagNext]_allTagVars => ObjectInv'
  <2>1. ObjectInv /\ UNCHANGED allTagVars => ObjectInv'
    BY DEF ObjectInv, allTagVars, tagVars, rfVars
  <2>2. QED
    BY <2>1, ObjectStep
<1>3. ObjectInv => TagIsTheActiveTarget
  BY DEF ObjectInv, TagIsTheActiveTarget, Describes
<1>4. QED
  BY <1>1, <1>2, <1>3, PTL DEF TagSpec

-----------------------------------------------------------------------------
(* The choice among several targets *)

(* A list of what was found: every entry is one of the targets, except the   *)
(* name that MIFARE leaves after its own, and every target has an entry.     *)
Of(e, t) == e.params = t /\ e.id = t.id /\ e.protocol = t.protocol
Holds(l, S) ==
    /\ l.num \in Nat /\ DOMAIN l = {"num", "at"}
    /\ \A i \in Indices : i < l.num =>
           \/ \E t \in S : Of(l.at[i], t)
           \/ l.at[i].protocol = "none" /\ i > 0 /\ l.at[i - 1].protocol = "MIFARE"
    /\ \A t \in S : \E i \in Indices : i < l.num /\ Of(l.at[i], t)
    /\ \A i \in Indices : i >= l.num => l.at[i].protocol = "none"

LEMMA ResultListed ==
    ASSUME NEW S, NEW l, Holds(l, S), NEW t, l.num + 2 <= MaxTech
    PROVE  LET m == DiscoverResult(l, t)
           IN  Holds(m, S \cup {t}) /\ m.num > l.num /\ m.num <= l.num + 2
<1> DEFINE m == DiscoverResult(l, t)
           n == l.num
           techs == IF t.protocol \in {"T3BT", "KOVIO"} THEN <<"UNKNOWN">> ELSE Technologies(t)
<1>0. n \in Nat /\ n + 2 <= MaxTech /\ MaxTech \in Nat /\ n \in Indices /\ n + 1 \in Indices
  BY RoomForTwo DEF Holds, Indices
<1>1. Len(techs) \in 1..2
  BY TechnologiesLength
(* What is appended is one or two entries of t, or an entry and a name. *)
<1>2. /\ DOMAIN m = {"num", "at"} /\ m.num \in (n + 1)..(n + 2)
      /\ \A i \in Indices : i < n \/ i >= m.num => m.at[i] = l.at[i]
      /\ Of(m.at[n], t)
      /\ m.num = n + 2 => \/ Of(m.at[n + 1], t)
                          \/ t.protocol = "MIFARE" /\ m.at[n + 1].protocol = l.at[n + 1].protocol
  <2>1. CASE t.protocol = "MIFARE"
    <3>1. m = [num |-> n + 2,
               at |-> [i \in Indices |->
                         IF i = n THEN Entry("MIFARE_CLASSIC", t)
                         ELSE IF i = n + 1 THEN [l.at[i] EXCEPT !.tech = "NFC_A"]
                         ELSE l.at[i]]]
      BY <1>0, <2>1 DEF DiscoverResult
    <3>2. [l.at[n + 1] EXCEPT !.tech = "NFC_A"].protocol = l.at[n + 1].protocol
      OBVIOUS
    <3>3. m.at[n] = Entry("MIFARE_CLASSIC", t) /\ m.at[n + 1].protocol = l.at[n + 1].protocol
      BY <1>0, <3>1, <3>2
    <3>4. \A i \in Indices : i < n \/ i >= n + 2 => m.at[i] = l.at[i]
      BY <1>0, <3>1 DEF Indices
    <3>5. QED
      BY <1>0, <2>1, <3>1, <3>3, <3>4 DEF Of, Entry
  <2>2. CASE t.protocol # "MIFARE"
    <3>0. PICK k \in 1..2 : k = Len(techs)
      BY <1>1
    <3>1. m = WithTechs(l, n, techs, t)
      BY <1>0, <2>2 DEF DiscoverResult
    <3>2. m.num = n + k /\ DOMAIN m = {"num", "at"}
      BY <3>0, <3>1 DEF WithTechs
    <3>3. \A i \in Indices : m.at[i] = IF i \in n..(n + k - 1) THEN Entry(techs[i - n + 1], t)
                                       ELSE l.at[i]
      BY <3>0, <3>1 DEF WithTechs
    <3> HIDE DEF m, techs
    <3>4. \A tech : Of(Entry(tech, t), t)
      BY DEF Of, Entry
    <3>5. n \in n..(n + k - 1) /\ (k = 2 => n + 1 \in n..(n + k - 1))
      BY <1>0, <1>1
    <3>6. \A i \in Indices : i < n \/ i >= n + k => i \notin n..(n + k - 1)
      BY <1>0, <1>1
    <3>7. Of(m.at[n], t) /\ (k = 2 => Of(m.at[n + 1], t))
      BY <1>0, <3>3, <3>4, <3>5
    <3>8. \A i \in Indices : i < n \/ i >= m.num => m.at[i] = l.at[i]
      BY <3>2, <3>3, <3>6
    <3>9. m.num \in (n + 1)..(n + 2) /\ (m.num = n + 2 => k = 2)
      BY <1>0, <1>1, <3>2
    <3>10. QED
      BY <3>2, <3>7, <3>8, <3>9
  <2>3. QED
    BY <2>1, <2>2
<1> HIDE DEF m
<1>3. \A i \in Indices : i < m.num =>
           \/ \E u \in S \cup {t} : Of(m.at[i], u)
           \/ m.at[i].protocol = "none" /\ i > 0 /\ m.at[i - 1].protocol = "MIFARE"
  <2> SUFFICES ASSUME NEW i \in Indices, i < m.num
               PROVE  \/ \E u \in S \cup {t} : Of(m.at[i], u)
                      \/ m.at[i].protocol = "none" /\ i > 0 /\ m.at[i - 1].protocol = "MIFARE"
    OBVIOUS
  <2>1. CASE i < n
    <3>1. m.at[i] = l.at[i] /\ (i > 0 => i - 1 \in Indices /\ m.at[i - 1] = l.at[i - 1])
      BY <1>0, <1>2, <2>1 DEF Indices
    <3>2. QED
      BY <2>1, <3>1 DEF Holds
  <2>2. CASE i = n
    BY <1>2, <2>2
  <2>3. CASE i = n + 1
    <3>1. l.at[n + 1].protocol = "none"
      BY <1>0 DEF Holds
    <3>2. m.num = n + 2
      BY <1>0, <1>2, <2>3 DEF Indices
    <3>3. QED
      BY <1>0, <1>2, <2>3, <3>1, <3>2 DEF Of
  <2>4. QED
    BY <1>0, <1>2, <2>1, <2>2, <2>3 DEF Indices
<1>4. \A u \in S \cup {t} : \E i \in Indices : i < m.num /\ Of(m.at[i], u)
  <2>1. ASSUME NEW u \in S PROVE \E i \in Indices : i < m.num /\ Of(m.at[i], u)
    <3>1. PICK i \in Indices : i < n /\ Of(l.at[i], u)
      BY DEF Holds
    <3>2. m.at[i] = l.at[i] /\ i < m.num
      BY <1>0, <1>2, <3>1 DEF Indices
    <3>3. QED
      BY <3>1, <3>2
  <2>2. n < m.num
    BY <1>0, <1>2
  <2>3. QED
    BY <1>0, <1>2, <2>1, <2>2
<1>5. \A i \in Indices : i >= m.num => m.at[i].protocol = "none"
  <2>1. \A i \in Indices : i >= m.num => i >= n
    BY <1>0, <1>2 DEF Indices
  <2>2. QED
    BY <1>2, <2>1 DEF Holds
<1>6. Holds(m, S \cup {t})
  BY <1>0, <1>2, <1>3, <1>4, <1>5 DEF Holds
<1>7. QED
  BY <1>0, <1>2, <1>6 DEF m

(* A set of numbers has a least one. *)
LEMMA FirstExists ==
    ASSUME NEW S, S \subseteq Nat, S # {}
    PROVE  First(S) \in S /\ \A j \in S : First(S) <= j
<1>1. PICK i \in S : \A j \in S : ~(<<j, i>> \in OpToRel(<, Nat))
  BY WFMin, NatLessThanWellFounded
<1>2. ASSUME NEW j \in S, j < i PROVE FALSE
  <2>1. <<j, i>> \in OpToRel(<, Nat)
    BY <1>2 DEF OpToRel
  <2>2. QED
    BY <1>1, <2>1
<1>3. \A j \in S : i <= j
  BY <1>2
<1>4. QED
  BY <1>3 DEF First

(* Each choice, where it is one, is of a target that was found. *)
LEMMA P2pChosen ==
    ASSUME NEW S, NEW l, Holds(l, S), P2pChoice(l) # Blank
    PROVE  \E t \in S : /\ Of(P2pChoice(l), t) /\ t.protocol = "NFC_DEP"
                        /\ t.mode = "POLL_F" \/ ~\E p \in S : p.protocol = "NFC_DEP" /\ p.mode = "POLL_F"
<1> DEFINE ofMode(m) == {i \in P2pEntries(l) : l.at[i].params.mode = m}
           C == IF ofMode("POLL_F") # {} THEN ofMode("POLL_F") ELSE ofMode("POLL_A")
<1>1. P2pChoice(l) = FirstOf(l, C)
  BY DEF P2pChoice
<1>2. C # {} /\ P2pChoice(l) = l.at[First(C)]
  BY <1>1 DEF FirstOf
<1>3. C \subseteq Indices /\ C \subseteq Nat
  BY RoomForTwo DEF P2pEntries, Listed, Indices
<1>4. First(C) \in C
  BY <1>2, <1>3, FirstExists
<1>5. PICK i \in C : i = First(C)
  BY <1>4
<1>6. i \in Indices /\ i < l.num /\ l.at[i].protocol = "NFC_DEP"
  BY <1>5 DEF P2pEntries, Listed
<1>7. PICK t \in S : Of(l.at[i], t)
  BY <1>6 DEF Holds
<1>8. ASSUME ofMode("POLL_F") # {} PROVE t.mode = "POLL_F"
  BY <1>5, <1>7, <1>8 DEF Of
<1>9. ASSUME NEW p \in S, p.protocol = "NFC_DEP", p.mode = "POLL_F" PROVE ofMode("POLL_F") # {}
  <2>1. PICK j \in Indices : j < l.num /\ Of(l.at[j], p)
    BY <1>9 DEF Holds
  <2>2. j \in ofMode("POLL_F")
    BY <1>9, <2>1 DEF P2pEntries, Listed, Of
  <2>3. QED
    BY <2>2
<1>10. QED
  BY <1>2, <1>5, <1>6, <1>7, <1>8, <1>9 DEF Of

LEMMA TagChosen ==
    ASSUME NEW S, NEW l, Holds(l, S), TagChoice(l) # Blank
    PROVE  \E t \in S : Of(TagChoice(l), t) /\ t.protocol # "NFC_DEP"
<1> DEFINE C == {i \in Listed(l) : l.at[i].protocol # "NFC_DEP"}
<1>1. C # {} /\ TagChoice(l) = l.at[First(C)]
  BY DEF TagChoice, FirstOf
<1>2. C \subseteq Indices /\ C \subseteq Nat
  BY RoomForTwo DEF Listed, Indices
<1>3. PICK i \in C : i = First(C) /\ \A j \in C : i <= j
  BY <1>1, <1>2, FirstExists
<1>4. i \in Indices /\ i < l.num /\ l.at[i].protocol # "NFC_DEP"
  BY <1>3 DEF Listed
<1>5. ~(i > 0 /\ l.at[i - 1].protocol = "MIFARE")
  <2>1. ASSUME i > 0, l.at[i - 1].protocol = "MIFARE" PROVE FALSE
    <3>1. i - 1 \in Indices /\ i - 1 < l.num
      BY <1>4, <2>1, RoomForTwo DEF Indices, Holds
    <3>2. i - 1 \in C
      BY <2>1, <3>1 DEF Listed
    <3>3. i \in Nat /\ i <= i - 1
      BY <1>2, <1>3, <3>2
    <3>4. QED
      BY <3>3
  <2>2. QED
    BY <2>1
<1>6. PICK t \in S : Of(l.at[i], t)
  BY <1>4, <1>5 DEF Holds
<1>7. QED
  BY <1>1, <1>3, <1>4, <1>6 DEF Of

LEMMA PeerListed ==
    ASSUME NEW S, NEW l, Holds(l, S)
    PROVE  isP2pDiscovered(l) <=> \E p \in S : p.protocol = "NFC_DEP"
<1>1. ASSUME NEW p \in S, p.protocol = "NFC_DEP" PROVE isP2pDiscovered(l)
  <2>1. PICK j \in Indices : j < l.num /\ Of(l.at[j], p)
    BY DEF Holds
  <2>2. j \in P2pEntries(l)
    BY <1>1, <2>1 DEF P2pEntries, Listed, Of
  <2>3. QED
    BY <2>2 DEF isP2pDiscovered
<1>2. ASSUME isP2pDiscovered(l) PROVE \E p \in S : p.protocol = "NFC_DEP"
  <2>1. PICK i \in Indices : i < l.num /\ l.at[i].protocol = "NFC_DEP"
    BY <1>2 DEF isP2pDiscovered, P2pEntries, Listed
  <2>2. QED
    BY <2>1 DEF Holds, Of
<1>3. QED
  BY <1>1, <1>2

(* What a round has listed, if it began with an emptied list and there is   *)
(* room for two entries of every target.                                    *)
RoundInv ==
    /\ IsFiniteSet(found) /\ stale \in BOOLEAN
    /\ rf \in {"discovery", "waiting"} /\ list.num = 0 =>
           DOMAIN list = {"num", "at"} /\ \A i \in Indices : list.at[i].protocol = "none"
    /\ rf = "discovery" /\ ~stale /\ 2 * Cardinality(found) <= MaxTech =>
           Holds(list, found) /\ list.num <= 2 * Cardinality(found)
    /\ rf \in {"discovery", "waiting"} => list.num \in Nat

LEMMA EmptyHolds ==
    ASSUME NEW l, l.num = 0, DOMAIN l = {"num", "at"}, \A i \in Indices : l.at[i].protocol = "none"
    PROVE  Holds(l, {})
BY RoomForTwo DEF Holds, Indices

LEMMA ResetHolds ==
    /\ resetTechnologies.num = 0 /\ DOMAIN resetTechnologies = {"num", "at"}
    /\ \A i \in Indices : resetTechnologies.at[i].protocol = "none"
BY DEF resetTechnologies, Blank

(* One result more: the list holds what was found, and the choice, if it is *)
(* made now, is made from it.                                               *)
LEMMA ResultRound ==
    ASSUME RoundInv, NEW t \in Targets, NEW more \in BOOLEAN, DiscResult(t, more),
           ~stale, 2 * Cardinality(found') <= MaxTech
    PROVE  /\ Holds(DiscoverResult(list, t), found')
           /\ DiscoverResult(list, t).num <= 2 * Cardinality(found')
<1>1. found' = found \cup {t} /\ t \notin found /\ rf = "discovery"
  BY DEF DiscResult
<1>2. /\ Cardinality(found) \in Nat /\ Cardinality(found') = Cardinality(found) + 1
  BY <1>1, FS_CardinalityType, FS_AddElement DEF RoundInv
<1>3. 2 * Cardinality(found) + 2 <= MaxTech /\ 2 * Cardinality(found') = 2 * Cardinality(found) + 2
  BY <1>2, RoomForTwo
<1>4. Holds(list, found) /\ list.num <= 2 * Cardinality(found) /\ list.num \in Nat
  BY <1>1, <1>2, <1>3, RoomForTwo DEF RoundInv
<1>5. list.num + 2 <= MaxTech
  BY <1>2, <1>3, <1>4, RoomForTwo
<1>6. Holds(DiscoverResult(list, t), found')
  BY <1>1, <1>4, <1>5, ResultListed
<1>7. DiscoverResult(list, t).num <= list.num + 2 /\ DiscoverResult(list, t).num \in Nat
  BY <1>4, <1>5, <1>6, ResultListed DEF Holds
<1>8. QED
  BY <1>2, <1>3, <1>4, <1>6, <1>7

(* Without room the list still grows or stays as it is. *)
LEMMA ResultGrows ==
    ASSUME NEW l, l.num \in Nat, NEW t
    PROVE  DiscoverResult(l, t).num \in Nat \ {0}
<1>0. PICK n \in Nat : n = l.num
  OBVIOUS
<1>1. CASE l.num >= MaxTech
  BY <1>0, <1>1, RoomForTwo DEF DiscoverResult
<1>2. CASE l.num < MaxTech /\ t.protocol = "MIFARE"
  <2>1. DiscoverResult(l, t).num = n + 2
    BY <1>0, <1>2, RoomForTwo DEF DiscoverResult
  <2>2. QED
    BY <2>1
<1>3. CASE l.num < MaxTech /\ t.protocol # "MIFARE"
  <2>1. PICK techs : DiscoverResult(l, t) = WithTechs(l, l.num, techs, t)
                     /\ ((\E a : techs = <<a>>) \/ (\E a, b : techs = <<a, b>>))
    BY <1>3, TechnologiesLength, RoomForTwo DEF DiscoverResult
  <2>2. PICK k \in 1..2 : k = Len(techs)
    BY <2>1
  <2>3. DiscoverResult(l, t).num = n + k
    BY <1>0, <2>1, <2>2 DEF WithTechs
  <2>4. QED
    BY <2>2, <2>3
<1>4. QED
  BY <1>0, <1>1, <1>2, <1>3, RoomForTwo

LEMMA RoundStep == ASSUME RoundInv, TagNext PROVE RoundInv'
<1>1. ASSUME NEW t \in Targets, NEW more \in BOOLEAN, DiscResult(t, more) PROVE RoundInv'
  <2> DEFINE l == DiscoverResult(list, t)
  <2>1. IsFiniteSet(found') /\ stale' = stale /\ stale \in BOOLEAN /\ rf = "discovery"
    BY <1>1, FS_AddElement DEF DiscResult, RoundInv
  <2>2. l.num \in Nat /\ l.num > 0
    BY <2>1, ResultGrows DEF RoundInv
  <2>3. ~stale /\ 2 * Cardinality(found') <= MaxTech => Holds(l, found') /\ l.num <= 2 * Cardinality(found')
    BY <1>1, ResultRound
  <2>4. \/ list' = l /\ (rf' = rf \/ rf' \in {"selecting", "waiting"})
        \/ list' = resetTechnologies /\ rf' \in {"selecting", "waiting"}
    BY <1>1 DEF DiscResult, handleRfDiscoveryEvent, Select
  <2> HIDE DEF l
  <2>5. CASE list' = l /\ (rf' = rf \/ rf' \in {"selecting", "waiting"})
    BY <2>1, <2>2, <2>3, <2>5 DEF RoundInv
  <2>6. CASE list' = resetTechnologies /\ rf' \in {"selecting", "waiting"}
    BY <2>1, <2>6, ResetHolds DEF RoundInv
  <2>7. QED
    BY <2>4, <2>5, <2>6
<1>2. ASSUME NEW t \in Targets, Activated(t) PROVE RoundInv'
  BY <1>2 DEF Activated, ActivatedP2p, ActivatedTag, RoundInv
<1>3. CASE Deactivated
  <2>1. list' = resetTechnologies /\ found' = {} /\ ~stale' /\ stale' \in BOOLEAN
    BY <1>3 DEF Deactivated
  <2>2. Cardinality(found') = 0 /\ IsFiniteSet(found')
    BY <2>1, FS_EmptySet
  <2>3. Holds(list', found') /\ list'.num = 0
    BY <2>1, ResetHolds, EmptyHolds
  <2>4. QED
    BY <2>1, <2>2, <2>3, ResetHolds DEF RoundInv
<1>4. CASE Restart
  <2>1. /\ list' = list /\ found' = {} /\ stale' = (list.num > 0) /\ list.num \in Nat
        /\ rf \in {"discovery", "waiting"}
    BY <1>4 DEF Restart, RoundInv
  <2>2. Cardinality(found') = 0 /\ IsFiniteSet(found')
    BY <2>1, FS_EmptySet
  <2>3. ~stale' => list.num = 0
    <3>1. ASSUME ~(list.num > 0) PROVE list.num = 0
      BY <2>1, <3>1
    <3>2. QED
      BY <2>1, <3>1
  <2>4. ~stale' => Holds(list', found') /\ list'.num = 0
    BY <2>1, <2>3, EmptyHolds DEF RoundInv
  <2>5. QED
    BY <2>1, <2>2, <2>4 DEF RoundInv
<1>5. CASE SelectFailed \/ KovioForgotten \/ SetReaderMode
  BY <1>5 DEF SelectFailed, KovioForgotten, SetReaderMode, RoundInv, tagVars, rfVars
<1>6. QED
  BY <1>1, <1>2, <1>3, <1>4, <1>5 DEF TagNext

(* What is selected is a target of this round with the protocol that was    *)
(* reported, a peer before a tag, and a peer over technology F first.       *)
THEOREM SelectCorrect == TagSpec => SelectFollowsDiscovery
<1> DEFINE A == rf = "discovery" /\ rf' = "selecting" /\ ~stale
                /\ 2 * Cardinality(found') <= MaxTech
                => \E t \in found' :
                    /\ target' = [id |-> t.id, protocol |-> t.protocol]
                    /\ IF \E p \in found' : p.protocol = "NFC_DEP" /\ ~sReaderModeEnabled
                       THEN /\ t.protocol = "NFC_DEP"
                            /\ t.mode = "POLL_F"
                               \/ ~\E p \in found' : p.protocol = "NFC_DEP" /\ p.mode = "POLL_F"
                       ELSE t.protocol # "NFC_DEP"
<1>1. TagInit => RoundInv
  <2> SUFFICES ASSUME TagInit PROVE RoundInv
    OBVIOUS
  <2>1. list = resetTechnologies /\ found = {} /\ stale \in BOOLEAN
    BY DEF TagInit
  <2>2. Cardinality(found) = 0 /\ IsFiniteSet(found)
    BY <2>1, FS_EmptySet
  <2>3. Holds(list, found) /\ list.num = 0
    BY <2>1, ResetHolds, EmptyHolds
  <2>4. QED
    BY <2>1, <2>2, <2>3, ResetHolds DEF RoundInv
<1>2. RoundInv /\ [TagNext]_allTagVars => RoundInv'
  <2>1. RoundInv /\ UNCHANGED allTagVars => RoundInv'
    BY DEF RoundInv, allTagVars, tagVars, rfVars, Holds
  <2>2. QED
    BY <2>1, RoundStep
<1>3. ASSUME RoundInv, TagNext PROVE A
  <2> SUFFICES ASSUME rf = "discovery", rf' = "selecting", ~stale, 2 * Cardinality(found') <= MaxTech
               PROVE  \E t \in found' :
                        /\ target' = [id |-> t.id, protocol |-> t.protocol]
                        /\ IF \E p \in found' : p.protocol = "NFC_DEP" /\ ~sReaderModeEnabled
                           THEN /\ t.protocol = "NFC_DEP"
                                /\ t.mode = "POLL_F"
                                   \/ ~\E p \in found' : p.protocol = "NFC_DEP" /\ p.mode = "POLL_F"
                           ELSE t.protocol # "NFC_DEP"
    OBVIOUS
  <2>1. PICK t \in Targets, more \in BOOLEAN : DiscResult(t, more)
    BY <1>3 DEF TagNext, Activated, ActivatedP2p, ActivatedTag, SelectFailed, Deactivated, Restart,
       KovioForgotten, SetReaderMode, rfVars
  <2> DEFINE l == DiscoverResult(list, t)
  <2>2. Holds(l, found')
    BY <1>3, <2>1, ResultRound
  <2>3. handleRfDiscoveryEvent(l)
    BY <2>1 DEF DiscResult
  <2> HIDE DEF l
  <2>4. CASE ~sReaderModeEnabled /\ isP2pDiscovered(l)
    <3>1. P2pChoice(l) # Blank /\ target' = [id |-> P2pChoice(l).id, protocol |-> P2pChoice(l).protocol]
      BY <2>3, <2>4 DEF handleRfDiscoveryEvent, Select
    <3>2. QED
      BY <2>2, <2>4, <3>1, P2pChosen, PeerListed DEF Of
  <2>5. CASE ~(~sReaderModeEnabled /\ isP2pDiscovered(l))
    <3>1. TagChoice(l) # Blank /\ target' = [id |-> TagChoice(l).id, protocol |-> TagChoice(l).protocol]
      BY <2>3, <2>5 DEF handleRfDiscoveryEvent, Select
    <3>2. QED
      BY <2>2, <2>5, <3>1, TagChosen, PeerListed DEF Of
  <2>6. QED
    BY <2>4, <2>5
<1>4. RoundInv /\ [TagNext]_allTagVars => [A]_allTagVars
  BY <1>3
<1>5. QED
  BY <1>1, <1>2, <1>4, PTL DEF TagSpec, SelectFollowsDiscovery
=============================================================================
