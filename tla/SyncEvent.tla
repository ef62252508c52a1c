------------------------------ MODULE SyncEvent ------------------------------
(***************************************************************************)
(* How the threads of the NCI adapter ask the stack for something and wait *)
(* for it (nci/jni/SyncEvent.h, CondVar.cpp).  A function takes the guard  *)
(* of a SyncEvent, makes its request, and sleeps on the event, which frees *)
(* the guard; the callback of the stack takes the guard and wakes one      *)
(* sleeper.  The modules of the adapter extend this one.                   *)
(*                                                                         *)
(* The stack is external: it answers each request it has accepted, once    *)
(* and in any order.  A sleeper is not woken for no reason.                *)
(***************************************************************************)
EXTENDS Naturals, FiniteSets

CONSTANTS
    Threads,    \* the threads that make JNI calls
    None

VARIABLES
    thread,     \* where each thread is, in which call, and on which event
    asked       \* the requests that the stack has not answered

syncVars == <<thread, asked>>

\* st: "runs"; "holds" the guard of ev, its request made; "sleeps" on ev;
\* "woken", and needs the guard once more to leave.
States == {"runs", "holds", "sleeps", "woken"}

Idle(call) == [pc |-> "idle", st |-> "runs", ev |-> None, call |-> call]

At(t, l) == thread[t].pc = l /\ thread[t].st = "runs"

\* No other thread has the guard of event e.
Free(e) == \A t \in Threads : thread[t].ev = e => thread[t].st # "holds"

Moved(t, l, c) == [thread EXCEPT ![t] = [Idle(c) EXCEPT !.pc = l]]
GoWith(t, l, c) == thread' = Moved(t, l, c)
Go(t, l) == GoWith(t, l, thread[t].call)

\* The guard is taken; the stack accepts a request, to be answered on e.
Takes(t, e) ==
    Free(e) /\ thread' = [thread EXCEPT ![t].st = "holds", ![t].ev = e]
Asks(t, e, what) ==
    /\ Takes(t, e)
    /\ asked' = asked \cup {[ev |-> e, by |-> t, what |-> what]}

Sleeps(t) ==
    thread[t].st = "holds" /\ thread' = [thread EXCEPT ![t].st = "sleeps"]

Sleepers(e) == {t \in Threads : thread[t].ev = e /\ thread[t].st = "sleeps"}

\* Mutant: an event is signalled without its guard.
NotifyUnguarded(e) ==
    IF Sleepers(e) = {} THEN UNCHANGED thread
    ELSE \E t \in Sleepers(e) : thread' = [thread EXCEPT ![t].st = "woken"]

\* notifyOne under the guard: one sleeper wakes, and with none it is lost.
Notify(e) ==
    /\ Free(e)
    /\ IF Sleepers(e) = {} THEN UNCHANGED thread
       ELSE \E t \in Sleepers(e) : thread' = [thread EXCEPT ![t].st = "woken"]

Answers(r) == asked' = asked \ {r} /\ Notify(r.ev)

\* The thread was woken at l and has the guard again, to let it go.
Wakes(t, l) == thread[t].pc = l /\ thread[t].st = "woken" /\ Free(thread[t].ev)

Requests(e) == {r \in asked : r.ev = e}
=============================================================================
