------------------------------ MODULE NxpCalls ------------------------------
(***************************************************************************)
(* How the adapter for the PN544 (nxp/jni) calls libnfc: the modules       *)
(* NxpLlcp and NxpAdapter, which extend this one, are made of it.          *)
(*                                                                         *)
(* A JNI function is a plan, the sequence of its steps still to do.  Most  *)
(* take the concurrency mutex, make a request of libnfc, and sleep on a    *)
(* semaphore on their own stack; the client thread runs the callback that  *)
(* posts it.  libnfc is external: it refuses a request or answers it       *)
(* later, in any order.  Its recovery aborts the process, Java and all.    *)
(***************************************************************************)
EXTENDS Naturals, FiniteSets, Sequences

CONSTANTS
    Threads,       \* all the threads there may be
    RoleSets,      \* those that exist, in each instance, and in each
    MaxCalls,      \* the calls made,
    MaxFound,      \* the devices found and the connections that come in
    None

ASSUME RolesAssumption == \A roles \in RoleSets : roles \subseteq Threads
ASSUME BoundsAssumption == {MaxCalls, MaxFound} \subseteq [RoleSets -> Nat]

VARIABLES
    thread,        \* where each thread is and what it has still to do
    lock,          \* who holds the concurrency mutex
    msgs,          \* the answers that libnfc has still to give
    nat,           \* the globals of the adapter
    lib,           \* libnfc and the controller
    svc,           \* what NfcService remembers
    eps,           \* the devices found, each named for the thread that has it
    incoming,      \* incoming_socket_head
    open,          \* the sockets that are open
    roles, calls, found,
    hist           \* history: what excuses a property

bounds == <<roles, calls, found>>
adapter == <<nat, lib, svc, eps, incoming, open, hist>>
vars == <<thread, lock, msgs, adapter, bounds>>

-----------------------------------------------------------------------------
(* Threads, their plans, and the mutex *)

Frames == {"call", "download", "notified"}

\* nfc_cb_data_init: a semaphore at zero and the status FAILED.
NewFrame == [sem |-> FALSE, ok |-> FALSE]
IdleThread == [pc |-> "idle", st |-> "runs", rest |-> <<>>, id |-> 0, tries |-> 0,
               frame |-> [f \in Frames |-> NewFrame]]

Working(t) == thread[t].pc # "idle"
At(t, l) == thread[t].pc = l /\ thread[t].st = "runs"

Planned(c, plan) ==
    IF plan = <<>> THEN IdleThread
    ELSE [c EXCEPT !.pc = Head(plan), !.rest = Tail(plan), !.st = "runs"]

\* Only plan is left to do; or plan, and then the rest; or the rest.
Leave(t, plan) == thread' = [thread EXCEPT ![t] = Planned(@, plan)]
Then(t, plan) == Leave(t, plan \o thread[t].rest)
Advance(t) == Then(t, <<>>)

\* goto clean_and_return: what is left from the next unlock on.
Cleanup(t) ==
    LET rest == thread[t].rest
        ends == {i \in DOMAIN rest : rest[i] = "unlock"}
    IN IF ends = {} THEN rest
       ELSE SubSeq(rest, CHOOSE i \in ends : \A j \in ends : i <= j, Len(rest))

Begin(t, plan) ==
    /\ t \in roles /\ ~Working(t)
    /\ calls < MaxCalls[roles] /\ calls' = calls + 1
    /\ thread' = [thread EXCEPT ![t] = Planned([IdleThread EXCEPT !.id = calls + 1], plan)]
    /\ UNCHANGED <<lock, msgs, roles, found>>

\* A step of the adapter that asks nothing of libnfc.
Silent == UNCHANGED <<lock, msgs, bounds>>

Locked(plan) == <<"lock">> \o plan \o <<"unlock">>

takeLock(t) ==
    /\ At(t, "lock") /\ lock = None /\ lock' = t /\ Advance(t)
    /\ UNCHANGED <<msgs, adapter, bounds>>
giveLock(t) ==
    /\ At(t, "unlock") /\ lock' = None /\ Advance(t)
    /\ UNCHANGED <<msgs, adapter, bounds>>

-----------------------------------------------------------------------------
(* Requests and their answers *)

\* The cb_data a step waits on: the function's own, that of
\* nfc_jni_download_locked, or the one the listener of the element posts.
FrameOf(l) ==
    CASE l \in {"fwDeinit", "fwInit"} -> "download"
      [] l = "seNotified" -> "notified"
      [] OTHER -> "call"

Request(t, l) ==
    [to |-> t, id |-> thread[t].id, tries |-> thread[t].tries, what |-> l]

\* libnfc accepts the request of step l, and t waits.
Asks(t) ==
    /\ thread' = [thread EXCEPT ![t].st = "waits"]
    /\ msgs' = msgs \cup {Request(t, thread[t].pc)}
    /\ UNCHANGED <<lock, bounds>>

\* The frame that m answers to is still there.
Alive(m) ==
    LET c == thread[m.to]
    IN /\ c.id = m.id
       /\ FrameOf(m.what) = "download" =>
            c.tries = m.tries /\ c.pc \in {"fwDeinit", "fwLoad", "fwInit"}

Post(m, good) ==
    /\ thread' = IF Alive(m)
                 THEN [thread EXCEPT ![m.to].frame[FrameOf(m.what)] = [sem |-> TRUE, ok |-> good]]
                 ELSE thread
    /\ UNCHANGED <<lock, bounds>>

\* sem_wait returns, and the call sees the status.
Woken(t) ==
    thread[t].st = "waits" /\ thread[t].frame[FrameOf(thread[t].pc)].sem
Status(t) == thread[t].frame[FrameOf(thread[t].pc)].ok

Goes(t, plan) ==
    /\ thread' = [thread EXCEPT ![t] =
         Planned([@ EXCEPT !.frame[FrameOf(thread[t].pc)].sem = FALSE], plan)]
    /\ Silent
=============================================================================
