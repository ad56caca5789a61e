---------------------------- MODULE Notification ----------------------------
(***************************************************************************)
(* Notification and Futex of lib/base: a trigger that threads of several   *)
(* processes wait for.  The word is kNoWaiter, kWaiter or kNotified; only  *)
(* a thread that finds kWaiter calls Wake, only one that stored or found   *)
(* kWaiter sleeps.                                                         *)
(*                                                                         *)
(* The module gives the steps of each operation to the module that knows   *)
(* the threads' programs: `from' is the thread's place in its program when *)
(* it calls, `to' when the call has returned.  phase[th] is where a thread *)
(* is inside an operation.                                                 *)
(***************************************************************************)

CONSTANTS Threads, Notifs

VARIABLES notified,   \* Notification::notified_
          phase,      \* inside Wait or Notify: where
          pc,         \* the threads' programs
          fault       \* a CHECK failed

NotifiedState == {"kNoWaiter", "kWaiter", "kNotified"}

Running == <<"running">>
Phases == {Running} \cup ({"calling", "asleep", "waking"} \X Notifs)

Goto(th, to) == pc' = [pc EXCEPT ![th] = to]

\* A slip: FUTEX_WAIT's return is taken for a wakeup, whatever the word is.
AnyReturn(n) == TRUE

\* Anything else was a spurious wakeup.
WaitIsOver(n) == notified[n] # "kWaiter"

\* Return if notified; else see to it that the word is kWaiter and call futex, which
\* sleeps only if it still is.  A thread that wakes is where it was when it called.
WaitForNotification(th, n, from, to) ==
    /\ pc[th] = from
    /\ \/ /\ phase[th] = Running /\ notified[n] = "kNotified"
          /\ Goto(th, to)
          /\ UNCHANGED <<notified, phase>>
       \/ /\ phase[th] = Running /\ notified[n] # "kNotified"
          /\ notified' = [notified EXCEPT ![n] = "kWaiter"]
          /\ phase' = [phase EXCEPT ![th] = <<"calling", n>>]
          /\ UNCHANGED pc
       \/ /\ phase[th] = <<"calling", n>> /\ ~WaitIsOver(n)
          /\ phase' = [phase EXCEPT ![th] = <<"asleep", n>>]
          /\ UNCHANGED <<notified, pc>>
       \/ /\ phase[th] = <<"calling", n>> /\ WaitIsOver(n)
          /\ phase' = [phase EXCEPT ![th] = Running]
          /\ Goto(th, to)
          /\ UNCHANGED notified
    /\ UNCHANGED fault

\* A slip: the test for a waiter is the wrong way round.
WakesNobody(n) == notified[n] = "kNoWaiter"

\* v == NotifiedState::kWaiter, of the value the compare_exchange replaced.
MustWake(n) == notified[n] = "kWaiter"

\* The compare_exchange, and Wake if there was a waiter.
NotifyStore(th, n, from, to) ==
    /\ pc[th] = from /\ phase[th] = Running
    /\ fault' = (fault \/ notified[n] = "kNotified")
    /\ notified' = [notified EXCEPT ![n] = "kNotified"]
    /\ IF MustWake(n)
         THEN phase' = [phase EXCEPT ![th] = <<"waking", n>>] /\ UNCHANGED pc
         ELSE Goto(th, to) /\ UNCHANGED phase

NotifyWake(th, n, to) ==
    /\ phase[th] = <<"waking", n>>
    /\ phase' = [u \in Threads |-> IF u = th THEN Running
                                   ELSE IF phase[u] = <<"asleep", n>> THEN <<"calling", n>>
                                   ELSE phase[u]]
    /\ Goto(th, to)
    /\ UNCHANGED <<notified, fault>>

Notify(th, n, from, to) == NotifyStore(th, n, from, to) \/ NotifyWake(th, n, to)

Reset(th, n, from, to) ==
    /\ pc[th] = from /\ phase[th] = Running
    /\ notified' = [notified EXCEPT ![n] = "kNoWaiter"]
    /\ Goto(th, to)
    /\ UNCHANGED <<phase, fault>>

\* FUTEX_WAIT returns 0 or EINTR although nobody called Wake.
SpuriousWakeup(th) ==
    /\ phase[th][1] = "asleep"
    /\ phase' = [phase EXCEPT ![th] = <<"calling", phase[th][2]>>]
    /\ UNCHANGED <<notified, pc, fault>>
=============================================================================
