---------------------------- MODULE CondVarAbs ----------------------------
(* What a condition variable promises to its callers (condutil.h:60-98),   *)
(* without locks, semaphores or handshakes: a set of waiting threads and a *)
(* number of wake-ups granted to them and not yet consumed.  A signal      *)
(* grants one wake-up if some waiter has none coming, a broadcast grants   *)
(* one to each.  A wake-up is never lost: only a waiter consumes it, and a *)
(* waiter leaves without one only by a timeout, and only when none is      *)
(* outstanding.  CondVar.tla is shown to implement this specification.     *)
EXTENDS Naturals, FiniteSets

CONSTANTS
    Threads,        \* every thread that uses the condition variable
    TimedThreads    \* those that wait with a finite timeout

VARIABLES
    inside,         \* the threads waiting
    credits         \* wake-ups granted and not consumed

avars == <<inside, credits>>

AInit == inside = {} /\ credits = 0

StartWait(t) ==
    /\ t \notin inside
    /\ inside' = inside \cup {t}
    /\ UNCHANGED credits

Signal ==
    /\ credits < Cardinality(inside)
    /\ credits' = credits + 1
    /\ UNCHANGED inside

Broadcast ==
    /\ credits < Cardinality(inside)
    /\ credits' = Cardinality(inside)
    /\ UNCHANGED inside

Wake(t) ==
    /\ t \in inside
    /\ credits > 0
    /\ inside' = inside \ {t}
    /\ credits' = credits - 1

Expire(t) ==
    /\ t \in inside \cap TimedThreads
    /\ credits = 0
    /\ inside' = inside \ {t}
    /\ UNCHANGED credits

ANext ==
    \/ Signal
    \/ Broadcast
    \/ \E t \in Threads : StartWait(t) \/ Wake(t) \/ Expire(t)

\* A granted wake-up is consumed in the end.
ASpec == AInit /\ [][ANext]_avars /\ WF_avars(\E t \in Threads : Wake(t))
===========================================================================
