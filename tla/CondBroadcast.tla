--------------------------- MODULE CondBroadcast ---------------------------
(* CondVar as it is model-checked.  A team of the threads, chosen at the   *)
(* start, uses the condition variable: the code keeps different promises   *)
(* to different mixes of callers.  A history variable remembers, for each  *)
(* broadcast in progress, the threads that were waiting when it counted    *)
(* them and have not left yet: does a broadcast restart those, or only as  *)
(* many threads?  wait_sem does not say whom a token is for.               *)
EXTENDS CondVar

CONSTANTS
    Teams,      \* the sets of threads that use it together
    Seats,      \* disjoint sets of threads of which a team has one at most
    Followed    \* {TRUE}: broadcasts of disciplined teams are followed up;
                \* {FALSE}: those of the others

ASSUME TeamsAssumption ==
    /\ Teams \subseteq SUBSET Threads
    /\ \A t \in Teams, s \in Seats : Cardinality(t \cap s) <= 1
    /\ \A t \in Teams : t \subseteq UNION Seats
    /\ Followed \subseteq BOOLEAN

VARIABLES
    team,       \* the threads that use it in this behaviour
    disciplined,    \* it signals and broadcasts under the mutex only
    cohort      \* cohort[t]: the waiters t's broadcast has yet to see go

cvars == <<vars, team, disciplined, cohort>>

CInit ==
    /\ Init
    /\ team \in Teams
    /\ disciplined \in BOOLEAN
    /\ cohort = [t \in Threads |-> {}]

\* Threads that are waiting after the step; one that leaves is struck off.
StillWaiting == [t \in Threads |-> cohort[t] \cap Inside']

Begin(Call(_), t) ==
    /\ disciplined => mutex = t
    /\ Call(t)
    /\ UNCHANGED <<team, disciplined>>

Broadcast(t) ==
    /\ Begin(CondBroadcast, t)
    /\ IF disciplined \in Followed
       THEN cohort' = [cohort EXCEPT ![t] = Inside]
       ELSE UNCHANGED cohort

Signal(t) == Begin(CondSignal, t) /\ cohort' = StillWaiting

Other(Step(_), t) ==
    /\ Step(t)
    /\ cohort' = StillWaiting
    /\ UNCHANGED <<team, disciplined>>

CNext == \E t \in team :
    \/ Broadcast(t) \/ Signal(t)
    \/ Other(LockMutex, t) \/ Other(UnlockMutex, t)
    \/ Other(EnterWait, t) \/ Other(NothingToSignal, t)
    \/ Other(CallStep, t)

\* CondVar's fairness, thread by thread of the team.
CFairness == \A s \in Seats :
    /\ SF_cvars(\E t \in s \cap team : Other(CallStep, t))
    /\ SF_cvars(\E t \in s \cap team : Other(UnlockMutex, t))

CSpec == CInit /\ [][CNext]_cvars /\ CFairness

\* When CTCondBroadcast returns, each thread that was waiting when it was
\* called has been restarted (condutil.h:67-71): none was left asleep by a
\* thread that began to wait later and took its token of wait_sem.  Holding
\* the mutex for the broadcast alone would not do: it may collect an
\* acknowledgement meant for a signal made without the mutex.
BroadcastRestartsAll ==
    \A t \in Threads : pc[t] = "idle" => cohort[t] = {}
============================================================================
