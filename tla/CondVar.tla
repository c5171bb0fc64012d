------------------------------ MODULE CondVar ------------------------------
(* The condition variable of thread/cond_win.c: a mutex, two counters and  *)
(* two semaphores.  CTCondSignal and CTCondBroadcast post wait_sem once    *)
(* per waiter they release and then collect as many posts of wait_done; a  *)
(* waiter takes a token of wait_sem and acknowledges it on wait_done.      *)
(*                                                                         *)
(* Each action is one step that another thread can observe: taking a       *)
(* mutex together with the counter updates made under it (the counters are *)
(* touched only under cond->lock), one semaphore operation, one unlock.    *)
(* The caller's mutex is modelled with its clients: a thread locks it      *)
(* before it waits, and signals with or without it (condutil.h:48-54).     *)
EXTENDS Integers, FiniteSets

CONSTANTS
    Threads,        \* threads that use the condition variable
    Waiters,        \* those that call CTCondWait or CTCondWaitTimeout
    TimedThreads,   \* those whose wait has a finite timeout
    Signalers,      \* those that call CTCondSignal and CTCondBroadcast
    SignalUnlocked, \* whether they may do so without holding the mutex
    NoThread        \* the owner of a free mutex

ASSUME ThreadsAssumption ==
    /\ IsFiniteSet(Threads)
    /\ Waiters \subseteq Threads
    /\ TimedThreads \subseteq Waiters
    /\ Signalers \subseteq Threads
    /\ SignalUnlocked \in BOOLEAN
    /\ NoThread \notin Threads

VARIABLES
    mutex,      \* owner of the caller's mutex
    lock,       \* owner of cond->lock
    waiting,    \* cond->waiting
    signals,    \* cond->signals
    waitSem,    \* tokens in cond->wait_sem
    waitDone,   \* tokens in cond->wait_done
    pc,         \* where each thread is in its call
    timedOut,   \* retval > 0 in a waiter: its semaphore wait expired
    posts,      \* posts of wait_sem a signaler still has to make
    due         \* acknowledgements a signaler still has to collect

sems == <<waitSem, waitDone>>
counts == <<waiting, signals>>
locals == <<timedOut, posts, due>>
vars == <<mutex, lock, counts, sems, pc, locals>>

\* Where a thread is between its entry into and its exit from a wait, and
\* where it holds cond->lock.
WaitPcs == {"counted", "unlockMutex", "asleep", "awake", "eat", "ack", "leave"}
LockPcs == {"counted", "eat", "ack", "leave", "post"}
Pcs == WaitPcs \cup LockPcs \cup {"idle", "relockMutex", "collect"}

Goto(t, label) == pc' = [pc EXCEPT ![t] = label]

\* Cond->lock is taken with the counter updates of its critical section.
Acquire(t) == lock = NoThread /\ lock' = t
Release(t) == lock = t /\ lock' = NoThread

\* CTCreateCond: the counters and both semaphores start at zero.
Init ==
    /\ mutex = NoThread
    /\ lock = NoThread
    /\ waiting = 0 /\ signals = 0
    /\ waitSem = 0 /\ waitDone = 0
    /\ pc = [t \in Threads |-> "idle"]
    /\ timedOut = [t \in Threads |-> FALSE]
    /\ posts = [t \in Threads |-> 0]
    /\ due = [t \in Threads |-> 0]

----------------------------------------------------------------------------
\* The caller's own use of its mutex, between calls.

LockMutex(t) ==
    /\ pc[t] = "idle"
    /\ mutex = NoThread
    /\ mutex' = t
    /\ UNCHANGED <<lock, counts, sems, pc, locals>>

UnlockMutex(t) ==
    /\ pc[t] = "idle"
    /\ mutex = t
    /\ mutex' = NoThread
    /\ UNCHANGED <<lock, counts, sems, pc, locals>>

----------------------------------------------------------------------------
\* CTCondWaitTimeout, and CTCondWait which calls it.

\* Under cond->lock, count the thread as a waiter.
EnterWait(t) ==
    /\ t \in Waiters
    /\ pc[t] = "idle"
    /\ mutex = t
    /\ Acquire(t)
    /\ waiting' = waiting + 1
    /\ Goto(t, "counted")
    /\ UNCHANGED <<mutex, signals, sems, locals>>

UnlockAfterCount(t) ==
    /\ pc[t] = "counted"
    /\ Release(t)
    /\ Goto(t, "unlockMutex")
    /\ UNCHANGED <<mutex, counts, sems, locals>>

ReleaseMutex(t) ==
    /\ pc[t] = "unlockMutex"
    /\ mutex = t
    /\ mutex' = NoThread
    /\ Goto(t, "asleep")
    /\ UNCHANGED <<lock, counts, sems, locals>>

TakeSignal(t) ==
    /\ pc[t] = "asleep"
    /\ waitSem > 0
    /\ waitSem' = waitSem - 1
    /\ timedOut' = [timedOut EXCEPT ![t] = FALSE]
    /\ Goto(t, "awake")
    /\ UNCHANGED <<mutex, lock, counts, waitDone, posts, due>>

\* The timer expires; a wait that finds a token never reports a timeout.
TimeOut(t) ==
    /\ t \in TimedThreads
    /\ pc[t] = "asleep"
    /\ waitSem = 0
    /\ timedOut' = [timedOut EXCEPT ![t] = TRUE]
    /\ Goto(t, "awake")
    /\ UNCHANGED <<mutex, lock, counts, sems, posts, due>>

\* Slip: a waiter that timed out eats without looking for a signal.
AfterWake_NoTest(t) == IF timedOut[t] THEN "eat" ELSE "ack"

\* What a woken waiter finds under cond->lock decides how it leaves.
AfterWake(t) ==
    IF signals > 0 THEN IF timedOut[t] THEN "eat" ELSE "ack" ELSE "leave"

Relock(t) ==
    /\ pc[t] = "awake"
    /\ Acquire(t)
    /\ Goto(t, AfterWake(t))
    /\ UNCHANGED <<mutex, counts, sems, locals>>

\* A timed-out waiter takes the token of an outstanding signal, still
\* holding cond->lock.
EatSignal(t) ==
    /\ pc[t] = "eat"
    /\ waitSem > 0
    /\ waitSem' = waitSem - 1
    /\ Goto(t, "ack")
    /\ UNCHANGED <<mutex, lock, counts, waitDone, locals>>

\* Slips: --waiting here and again on leaving; the count of signals cleared
\* instead of decremented.
Acknowledge_CountsTwice(t) ==
    /\ pc[t] = "ack"
    /\ waitDone' = waitDone + 1
    /\ signals' = signals - 1
    /\ waiting' = waiting - 1
    /\ Goto(t, "leave")
    /\ UNCHANGED <<mutex, lock, waitSem, locals>>

Acknowledge_ClearsSignals(t) ==
    /\ pc[t] = "ack"
    /\ waitDone' = waitDone + 1
    /\ signals' = 0
    /\ Goto(t, "leave")
    /\ UNCHANGED <<mutex, lock, waiting, waitSem, locals>>

Acknowledge(t) ==
    /\ pc[t] = "ack"
    /\ waitDone' = waitDone + 1
    /\ signals' = signals - 1
    /\ Goto(t, "leave")
    /\ UNCHANGED <<mutex, lock, waiting, waitSem, locals>>

\* Slip: the caller's mutex is locked again before cond->lock is released.
LeaveWait_MutexFirst(t) ==
    /\ pc[t] = "leave"
    /\ mutex = NoThread
    /\ mutex' = t
    /\ Release(t)
    /\ waiting' = waiting - 1
    /\ Goto(t, "idle")
    /\ UNCHANGED <<signals, sems, locals>>

LeaveWait(t) ==
    /\ pc[t] = "leave"
    /\ Release(t)
    /\ waiting' = waiting - 1
    /\ Goto(t, "relockMutex")
    /\ UNCHANGED <<mutex, signals, sems, locals>>

RelockMutex(t) ==
    /\ pc[t] = "relockMutex"
    /\ mutex = NoThread
    /\ mutex' = t
    /\ Goto(t, "idle")
    /\ UNCHANGED <<lock, counts, sems, locals>>

----------------------------------------------------------------------------
\* CTCondSignal and CTCondBroadcast.

CanSignal(t) ==
    /\ t \in Signalers
    /\ pc[t] = "idle"
    /\ SignalUnlocked \/ mutex = t

\* Slip: every waiter is counted as released, one post or many.
Grant_CountsAll(t, n) ==
    /\ CanSignal(t)
    /\ Acquire(t)
    /\ signals' = waiting
    /\ posts' = [posts EXCEPT ![t] = n]
    /\ due' = [due EXCEPT ![t] = n]
    /\ Goto(t, "post")
    /\ UNCHANGED <<mutex, waiting, sems, timedOut>>

\* Under cond->lock, account for n more released waiters.
Grant(t, n) ==
    /\ CanSignal(t)
    /\ Acquire(t)
    /\ signals' = signals + n
    /\ posts' = [posts EXCEPT ![t] = n]
    /\ due' = [due EXCEPT ![t] = n]
    /\ Goto(t, "post")
    /\ UNCHANGED <<mutex, waiting, sems, timedOut>>

\* Slip: a signal is sent whether or not a waiter is left to take it.
CondSignal_NoTest(t) == Grant(t, 1)

CondSignal(t) == waiting > signals /\ Grant(t, 1)

CondBroadcast(t) == waiting > signals /\ Grant(t, waiting - signals)

\* With every waiter already released, either call takes cond->lock, finds
\* nothing to do, unlocks and returns.
NothingToSignal(t) ==
    /\ CanSignal(t)
    /\ waiting <= signals
    /\ Acquire(t)
    /\ Goto(t, "post")
    /\ UNCHANGED <<mutex, counts, sems, locals>>

\* Slip: an event instead of a semaphore, on which two posts merge.
PostSignal_Merges(t) ==
    /\ pc[t] = "post"
    /\ posts[t] > 0
    /\ waitSem' = 1
    /\ posts' = [posts EXCEPT ![t] = posts[t] - 1]
    /\ UNCHANGED <<mutex, lock, counts, waitDone, pc, timedOut, due>>

PostSignal(t) ==
    /\ pc[t] = "post"
    /\ posts[t] > 0
    /\ waitSem' = waitSem + 1
    /\ posts' = [posts EXCEPT ![t] = posts[t] - 1]
    /\ UNCHANGED <<mutex, lock, counts, waitDone, pc, timedOut, due>>

\* Slip: the acknowledgements are awaited before cond->lock is released.
UnlockAfterPosts_Late(t) ==
    /\ pc[t] = "post"
    /\ posts[t] = 0
    /\ waitDone >= due[t]
    /\ Release(t)
    /\ Goto(t, IF due[t] > 0 THEN "collect" ELSE "idle")
    /\ UNCHANGED <<mutex, counts, sems, locals>>

\* Slip: no handshake; the call returns without its acknowledgements.
UnlockAfterPosts_NoHandshake(t) ==
    /\ pc[t] = "post"
    /\ posts[t] = 0
    /\ Release(t)
    /\ Goto(t, "idle")
    /\ UNCHANGED <<mutex, counts, sems, locals>>

UnlockAfterPosts(t) ==
    /\ pc[t] = "post"
    /\ posts[t] = 0
    /\ Release(t)
    /\ Goto(t, IF due[t] > 0 THEN "collect" ELSE "idle")
    /\ UNCHANGED <<mutex, counts, sems, locals>>

Collect(t) ==
    /\ pc[t] = "collect"
    /\ waitDone > 0
    /\ waitDone' = waitDone - 1
    /\ due' = [due EXCEPT ![t] = due[t] - 1]
    /\ Goto(t, IF due[t] = 1 THEN "idle" ELSE "collect")
    /\ UNCHANGED <<mutex, lock, counts, waitSem, timedOut, posts>>

----------------------------------------------------------------------------
\* A step taken inside a call, once the call has begun.
CallStep(t) ==
    \/ UnlockAfterCount(t) \/ ReleaseMutex(t)
    \/ TakeSignal(t) \/ TimeOut(t) \/ Relock(t)
    \/ EatSignal(t) \/ Acknowledge(t) \/ LeaveWait(t) \/ RelockMutex(t)
    \/ PostSignal(t) \/ UnlockAfterPosts(t) \/ Collect(t)

Next == \E t \in Threads :
    \/ LockMutex(t) \/ UnlockMutex(t)
    \/ EnterWait(t) \/ CondSignal(t) \/ CondBroadcast(t) \/ NothingToSignal(t)
    \/ CallStep(t)

\* Nobody need ever start a call.  A thread inside one is scheduled, and the
\* kernel queues the threads blocked on a critical section or a semaphore,
\* so one that could proceed again and again does: strong fairness.  A
\* client that holds its mutex outside a call unlocks it in the end.
Fairness == \A t \in Threads :
    /\ SF_vars(CallStep(t))
    /\ SF_vars(UnlockMutex(t))

Spec == Init /\ [][Next]_vars /\ Fairness

----------------------------------------------------------------------------
\* Every variable has its type; the counters and semaphores never go below
\* zero, whatever order waiters and signalers take cond->lock in.
TypeOK ==
    /\ mutex \in Threads \cup {NoThread}
    /\ lock \in Threads \cup {NoThread}
    /\ waiting \in Nat /\ signals \in Nat
    /\ waitSem \in Nat /\ waitDone \in Nat
    /\ pc \in [Threads -> Pcs]
    /\ timedOut \in [Threads -> BOOLEAN]
    /\ posts \in [Threads -> Nat]
    /\ due \in [Threads -> Nat]

\* Waiters that hold a token of wait_sem and have not acknowledged it.
TookSignal ==
    {t \in Threads : pc[t] = "ack" \/ (pc[t] = "awake" /\ ~timedOut[t])}

\* Posts the signaler inside cond->lock still owes wait_sem.
PostsToCome == IF lock = NoThread THEN 0 ELSE posts[lock]

\* Each signal counted in cond->signals is in exactly one place: still to be
\* posted, a token of wait_sem, or in the hands of one woken waiter.  So the
\* handshake neither loses a wake-up nor counts one twice.
TokenBalance == signals = waitSem + Cardinality(TookSignal) + PostsToCome

\* The acknowledgements signalers wait for are exactly the signals not yet
\* acknowledged and the tokens of wait_done: no signaler is left short of
\* one, and none is left over to release a later signaler too early.
Awaited == UNION {{t} \X (1 .. due[t]) : t \in Threads}
HandshakeBalance == Cardinality(Awaited) = signals + waitDone

\* A waiter woken by a token finds its signal still counted when it takes
\* cond->lock, so it acknowledges (cond_win.c:170): no other waiter, timed
\* out or not, acknowledges in its place.
WokenFindsSignal ==
    \A t \in Threads : pc[t] = "awake" /\ ~timedOut[t] => signals > 0

\* A thread between its ++waiting and the end of its wait.
Inside == {t \in Threads : pc[t] \in WaitPcs \ {"leave"}}

\* The calls implement what a condition variable promises (CondVarAbs): a
\* wake-up is granted per signal and consumed by one waiter at the moment it
\* acknowledges, a waiter leaves without one only by a timeout when none is
\* outstanding, and a granted wake-up is consumed in the end.
Abs == INSTANCE CondVarAbs WITH inside <- Inside, credits <- signals
ImplementsCondVar == Abs!ASpec

\* A call of CTCondSignal or CTCondBroadcast returns, with the caller's mutex
\* held or not: each waiter it released acknowledges.
SignalReturns ==
    \A t \in Threads : pc[t] \in {"post", "collect"} ~> pc[t] = "idle"

\* A woken waiter gets the caller's mutex back and returns.
WokenReturns ==
    \A t \in Threads : pc[t] = "awake" ~> pc[t] = "idle"

\* A wait with a timeout returns whatever the signalers do: "Waits for at
\* most ms milliseconds" (condutil.h:91), lock contention apart.
TimedWaitReturns ==
    \A t \in TimedThreads : pc[t] = "asleep" ~> pc[t] = "idle"
============================================================================
