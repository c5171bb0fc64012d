------------------------------ MODULE SemWin ------------------------------
(* The counting semaphore of thread/sem_win.c: a kernel semaphore and a    *)
(* counter beside it, which CTSemValue reads.  The two are never updated   *)
(* together: a post counts first and then releases ("after a successful    *)
(* release the semaphore may immediately get destroyed by another thread", *)
(* sem_win.c:101-105), a wait takes its token first and then counts.       *)
(*                                                                         *)
(* Each action is one interlocked operation, one kernel call or the        *)
(* caller's decision to begin a call.  The callers keep a ledger of their  *)
(* own, and one of them destroys the semaphore when it is settled.         *)
EXTENDS Integers, FiniteSets

CONSTANTS
    Threads,        \* threads that post and wait
    TimedThreads,   \* those whose waits have a finite timeout, or none at all
    InitialValue,   \* initial_value of CTCreateSemaphore
    MaxCount        \* the kernel semaphore's limit, 32 * 1024 in the code

ASSUME SemAssumption ==
    /\ IsFiniteSet(Threads)
    /\ TimedThreads \subseteq Threads
    /\ InitialValue \in Nat /\ MaxCount \in Nat
    /\ InitialValue <= MaxCount /\ MaxCount >= 1

VARIABLES
    kernel,     \* tokens in the kernel semaphore sem->id
    count,      \* sem->count
    freed,      \* the semaphore has been destroyed
    promised,   \* the callers' ledger: tokens posted and not yet waited for
    pc          \* where each thread is in its call

vars == <<kernel, count, freed, promised, pc>>

PostPcs == {"count", "release", "restore"}
Pcs == PostPcs \cup {"idle", "waiting", "took"}

Goto(t, label) == pc' = [pc EXCEPT ![t] = label]

\* CTCreateSemaphore.
Init ==
    /\ kernel = InitialValue
    /\ count = InitialValue
    /\ freed = FALSE
    /\ promised = InitialValue
    /\ pc = [t \in Threads |-> "idle"]

----------------------------------------------------------------------------
\* CTSemPost.

\* Slip: the kernel semaphore is released before the counter is incremented.
PostOrder_ReleaseFirst(label) ==
    CASE label = "begin" -> "release"
      [] label = "release" -> "count"
      [] label = "count" -> "idle"

\* What comes after each stage of a post.
PostOrder(label) ==
    CASE label = "begin" -> "count"
      [] label = "count" -> "release"
      [] label = "release" -> "idle"

BeginPost(t) ==
    /\ pc[t] = "idle" /\ ~freed
    /\ promised' = promised + 1
    /\ Goto(t, PostOrder("begin"))
    /\ UNCHANGED <<kernel, count, freed>>

CountPost(t) ==
    /\ pc[t] = "count"
    /\ count' = count + 1
    /\ Goto(t, PostOrder("count"))
    /\ UNCHANGED <<kernel, freed, promised>>

Release(t) ==
    /\ pc[t] = "release"
    /\ kernel < MaxCount
    /\ kernel' = kernel + 1
    /\ Goto(t, PostOrder("release"))
    /\ UNCHANGED <<count, freed, promised>>

\* Slip: the failed post returns without taking its count back.
ReleaseFails_NoRestore(t) ==
    /\ pc[t] = "release"
    /\ kernel = MaxCount
    /\ promised' = promised - 1
    /\ Goto(t, "idle")
    /\ UNCHANGED <<kernel, count, freed>>

\* ReleaseSemaphore refuses to go beyond the limit.
ReleaseFails(t) ==
    /\ pc[t] = "release"
    /\ kernel = MaxCount
    /\ Goto(t, "restore")
    /\ UNCHANGED <<kernel, count, freed, promised>>

\* The count is restored and the caller told, with -1.
Restore(t) ==
    /\ pc[t] = "restore"
    /\ count' = count - 1
    /\ promised' = promised - 1
    /\ Goto(t, "idle")
    /\ UNCHANGED <<kernel, freed>>

----------------------------------------------------------------------------
\* CTSemWaitTimeout, which CTSemWait and CTSemTryWait call.

BeginWait(t) ==
    /\ pc[t] = "idle" /\ ~freed
    /\ Goto(t, "waiting")
    /\ UNCHANGED <<kernel, count, freed, promised>>

TakeToken(t) ==
    /\ pc[t] = "waiting"
    /\ kernel > 0
    /\ kernel' = kernel - 1
    /\ Goto(t, "took")
    /\ UNCHANGED <<count, freed, promised>>

\* Slip: a wait that expired counts as well.
TimeOut_Counts(t) ==
    /\ t \in TimedThreads
    /\ pc[t] = "waiting"
    /\ kernel = 0
    /\ Goto(t, "took")
    /\ UNCHANGED <<kernel, count, freed, promised>>

TimeOut(t) ==
    /\ t \in TimedThreads
    /\ pc[t] = "waiting"
    /\ kernel = 0
    /\ Goto(t, "idle")
    /\ UNCHANGED <<kernel, count, freed, promised>>

CountWait(t) ==
    /\ pc[t] = "took"
    /\ count' = count - 1
    /\ promised' = promised - 1
    /\ Goto(t, "idle")
    /\ UNCHANGED <<kernel, freed>>

----------------------------------------------------------------------------
\* CTDestroySemaphore, by a thread that knows that every post has been
\* waited for and that no thread waits; not that every post has returned.
Destroy(t) ==
    /\ pc[t] = "idle" /\ ~freed
    /\ promised = 0
    /\ \A u \in Threads : pc[u] # "waiting"
    /\ freed' = TRUE
    /\ UNCHANGED <<kernel, count, promised, pc>>

\* The callers create it anew.
Create ==
    /\ freed
    /\ \A t \in Threads : pc[t] = "idle"
    /\ kernel' = InitialValue /\ count' = InitialValue
    /\ promised' = InitialValue
    /\ freed' = FALSE
    /\ UNCHANGED pc

Next ==
    \/ \E t \in Threads :
        \/ BeginPost(t) \/ CountPost(t)
        \/ Release(t) \/ ReleaseFails(t) \/ Restore(t)
        \/ BeginWait(t) \/ TakeToken(t) \/ TimeOut(t) \/ CountWait(t)
        \/ Destroy(t)
    \/ Create

Spec == Init /\ [][Next]_vars

----------------------------------------------------------------------------
\* Every variable has its type; the counter of CTSemValue, which returns it
\* as an unsigned number, is never negative.
TypeOK ==
    /\ kernel \in 0 .. MaxCount
    /\ count \in Nat
    /\ freed \in BOOLEAN
    /\ promised \in Nat
    /\ pc \in [Threads -> Pcs]

At(labels) == Cardinality({t \in Threads : pc[t] \in labels})

\* CTSemValue reports the tokens of the kernel semaphore and no more than the
\* posts and waits in progress on top: none is lost or kept by a post that
\* failed at the limit, or a wait that timed out.
ValueBalance == count = kernel + At({"release", "restore", "took"})

\* Once the tokens are all waited for, no post and no wait still touches the
\* semaphore, so it may be destroyed although the posts may not have returned
\* (sem_win.c:101-105).
NoUseAfterFree == freed => \A t \in Threads : pc[t] = "idle"
===========================================================================
