--------------------------- MODULE CondVarProofs ---------------------------
(* Proofs about CondVar for any finite set of threads: its type invariant, *)
(* mutual exclusion on cond->lock, the balance of signals and tokens, and  *)
(* what follows from it for a woken waiter, the balance of the handshake,  *)
(* and the steps of the abstract condition variable it implements; and     *)
(* that a broadcast of a team which signals and broadcasts under the mutex *)
(* restarts the very threads that were waiting, for any team.              *)
EXTENDS CondBroadcast, FiniteSetTheorems, TLAPS

\* The threads counted in cond->waiting.
Counted == {t \in Threads : pc[t] \in WaitPcs}

\* A thread is in a critical section of cond->lock exactly if it owns it.
LockOwned == \A t \in Threads : pc[t] \in LockPcs <=> lock = t

\* A thread posts only in its loop of posts, and leaves it when none is left.
PostsDone == \A t \in Threads : pc[t] # "post" => posts[t] = 0

\* A thread collects while acknowledgements are due.
CollectsDue == \A t \in Threads : pc[t] = "collect" => due[t] > 0

\* Only a wait with a timeout times out.
OnlyTimedTimeOut == \A t \in Threads : timedOut[t] => t \in TimedThreads

\* cond->waiting counts the threads between ++waiting and --waiting.
WaitingCounts == waiting = Cardinality(Counted)

LocalsInStep == PostsDone /\ CollectsDue /\ OnlyTimedTimeOut

IInv ==
    /\ TypeOK
    /\ LockOwned
    /\ LocalsInStep
    /\ WaitingCounts
    /\ TokenBalance

----------------------------------------------------------------------------
\* Cardinality of a set of threads that gains or loses one member.
LEMMA AddThread ==
    ASSUME NEW S \in SUBSET Threads, NEW t \in Threads, t \notin S
    PROVE  /\ Cardinality(S) \in Nat
           /\ Cardinality(S \cup {t}) = Cardinality(S) + 1
<1>1. IsFiniteSet(S)
  BY ThreadsAssumption, FS_Subset
<1> QED
  BY <1>1, FS_AddElement, FS_CardinalityType

LEMMA RemoveThread ==
    ASSUME NEW S \in SUBSET Threads, NEW t \in S
    PROVE  /\ Cardinality(S) \in Nat
           /\ Cardinality(S \ {t}) \in Nat
           /\ Cardinality(S \ {t}) = Cardinality(S) - 1
<1>1. IsFiniteSet(S) /\ IsFiniteSet(S \ {t})
  BY ThreadsAssumption, FS_Subset
<1> QED
  BY <1>1, FS_RemoveElement, FS_CardinalityType

LEMMA CountThreads ==
    ASSUME NEW S \in SUBSET Threads
    PROVE  Cardinality(S) \in Nat
  BY ThreadsAssumption, FS_Subset, FS_CardinalityType

\* A woken waiter that took a token is one of those counted in signals.
LEMMA TookIsCounted ==
    ASSUME TypeOK, LockOwned, TokenBalance, NEW t \in TookSignal
    PROVE  signals > 0
<1>1. TookSignal \in SUBSET Threads
  BY DEF TookSignal
<1>2. Cardinality(TookSignal) \in Nat /\ Cardinality(TookSignal \ {t}) \in Nat
      /\ Cardinality(TookSignal \ {t}) = Cardinality(TookSignal) - 1
  BY <1>1, RemoveThread
<1>3. PostsToCome \in Nat
  BY DEF TypeOK, PostsToCome
<1> QED
  BY <1>2, <1>3 DEF TypeOK, TokenBalance

----------------------------------------------------------------------------
LEMMA InitIInv == Init => IInv
<1> SUFFICES ASSUME Init PROVE IInv
  OBVIOUS
<1>1. Counted = {} /\ TookSignal = {}
  BY DEF Init, Counted, TookSignal, WaitPcs
<1>2. Cardinality({}) = 0
  BY FS_EmptySet
<1>3. TypeOK
  BY DEF Init, TypeOK, Pcs, WaitPcs, LockPcs
<1>4. LockOwned /\ LocalsInStep
  BY ThreadsAssumption DEF Init, LockOwned, LocalsInStep, PostsDone,
     CollectsDue, OnlyTimedTimeOut, LockPcs
<1>5. PostsToCome = 0
  BY DEF Init, PostsToCome
<1> QED
  BY <1>1, <1>2, <1>3, <1>4, <1>5
     DEF IInv, LocalsInStep, Init, WaitingCounts, TokenBalance


----------------------------------------------------------------------------
\* What a waiter needs before it decrements a counter: it is counted there.
LEMMA WaitingPositive ==
    ASSUME IInv, NEW t \in Threads, pc[t] \in WaitPcs
    PROVE  waiting > 0
<1>1. Counted \in SUBSET Threads /\ t \in Counted
  BY DEF Counted
<1>2. Cardinality(Counted) \in Nat /\ Cardinality(Counted \ {t}) \in Nat
      /\ Cardinality(Counted \ {t}) = Cardinality(Counted) - 1
  BY <1>1, RemoveThread
<1> QED
  BY <1>2 DEF IInv, TypeOK, WaitingCounts

LEMMA AckFindsSignal ==
    ASSUME IInv, NEW t \in Threads, pc[t] = "ack"
    PROVE  signals > 0
  BY TookIsCounted DEF IInv, TookSignal

\* Every step keeps the types: a counter is decremented only above zero.
LEMMA TypeStep ==
    ASSUME IInv, [Next]_vars
    PROVE  TypeOK'
<1> USE DEF IInv, TypeOK, Pcs, WaitPcs, LockPcs, counts, sems, locals
<1>1. ASSUME NEW t \in Threads, LockMutex(t) PROVE TypeOK'
  BY <1>1
  DEF LockMutex
<1>2. ASSUME NEW t \in Threads, UnlockMutex(t) PROVE TypeOK'
  BY <1>2
  DEF UnlockMutex
<1>3. ASSUME NEW t \in Threads, EnterWait(t) PROVE TypeOK'
  BY <1>3
  DEF EnterWait, Goto, Acquire
<1>4. ASSUME NEW t \in Threads, CondSignal(t) PROVE TypeOK'
  BY <1>4
  DEF CondSignal, Goto, Grant, CanSignal, Acquire
<1>5. ASSUME NEW t \in Threads, CondBroadcast(t) PROVE TypeOK'
  BY <1>5
  DEF CondBroadcast, Goto, Grant, CanSignal, Acquire
<1>6. ASSUME NEW t \in Threads, NothingToSignal(t) PROVE TypeOK'
  BY <1>6
  DEF NothingToSignal, Goto, Acquire, CanSignal
<1>7. ASSUME NEW t \in Threads, UnlockAfterCount(t) PROVE TypeOK'
  BY <1>7
  DEF UnlockAfterCount, Goto, Release
<1>8. ASSUME NEW t \in Threads, ReleaseMutex(t) PROVE TypeOK'
  BY <1>8
  DEF ReleaseMutex, Goto
<1>9. ASSUME NEW t \in Threads, TakeSignal(t) PROVE TypeOK'
  BY <1>9
  DEF TakeSignal, Goto
<1>10. ASSUME NEW t \in Threads, TimeOut(t) PROVE TypeOK'
  BY <1>10
  DEF TimeOut, Goto
<1>11. ASSUME NEW t \in Threads, Relock(t) PROVE TypeOK'
  BY <1>11
  DEF Relock, Goto, Acquire, AfterWake
<1>12. ASSUME NEW t \in Threads, EatSignal(t) PROVE TypeOK'
  BY <1>12
  DEF EatSignal, Goto
<1>13. ASSUME NEW t \in Threads, Acknowledge(t) PROVE TypeOK'
  BY <1>13, AckFindsSignal
  DEF Acknowledge, Goto
<1>14. ASSUME NEW t \in Threads, LeaveWait(t) PROVE TypeOK'
  BY <1>14, WaitingPositive
  DEF LeaveWait, Goto, Release
<1>15. ASSUME NEW t \in Threads, RelockMutex(t) PROVE TypeOK'
  BY <1>15
  DEF RelockMutex, Goto
<1>16. ASSUME NEW t \in Threads, PostSignal(t) PROVE TypeOK'
  BY <1>16
  DEF PostSignal, Goto
<1>17. ASSUME NEW t \in Threads, UnlockAfterPosts(t) PROVE TypeOK'
  BY <1>17
  DEF UnlockAfterPosts, Goto, Release
<1>18. ASSUME NEW t \in Threads, Collect(t) PROVE TypeOK'
  BY <1>18
  DEF Collect, Goto, LocalsInStep, CollectsDue
<1>19. CASE UNCHANGED vars
  BY <1>19 DEF vars
<1> QED
  BY <1>1, <1>2, <1>3, <1>4, <1>5, <1>6, <1>7, <1>8, <1>9, <1>10, <1>11,
       <1>12, <1>13, <1>14, <1>15, <1>16, <1>17, <1>18, <1>19 DEF Next, CallStep

\* Every step keeps the thread inside cond->lock unique.
LEMMA LockStep ==
    ASSUME IInv, [Next]_vars
    PROVE  LockOwned'
<1> USE DEF IInv, LockOwned, TypeOK, Pcs, WaitPcs, LockPcs, counts, sems,
              locals
<1>1. ASSUME NEW t \in Threads, LockMutex(t) PROVE LockOwned'
  BY <1>1, ThreadsAssumption
  DEF LockMutex
<1>2. ASSUME NEW t \in Threads, UnlockMutex(t) PROVE LockOwned'
  BY <1>2, ThreadsAssumption
  DEF UnlockMutex
<1>3. ASSUME NEW t \in Threads, EnterWait(t) PROVE LockOwned'
  BY <1>3, ThreadsAssumption
  DEF EnterWait, Goto, Acquire
<1>4. ASSUME NEW t \in Threads, CondSignal(t) PROVE LockOwned'
  BY <1>4, ThreadsAssumption
  DEF CondSignal, Goto, Grant, CanSignal, Acquire
<1>5. ASSUME NEW t \in Threads, CondBroadcast(t) PROVE LockOwned'
  BY <1>5, ThreadsAssumption
  DEF CondBroadcast, Goto, Grant, CanSignal, Acquire
<1>6. ASSUME NEW t \in Threads, NothingToSignal(t) PROVE LockOwned'
  BY <1>6, ThreadsAssumption
  DEF NothingToSignal, Goto, Acquire, CanSignal
<1>7. ASSUME NEW t \in Threads, UnlockAfterCount(t) PROVE LockOwned'
  BY <1>7, ThreadsAssumption
  DEF UnlockAfterCount, Goto, Release
<1>8. ASSUME NEW t \in Threads, ReleaseMutex(t) PROVE LockOwned'
  BY <1>8, ThreadsAssumption
  DEF ReleaseMutex, Goto
<1>9. ASSUME NEW t \in Threads, TakeSignal(t) PROVE LockOwned'
  BY <1>9, ThreadsAssumption
  DEF TakeSignal, Goto
<1>10. ASSUME NEW t \in Threads, TimeOut(t) PROVE LockOwned'
  BY <1>10, ThreadsAssumption
  DEF TimeOut, Goto
<1>11. ASSUME NEW t \in Threads, Relock(t) PROVE LockOwned'
  BY <1>11, ThreadsAssumption
  DEF Relock, Goto, Acquire, AfterWake
<1>12. ASSUME NEW t \in Threads, EatSignal(t) PROVE LockOwned'
  BY <1>12, ThreadsAssumption
  DEF EatSignal, Goto
<1>13. ASSUME NEW t \in Threads, Acknowledge(t) PROVE LockOwned'
  BY <1>13, ThreadsAssumption
  DEF Acknowledge, Goto
<1>14. ASSUME NEW t \in Threads, LeaveWait(t) PROVE LockOwned'
  BY <1>14, ThreadsAssumption
  DEF LeaveWait, Goto, Release
<1>15. ASSUME NEW t \in Threads, RelockMutex(t) PROVE LockOwned'
  BY <1>15, ThreadsAssumption
  DEF RelockMutex, Goto
<1>16. ASSUME NEW t \in Threads, PostSignal(t) PROVE LockOwned'
  BY <1>16, ThreadsAssumption
  DEF PostSignal, Goto
<1>17. ASSUME NEW t \in Threads, UnlockAfterPosts(t) PROVE LockOwned'
  BY <1>17, ThreadsAssumption
  DEF UnlockAfterPosts, Goto, Release
<1>18. ASSUME NEW t \in Threads, Collect(t) PROVE LockOwned'
  BY <1>18, ThreadsAssumption
  DEF Collect, Goto
<1>19. CASE UNCHANGED vars
  BY <1>19 DEF vars
<1> QED
  BY <1>1, <1>2, <1>3, <1>4, <1>5, <1>6, <1>7, <1>8, <1>9, <1>10, <1>11,
       <1>12, <1>13, <1>14, <1>15, <1>16, <1>17, <1>18, <1>19 DEF Next, CallStep

\* Every step keeps the signalers' local counters in step with their pc.
LEMMA LocalsStep ==
    ASSUME IInv, [Next]_vars
    PROVE  LocalsInStep'
<1> USE DEF IInv, TypeOK, LocalsInStep, PostsDone, CollectsDue,
              OnlyTimedTimeOut, counts, sems, locals
<1>1. ASSUME NEW t \in Threads, LockMutex(t) PROVE LocalsInStep'
  BY <1>1
  DEF LockMutex
<1>2. ASSUME NEW t \in Threads, UnlockMutex(t) PROVE LocalsInStep'
  BY <1>2
  DEF UnlockMutex
<1>3. ASSUME NEW t \in Threads, EnterWait(t) PROVE LocalsInStep'
  BY <1>3
  DEF EnterWait, Goto, Acquire
<1>4. ASSUME NEW t \in Threads, CondSignal(t) PROVE LocalsInStep'
  BY <1>4
  DEF CondSignal, Goto, Grant, CanSignal, Acquire
<1>5. ASSUME NEW t \in Threads, CondBroadcast(t) PROVE LocalsInStep'
  BY <1>5
  DEF CondBroadcast, Goto, Grant, CanSignal, Acquire
<1>6. ASSUME NEW t \in Threads, NothingToSignal(t) PROVE LocalsInStep'
  BY <1>6
  DEF NothingToSignal, Goto, Acquire, CanSignal
<1>7. ASSUME NEW t \in Threads, UnlockAfterCount(t) PROVE LocalsInStep'
  BY <1>7
  DEF UnlockAfterCount, Goto, Release
<1>8. ASSUME NEW t \in Threads, ReleaseMutex(t) PROVE LocalsInStep'
  BY <1>8
  DEF ReleaseMutex, Goto
<1>9. ASSUME NEW t \in Threads, TakeSignal(t) PROVE LocalsInStep'
  BY <1>9
  DEF TakeSignal, Goto
<1>10. ASSUME NEW t \in Threads, TimeOut(t) PROVE LocalsInStep'
  BY <1>10
  DEF TimeOut, Goto
<1>11. ASSUME NEW t \in Threads, Relock(t) PROVE LocalsInStep'
  BY <1>11
  DEF Relock, Goto, Acquire, AfterWake
<1>12. ASSUME NEW t \in Threads, EatSignal(t) PROVE LocalsInStep'
  BY <1>12
  DEF EatSignal, Goto
<1>13. ASSUME NEW t \in Threads, Acknowledge(t) PROVE LocalsInStep'
  BY <1>13
  DEF Acknowledge, Goto
<1>14. ASSUME NEW t \in Threads, LeaveWait(t) PROVE LocalsInStep'
  BY <1>14
  DEF LeaveWait, Goto, Release
<1>15. ASSUME NEW t \in Threads, RelockMutex(t) PROVE LocalsInStep'
  BY <1>15
  DEF RelockMutex, Goto
<1>16. ASSUME NEW t \in Threads, PostSignal(t) PROVE LocalsInStep'
  BY <1>16
  DEF PostSignal, Goto
<1>17. ASSUME NEW t \in Threads, UnlockAfterPosts(t) PROVE LocalsInStep'
  BY <1>17
  DEF UnlockAfterPosts, Goto, Release
<1>18. ASSUME NEW t \in Threads, Collect(t) PROVE LocalsInStep'
  BY <1>18
  DEF Collect, Goto
<1>19. CASE UNCHANGED vars
  BY <1>19 DEF vars
<1> QED
  BY <1>1, <1>2, <1>3, <1>4, <1>5, <1>6, <1>7, <1>8, <1>9, <1>10, <1>11,
       <1>12, <1>13, <1>14, <1>15, <1>16, <1>17, <1>18, <1>19 DEF Next, CallStep

\* Every step counts in cond->waiting the threads it moves in or out.
LEMMA WaitingStep ==
    ASSUME IInv, [Next]_vars
    PROVE  WaitingCounts'
<1> USE DEF IInv, TypeOK, Pcs, WaitPcs, LockPcs, counts, sems, locals
<1>1. ASSUME NEW t \in Threads, LockMutex(t) PROVE WaitingCounts'
  <2>1. Counted' = Counted
    BY <1>1 DEF LockMutex, Counted
  <2> QED
    BY <1>1, <2>1 DEF LockMutex, WaitingCounts
<1>2. ASSUME NEW t \in Threads, UnlockMutex(t) PROVE WaitingCounts'
  <2>1. Counted' = Counted
    BY <1>2 DEF UnlockMutex, Counted
  <2> QED
    BY <1>2, <2>1 DEF UnlockMutex, WaitingCounts
<1>3. ASSUME NEW t \in Threads, EnterWait(t) PROVE WaitingCounts'
  <2>1. t \notin Counted /\ Counted \in SUBSET Threads
    BY <1>3 DEF EnterWait, Counted
  <2>2. Counted' = Counted \cup {t}
    BY <1>3 DEF EnterWait, Goto, Acquire, Counted
  <2> QED
    BY <1>3, <2>1, <2>2, AddThread DEF EnterWait, WaitingCounts
<1>4. ASSUME NEW t \in Threads, CondSignal(t) PROVE WaitingCounts'
  <2>1. Counted' = Counted
    BY <1>4 DEF CondSignal, Goto, Grant, CanSignal, Acquire, Counted
  <2> QED
    BY <1>4, <2>1 DEF CondSignal, WaitingCounts, Grant
<1>5. ASSUME NEW t \in Threads, CondBroadcast(t) PROVE WaitingCounts'
  <2>1. Counted' = Counted
    BY <1>5 DEF CondBroadcast, Goto, Grant, CanSignal, Acquire, Counted
  <2> QED
    BY <1>5, <2>1 DEF CondBroadcast, WaitingCounts, Grant
<1>6. ASSUME NEW t \in Threads, NothingToSignal(t) PROVE WaitingCounts'
  <2>1. Counted' = Counted
    BY <1>6 DEF NothingToSignal, Goto, Acquire, CanSignal, Counted
  <2> QED
    BY <1>6, <2>1 DEF NothingToSignal, WaitingCounts
<1>7. ASSUME NEW t \in Threads, UnlockAfterCount(t) PROVE WaitingCounts'
  <2>1. Counted' = Counted
    BY <1>7 DEF UnlockAfterCount, Goto, Release, Counted
  <2> QED
    BY <1>7, <2>1 DEF UnlockAfterCount, WaitingCounts
<1>8. ASSUME NEW t \in Threads, ReleaseMutex(t) PROVE WaitingCounts'
  <2>1. Counted' = Counted
    BY <1>8 DEF ReleaseMutex, Goto, Counted
  <2> QED
    BY <1>8, <2>1 DEF ReleaseMutex, WaitingCounts
<1>9. ASSUME NEW t \in Threads, TakeSignal(t) PROVE WaitingCounts'
  <2>1. Counted' = Counted
    BY <1>9 DEF TakeSignal, Goto, Counted
  <2> QED
    BY <1>9, <2>1 DEF TakeSignal, WaitingCounts
<1>10. ASSUME NEW t \in Threads, TimeOut(t) PROVE WaitingCounts'
  <2>1. Counted' = Counted
    BY <1>10 DEF TimeOut, Goto, Counted
  <2> QED
    BY <1>10, <2>1 DEF TimeOut, WaitingCounts
<1>11. ASSUME NEW t \in Threads, Relock(t) PROVE WaitingCounts'
  <2>1. Counted' = Counted
    BY <1>11 DEF Relock, Goto, Acquire, AfterWake, Counted
  <2> QED
    BY <1>11, <2>1 DEF Relock, WaitingCounts
<1>12. ASSUME NEW t \in Threads, EatSignal(t) PROVE WaitingCounts'
  <2>1. Counted' = Counted
    BY <1>12 DEF EatSignal, Goto, Counted
  <2> QED
    BY <1>12, <2>1 DEF EatSignal, WaitingCounts
<1>13. ASSUME NEW t \in Threads, Acknowledge(t) PROVE WaitingCounts'
  <2>1. Counted' = Counted
    BY <1>13 DEF Acknowledge, Goto, Counted
  <2> QED
    BY <1>13, <2>1 DEF Acknowledge, WaitingCounts
<1>14. ASSUME NEW t \in Threads, LeaveWait(t) PROVE WaitingCounts'
  <2>1. t \in Counted /\ Counted \in SUBSET Threads
    BY <1>14 DEF LeaveWait, Counted
  <2>2. Counted' = Counted \ {t}
    BY <1>14 DEF LeaveWait, Goto, Release, Counted
  <2> QED
    BY <1>14, <2>1, <2>2, RemoveThread DEF LeaveWait, WaitingCounts
<1>15. ASSUME NEW t \in Threads, RelockMutex(t) PROVE WaitingCounts'
  <2>1. Counted' = Counted
    BY <1>15 DEF RelockMutex, Goto, Counted
  <2> QED
    BY <1>15, <2>1 DEF RelockMutex, WaitingCounts
<1>16. ASSUME NEW t \in Threads, PostSignal(t) PROVE WaitingCounts'
  <2>1. Counted' = Counted
    BY <1>16 DEF PostSignal, Goto, Counted
  <2> QED
    BY <1>16, <2>1 DEF PostSignal, WaitingCounts
<1>17. ASSUME NEW t \in Threads, UnlockAfterPosts(t) PROVE WaitingCounts'
  <2>1. Counted' = Counted
    BY <1>17 DEF UnlockAfterPosts, Goto, Release, Counted
  <2> QED
    BY <1>17, <2>1 DEF UnlockAfterPosts, WaitingCounts
<1>18. ASSUME NEW t \in Threads, Collect(t) PROVE WaitingCounts'
  <2>1. Counted' = Counted
    BY <1>18 DEF Collect, Goto, Counted
  <2> QED
    BY <1>18, <2>1 DEF Collect, WaitingCounts
<1>19. CASE UNCHANGED vars
  BY <1>19 DEF vars, Counted, WaitingCounts
<1> QED
  BY <1>1, <1>2, <1>3, <1>4, <1>5, <1>6, <1>7, <1>8, <1>9, <1>10, <1>11,
       <1>12, <1>13, <1>14, <1>15, <1>16, <1>17, <1>18, <1>19 DEF Next, CallStep

LEMMA PostsToComeNat ==
    ASSUME TypeOK
    PROVE  PostsToCome \in Nat
  BY DEF TypeOK, PostsToCome

LEMMA TookNat == Cardinality(TookSignal) \in Nat
<1>1. TookSignal \in SUBSET Threads
  BY DEF TookSignal
<1> QED
  BY <1>1, CountThreads

\* Every step moves a signal from one of its three places to the next, and
\* keeps their sum equal to cond->signals.
LEMMA TokenStep ==
    ASSUME IInv, [Next]_vars
    PROVE  TokenBalance'
<1> USE DEF IInv, TypeOK, Pcs, WaitPcs, LockPcs, counts, sems, locals
<1>1. ASSUME NEW t \in Threads, LockMutex(t) PROVE TokenBalance'
  <2>1. TookSignal' = TookSignal
    BY <1>1 DEF LockMutex, TookSignal
  <2>2. PostsToCome' = PostsToCome
    BY <1>1, ThreadsAssumption
    DEF LockMutex, PostsToCome, LocalsInStep, PostsDone, LockOwned
  <2> QED
    BY <1>1, <2>1, <2>2 DEF LockMutex, TokenBalance
<1>2. ASSUME NEW t \in Threads, UnlockMutex(t) PROVE TokenBalance'
  <2>1. TookSignal' = TookSignal
    BY <1>2 DEF UnlockMutex, TookSignal
  <2>2. PostsToCome' = PostsToCome
    BY <1>2, ThreadsAssumption
    DEF UnlockMutex, PostsToCome, LocalsInStep, PostsDone, LockOwned
  <2> QED
    BY <1>2, <2>1, <2>2 DEF UnlockMutex, TokenBalance
<1>3. ASSUME NEW t \in Threads, EnterWait(t) PROVE TokenBalance'
  <2>1. TookSignal' = TookSignal
    BY <1>3 DEF EnterWait, Goto, Acquire, TookSignal
  <2>2. PostsToCome' = PostsToCome
    BY <1>3, ThreadsAssumption
    DEF EnterWait, Goto, Acquire, PostsToCome, LocalsInStep, PostsDone,
          LockOwned
  <2> QED
    BY <1>3, <2>1, <2>2 DEF EnterWait, TokenBalance
<1>4. ASSUME NEW t \in Threads, CondSignal(t) PROVE TokenBalance'
  <2>1. TookSignal' = TookSignal
    BY <1>4 DEF CondSignal, Goto, Grant, CanSignal, Acquire, TookSignal
  <2>2. PostsToCome = 0 /\ PostsToCome' = 1
    BY <1>4, ThreadsAssumption
    DEF CondSignal, Goto, Grant, CanSignal, Acquire, PostsToCome
  <2> QED
    BY <1>4, <2>1, <2>2, TookNat DEF CondSignal, Grant, TokenBalance
<1>5. ASSUME NEW t \in Threads, CondBroadcast(t) PROVE TokenBalance'
  <2>1. TookSignal' = TookSignal
    BY <1>5 DEF CondBroadcast, Goto, Grant, CanSignal, Acquire, TookSignal
  <2>2. PostsToCome = 0 /\ PostsToCome' = waiting - signals
    BY <1>5, ThreadsAssumption
    DEF CondBroadcast, Goto, Grant, CanSignal, Acquire, PostsToCome
  <2> QED
    BY <1>5, <2>1, <2>2, TookNat DEF CondBroadcast, Grant, TokenBalance
<1>6. ASSUME NEW t \in Threads, NothingToSignal(t) PROVE TokenBalance'
  <2>1. TookSignal' = TookSignal
    BY <1>6 DEF NothingToSignal, Goto, Acquire, CanSignal, TookSignal
  <2>2. PostsToCome' = PostsToCome
    BY <1>6, ThreadsAssumption
    DEF NothingToSignal, Goto, Acquire, CanSignal, PostsToCome,
          LocalsInStep, PostsDone, LockOwned
  <2> QED
    BY <1>6, <2>1, <2>2 DEF NothingToSignal, TokenBalance
<1>7. ASSUME NEW t \in Threads, UnlockAfterCount(t) PROVE TokenBalance'
  <2>1. TookSignal' = TookSignal
    BY <1>7 DEF UnlockAfterCount, Goto, Release, TookSignal
  <2>2. PostsToCome' = PostsToCome
    BY <1>7, ThreadsAssumption
    DEF UnlockAfterCount, Goto, Release, PostsToCome, LocalsInStep,
          PostsDone, LockOwned
  <2> QED
    BY <1>7, <2>1, <2>2 DEF UnlockAfterCount, TokenBalance
<1>8. ASSUME NEW t \in Threads, ReleaseMutex(t) PROVE TokenBalance'
  <2>1. TookSignal' = TookSignal
    BY <1>8 DEF ReleaseMutex, Goto, TookSignal
  <2>2. PostsToCome' = PostsToCome
    BY <1>8, ThreadsAssumption
    DEF ReleaseMutex, Goto, PostsToCome, LocalsInStep, PostsDone, LockOwned
  <2> QED
    BY <1>8, <2>1, <2>2 DEF ReleaseMutex, TokenBalance
<1>9. ASSUME NEW t \in Threads, TakeSignal(t) PROVE TokenBalance'
  <2>1. t \notin TookSignal /\ TookSignal \in SUBSET Threads
    BY <1>9 DEF TakeSignal, TookSignal
  <2>2. TookSignal' = TookSignal \cup {t}
    BY <1>9 DEF TakeSignal, Goto, TookSignal
  <2>3. PostsToCome' = PostsToCome
    BY <1>9 DEF TakeSignal, PostsToCome
  <2> QED
    BY <1>9, <2>1, <2>2, <2>3, AddThread, PostsToComeNat DEF TakeSignal,
       TokenBalance
<1>10. ASSUME NEW t \in Threads, TimeOut(t) PROVE TokenBalance'
  <2>1. TookSignal' = TookSignal
    BY <1>10 DEF TimeOut, Goto, TookSignal
  <2>2. PostsToCome' = PostsToCome
    BY <1>10, ThreadsAssumption
    DEF TimeOut, Goto, PostsToCome, LocalsInStep, PostsDone, LockOwned
  <2> QED
    BY <1>10, <2>1, <2>2 DEF TimeOut, TokenBalance
<1>11. ASSUME NEW t \in Threads, Relock(t) PROVE TokenBalance'
  <2>3. pc[t] = "awake" /\ ~timedOut[t] => signals > 0
    BY <1>11, TookIsCounted DEF Relock, TookSignal
  <2>1. TookSignal' = TookSignal
    BY <1>11, <2>3
    DEF Relock, Goto, Acquire, AfterWake, TookSignal
  <2>2. PostsToCome' = PostsToCome
    BY <1>11, ThreadsAssumption
    DEF Relock, Goto, Acquire, AfterWake, PostsToCome, LocalsInStep,
          PostsDone, LockOwned
  <2> QED
    BY <1>11, <2>1, <2>2 DEF Relock, TokenBalance
<1>12. ASSUME NEW t \in Threads, EatSignal(t) PROVE TokenBalance'
  <2>1. t \notin TookSignal /\ TookSignal \in SUBSET Threads
    BY <1>12 DEF EatSignal, TookSignal
  <2>2. TookSignal' = TookSignal \cup {t}
    BY <1>12 DEF EatSignal, Goto, TookSignal
  <2>3. PostsToCome' = PostsToCome
    BY <1>12 DEF EatSignal, PostsToCome
  <2> QED
    BY <1>12, <2>1, <2>2, <2>3, AddThread, PostsToComeNat DEF EatSignal,
       TokenBalance
<1>13. ASSUME NEW t \in Threads, Acknowledge(t) PROVE TokenBalance'
  <2>1. t \in TookSignal /\ TookSignal \in SUBSET Threads
    BY <1>13 DEF Acknowledge, TookSignal
  <2>2. TookSignal' = TookSignal \ {t}
    BY <1>13 DEF Acknowledge, Goto, TookSignal
  <2>3. PostsToCome' = PostsToCome
    BY <1>13 DEF Acknowledge, PostsToCome
  <2> QED
    BY <1>13, <2>1, <2>2, <2>3, RemoveThread, PostsToComeNat
    DEF Acknowledge, TokenBalance
<1>14. ASSUME NEW t \in Threads, LeaveWait(t) PROVE TokenBalance'
  <2>1. TookSignal' = TookSignal
    BY <1>14 DEF LeaveWait, Goto, Release, TookSignal
  <2>2. PostsToCome' = PostsToCome
    BY <1>14, ThreadsAssumption
    DEF LeaveWait, Goto, Release, PostsToCome, LocalsInStep, PostsDone,
          LockOwned
  <2> QED
    BY <1>14, <2>1, <2>2 DEF LeaveWait, TokenBalance
<1>15. ASSUME NEW t \in Threads, RelockMutex(t) PROVE TokenBalance'
  <2>1. TookSignal' = TookSignal
    BY <1>15 DEF RelockMutex, Goto, TookSignal
  <2>2. PostsToCome' = PostsToCome
    BY <1>15, ThreadsAssumption
    DEF RelockMutex, Goto, PostsToCome, LocalsInStep, PostsDone, LockOwned
  <2> QED
    BY <1>15, <2>1, <2>2 DEF RelockMutex, TokenBalance
<1>16. ASSUME NEW t \in Threads, PostSignal(t) PROVE TokenBalance'
  <2>1. TookSignal' = TookSignal
    BY <1>16 DEF PostSignal, TookSignal
  <2>2. lock = t
    BY <1>16 DEF PostSignal, LockOwned
  <2>3. PostsToCome = posts[t] /\ PostsToCome' = posts[t] - 1
    BY <1>16, <2>2, ThreadsAssumption DEF PostSignal, PostsToCome
  <2> QED
    BY <1>16, <2>1, <2>3, TookNat DEF PostSignal, TokenBalance
<1>17. ASSUME NEW t \in Threads, UnlockAfterPosts(t) PROVE TokenBalance'
  <2>1. TookSignal' = TookSignal
    BY <1>17 DEF UnlockAfterPosts, Goto, Release, TookSignal
  <2>2. PostsToCome' = PostsToCome
    BY <1>17, ThreadsAssumption
    DEF UnlockAfterPosts, Goto, Release, PostsToCome, LocalsInStep,
          PostsDone, LockOwned
  <2> QED
    BY <1>17, <2>1, <2>2 DEF UnlockAfterPosts, TokenBalance
<1>18. ASSUME NEW t \in Threads, Collect(t) PROVE TokenBalance'
  <2>1. TookSignal' = TookSignal
    BY <1>18 DEF Collect, Goto, TookSignal
  <2>2. PostsToCome' = PostsToCome
    BY <1>18, ThreadsAssumption
    DEF Collect, Goto, PostsToCome, LocalsInStep, PostsDone, LockOwned
  <2> QED
    BY <1>18, <2>1, <2>2 DEF Collect, TokenBalance
<1>19. CASE UNCHANGED vars
  BY <1>19 DEF vars, TokenBalance, TookSignal, PostsToCome
<1> QED
  BY <1>1, <1>2, <1>3, <1>4, <1>5, <1>6, <1>7, <1>8, <1>9, <1>10, <1>11,
       <1>12, <1>13, <1>14, <1>15, <1>16, <1>17, <1>18, <1>19 DEF Next, CallStep

----------------------------------------------------------------------------
\* The strengthened invariant is inductive.
LEMMA NextIInv == IInv /\ [Next]_vars => IInv'
  BY TypeStep, LockStep, LocalsStep, WaitingStep, TokenStep DEF IInv

THEOREM SpecIInv == Spec => []IInv
  BY InitIInv, NextIInv, PTL DEF Spec

\* The types hold, so no counter or semaphore ever goes below zero, for any
\* number of waiters, with or without timeouts, and of signalers.
THEOREM SpecTypeOK == Spec => []TypeOK
<1>1. IInv => TypeOK
  BY DEF IInv
<1> QED
  BY <1>1, SpecIInv, PTL

\* cond->signals always equals the posts to come, the tokens of wait_sem and
\* the tokens in the hands of woken waiters: no wake-up is lost.
THEOREM SpecTokenBalance == Spec => []TokenBalance
<1>1. IInv => TokenBalance
  BY DEF IInv
<1> QED
  BY <1>1, SpecIInv, PTL

\* A waiter that took a token acknowledges it: the test cond->signals > 0 at
\* cond_win.c:170 never fails for it.
THEOREM SpecWokenFindsSignal == Spec => []WokenFindsSignal
<1>1. IInv => WokenFindsSignal
  BY TookIsCounted DEF IInv, WokenFindsSignal, TookSignal
<1> QED
  BY <1>1, SpecIInv, PTL

----------------------------------------------------------------------------
\* A thread waits for acknowledgements only inside a call that signals.
NoneDueOutside == \A t \in Threads : pc[t] \notin {"post", "collect"} => due[t] = 0

HInv == IInv /\ NoneDueOutside /\ IsFiniteSet(Awaited) /\ HandshakeBalance

\* The acknowledgements awaited when a call has begun, and when it has
\* collected one.
LEMMA AwaitMore ==
    ASSUME NEW t \in Threads, NEW n \in Nat, due \in [Threads -> Nat], due[t] = 0,
           due' = [due EXCEPT ![t] = n], IsFiniteSet(Awaited)
    PROVE  /\ IsFiniteSet(Awaited')
           /\ Cardinality(Awaited') = Cardinality(Awaited) + n
           /\ Cardinality(Awaited) \in Nat
<1> DEFINE mine == {t} \X (1 .. n)
<1>1. Awaited' = Awaited \cup mine
  BY DEF Awaited
<1>2. Awaited \cap mine = {}
  BY DEF Awaited
<1>3. IsFiniteSet({t}) /\ Cardinality({t}) = 1
  BY FS_Singleton
<1>4. IsFiniteSet(1 .. n) /\ Cardinality(1 .. n) = n
  BY FS_Interval
<1>5. IsFiniteSet(mine) /\ Cardinality(mine) = n
  <2>1. IsFiniteSet(mine) /\ Cardinality(mine) = Cardinality({t}) * Cardinality(1 .. n)
    BY <1>3, <1>4, FS_Product
  <2> QED
    BY <1>3, <1>4, <2>1
<1> HIDE DEF mine
<1>6. /\ IsFiniteSet(Awaited \cup mine)
      /\ Cardinality(Awaited \cup mine)
           = Cardinality(Awaited) + Cardinality(mine) - Cardinality(Awaited \cap mine)
  BY <1>5, FS_Union
<1>7. Cardinality(Awaited) \in Nat
  BY FS_CardinalityType
<1>8. Cardinality(Awaited \cap mine) = 0
  BY <1>2, FS_EmptySet
<1>9. Cardinality(Awaited \cup mine) = Cardinality(Awaited) + n
  <2> HIDE DEF Awaited
  <2> QED
    BY <1>5, <1>6, <1>7, <1>8
<1> QED
  BY <1>1, <1>6, <1>7, <1>9

LEMMA AwaitLess ==
    ASSUME NEW t \in Threads, due \in [Threads -> Nat], due[t] > 0,
           due' = [due EXCEPT ![t] = due[t] - 1], IsFiniteSet(Awaited)
    PROVE  /\ IsFiniteSet(Awaited')
           /\ Cardinality(Awaited') = Cardinality(Awaited) - 1
           /\ Cardinality(Awaited) \in Nat
<1> DEFINE last == <<t, due[t]>>
<1>1. last \in Awaited
  BY DEF Awaited
<1>2. Awaited' = Awaited \ {last}
  <2>1. \A u \in Threads, i \in Nat : <<u, i>> \in Awaited <=> i \in 1 .. due[u]
    BY DEF Awaited
  <2>2. \A u \in Threads, i \in Nat : <<u, i>> \in Awaited' <=> i \in 1 .. due'[u]
    BY DEF Awaited
  <2>3. \A u \in Threads, i \in Nat :
           i \in 1 .. due'[u] <=> i \in 1 .. due[u] /\ <<u, i>> # last
    OBVIOUS
  <2>4. \A p \in Awaited : \E u \in Threads, i \in Nat : p = <<u, i>>
    BY DEF Awaited
  <2>5. \A p \in Awaited' : \E u \in Threads, i \in Nat : p = <<u, i>>
    BY DEF Awaited
  <2> QED
    BY <2>1, <2>2, <2>3, <2>4, <2>5
<1> HIDE DEF last
<1>3. /\ IsFiniteSet(Awaited \ {last})
      /\ Cardinality(Awaited \ {last}) = Cardinality(Awaited) - 1
  BY <1>1, FS_RemoveElement
<1>4. Cardinality(Awaited) \in Nat
  BY FS_CardinalityType
<1> QED
  BY <1>2, <1>3, <1>4

\* Every step moves an acknowledgement from one side of the balance to the
\* other, or adds it to both.
LEMMA HandshakeStep ==
    ASSUME HInv, [Next]_vars
    PROVE  HInv'
<1>1. IInv /\ IInv'
  BY NextIInv DEF HInv
<1>2. TypeOK
  BY <1>1 DEF IInv
<1> DEFINE Sides == <<due, signals, waitDone>>
<1>3. ASSUME NEW t \in Threads, LockMutex(t) \/ UnlockMutex(t)
      PROVE  UNCHANGED Sides /\ NoneDueOutside'
  BY <1>3, <1>2 DEF HInv, NoneDueOutside, LockMutex, UnlockMutex, counts, sems, locals
<1>4. ASSUME NEW t \in Threads, EnterWait(t) \/ NothingToSignal(t)
      PROVE  UNCHANGED Sides /\ NoneDueOutside'
  BY <1>4, <1>2 DEF HInv, NoneDueOutside, EnterWait, NothingToSignal, Acquire, CanSignal,
     Goto, TypeOK, counts, sems, locals
<1>5. ASSUME NEW t \in Threads,
             \/ UnlockAfterCount(t) \/ ReleaseMutex(t)
             \/ TakeSignal(t) \/ TimeOut(t) \/ Relock(t)
             \/ EatSignal(t) \/ LeaveWait(t) \/ RelockMutex(t)
      PROVE  UNCHANGED Sides /\ NoneDueOutside'
  BY <1>5, <1>2 DEF HInv, NoneDueOutside, UnlockAfterCount, ReleaseMutex, TakeSignal,
     TimeOut, Relock, AfterWake, EatSignal, LeaveWait, RelockMutex, Goto, Acquire, Release,
     TypeOK, counts, sems, locals
<1>6. ASSUME NEW t \in Threads, PostSignal(t) \/ UnlockAfterPosts(t)
      PROVE  UNCHANGED Sides /\ NoneDueOutside'
  BY <1>6, <1>2 DEF HInv, NoneDueOutside, PostSignal, UnlockAfterPosts, Goto, Release,
     TypeOK, counts, sems, locals
<1>7. ASSUME UNCHANGED Sides, NoneDueOutside' PROVE HInv'
  <2>1. Awaited' = Awaited
    BY <1>7 DEF Awaited
  <2> QED
    BY <1>1, <1>7, <2>1 DEF HInv, HandshakeBalance
<1>8. ASSUME NEW t \in Threads, NEW n \in Nat, Grant(t, n) PROVE HInv'
  <2>1. due[t] = 0
    BY <1>8 DEF Grant, CanSignal, HInv, NoneDueOutside
  <2>2. /\ due' = [due EXCEPT ![t] = n] /\ signals' = signals + n /\ waitDone' = waitDone
        /\ pc' = [pc EXCEPT ![t] = "post"]
    BY <1>8 DEF Grant, Goto, sems
  <2>3. NoneDueOutside'
    BY <1>2, <2>2 DEF HInv, NoneDueOutside, TypeOK
  <2>4. /\ IsFiniteSet(Awaited')
        /\ Cardinality(Awaited') = Cardinality(Awaited) + n
    BY <1>2, <2>1, <2>2, AwaitMore DEF HInv, TypeOK
  <2> QED
    BY <1>1, <1>2, <2>2, <2>3, <2>4 DEF HInv, HandshakeBalance, TypeOK
<1>9. ASSUME NEW t \in Threads, CondSignal(t) PROVE HInv'
  BY <1>8, <1>9 DEF CondSignal
<1>10. ASSUME NEW t \in Threads, CondBroadcast(t) PROVE HInv'
  <2>1. waiting - signals \in Nat
    BY <1>2, <1>10 DEF CondBroadcast, TypeOK
  <2> QED
    BY <1>8, <1>10, <2>1 DEF CondBroadcast
<1>11. ASSUME NEW t \in Threads, Acknowledge(t) PROVE HInv'
  <2>1. signals > 0
    BY <1>1, <1>11, AckFindsSignal DEF Acknowledge
  <2>2. /\ waitDone' = waitDone + 1 /\ signals' = signals - 1 /\ due' = due
        /\ pc' = [pc EXCEPT ![t] = "leave"]
    BY <1>11 DEF Acknowledge, Goto, locals
  <2>3. NoneDueOutside'
    BY <1>2, <1>11, <2>2 DEF HInv, NoneDueOutside, TypeOK, Acknowledge
  <2>4. Awaited' = Awaited
    BY <2>2 DEF Awaited
  <2> QED
    BY <1>1, <1>2, <2>1, <2>2, <2>3, <2>4 DEF HInv, HandshakeBalance, TypeOK
<1>12. ASSUME NEW t \in Threads, Collect(t) PROVE HInv'
  <2>1. due[t] > 0
    BY <1>1, <1>12 DEF Collect, IInv, LocalsInStep, CollectsDue
  <2>2. /\ waitDone > 0 /\ waitDone' = waitDone - 1 /\ signals' = signals
        /\ due' = [due EXCEPT ![t] = due[t] - 1]
        /\ pc' = [pc EXCEPT ![t] = IF due[t] = 1 THEN "idle" ELSE "collect"]
    BY <1>12 DEF Collect, Goto, counts
  <2>3. NoneDueOutside'
    BY <1>2, <2>1, <2>2 DEF HInv, NoneDueOutside, TypeOK
  <2>4. /\ IsFiniteSet(Awaited')
        /\ Cardinality(Awaited') = Cardinality(Awaited) - 1
    BY <1>2, <2>1, <2>2, AwaitLess DEF HInv, TypeOK
  <2> QED
    BY <1>1, <1>2, <2>2, <2>3, <2>4 DEF HInv, HandshakeBalance, TypeOK
<1>13. CASE UNCHANGED vars
  BY <1>7, <1>13 DEF vars, counts, sems, locals, HInv, NoneDueOutside
<1> QED
  BY <1>3, <1>4, <1>5, <1>6, <1>7, <1>9, <1>10, <1>11, <1>12, <1>13 DEF Next, CallStep

LEMMA InitHandshake == Init => HInv
<1> SUFFICES ASSUME Init PROVE HInv
  OBVIOUS
<1>1. IInv
  BY InitIInv
<1>2. Awaited = {}
  BY DEF Init, Awaited
<1>3. NoneDueOutside /\ signals + waitDone = 0
  BY DEF Init, NoneDueOutside
<1> QED
  BY <1>1, <1>2, <1>3, FS_EmptySet DEF HInv, HandshakeBalance

\* The acknowledgements signalers wait for are exactly the signals that are
\* not acknowledged and the tokens of wait_done: none is short of one.
THEOREM SpecHandshakeBalance == Spec => []HandshakeBalance
<1>1. HInv => HandshakeBalance
  BY DEF HInv
<1> QED
  BY <1>1, InitHandshake, HandshakeStep, PTL DEF Spec

----------------------------------------------------------------------------
LEMMA SameCardinality == \A S : Abs!Cardinality(S) = Cardinality(S)
  BY DEF Abs!Cardinality, Cardinality, Abs!IsFiniteSet, IsFiniteSet

\* Every step maps to a step of CondVarAbs or leaves its variables alone.
LEMMA RefineStep ==
    ASSUME IInv, [Next]_vars
    PROVE  [Abs!ANext]_(Abs!avars)
<1> USE DEF IInv, TypeOK, Pcs, WaitPcs, LockPcs, counts, sems, locals
<1>1. ASSUME NEW t \in Threads, LockMutex(t) PROVE [Abs!ANext]_(Abs!avars)
  BY <1>1 DEF LockMutex, Inside, Abs!avars
<1>2. ASSUME NEW t \in Threads, UnlockMutex(t) PROVE [Abs!ANext]_(Abs!avars)
  BY <1>2 DEF UnlockMutex, Inside, Abs!avars
<1>3. ASSUME NEW t \in Threads, EnterWait(t) PROVE [Abs!ANext]_(Abs!avars)
  <2>1. t \notin Inside /\ Inside' = Inside \cup {t} /\ signals' = signals
    BY <1>3 DEF EnterWait, Goto, Inside
  <2> QED
    BY <2>1 DEF Abs!ANext, Abs!StartWait
<1>4. ASSUME NEW t \in Threads, CondSignal(t) PROVE [Abs!ANext]_(Abs!avars)
  <2>1. lock = NoThread /\ waiting > signals
    BY <1>4 DEF CondSignal, Grant, Acquire
  <2>2. Inside = Counted
    BY <2>1, ThreadsAssumption DEF Inside, Counted, LockOwned
  <2>3. Inside' = Inside
    BY <1>4 DEF CondSignal, Grant, CanSignal, Goto, Inside
  <2>4. signals < Cardinality(Inside) /\ signals' = signals + 1
    BY <1>4, <2>1, <2>2 DEF CondSignal, Grant, WaitingCounts
  <2> QED
    BY <2>3, <2>4, SameCardinality DEF Abs!ANext, Abs!Signal
<1>5. ASSUME NEW t \in Threads, CondBroadcast(t) PROVE [Abs!ANext]_(Abs!avars)
  <2>1. lock = NoThread /\ waiting > signals
    BY <1>5 DEF CondBroadcast, Grant, Acquire
  <2>2. Inside = Counted
    BY <2>1, ThreadsAssumption DEF Inside, Counted, LockOwned
  <2>3. Inside' = Inside
    BY <1>5 DEF CondBroadcast, Grant, CanSignal, Goto, Inside
  <2>4. signals < Cardinality(Inside) /\ signals' = Cardinality(Inside)
    BY <1>5, <2>1, <2>2 DEF CondBroadcast, Grant, WaitingCounts
  <2> QED
    BY <2>3, <2>4, SameCardinality DEF Abs!ANext, Abs!Broadcast
<1>6. ASSUME NEW t \in Threads, NothingToSignal(t) PROVE [Abs!ANext]_(Abs!avars)
  BY <1>6 DEF NothingToSignal, Goto, Acquire, CanSignal, Inside, Abs!avars
<1>7. ASSUME NEW t \in Threads, UnlockAfterCount(t) PROVE [Abs!ANext]_(Abs!avars)
  BY <1>7 DEF UnlockAfterCount, Goto, Release, Inside, Abs!avars
<1>8. ASSUME NEW t \in Threads, ReleaseMutex(t) PROVE [Abs!ANext]_(Abs!avars)
  BY <1>8 DEF ReleaseMutex, Goto, Inside, Abs!avars
<1>9. ASSUME NEW t \in Threads, TakeSignal(t) PROVE [Abs!ANext]_(Abs!avars)
  BY <1>9 DEF TakeSignal, Goto, Inside, Abs!avars
<1>10. ASSUME NEW t \in Threads, TimeOut(t) PROVE [Abs!ANext]_(Abs!avars)
  BY <1>10 DEF TimeOut, Goto, Inside, Abs!avars
<1>11. ASSUME NEW t \in Threads, Relock(t) PROVE [Abs!ANext]_(Abs!avars)
  <2>1. pc[t] = "awake" /\ signals' = signals
    BY <1>11 DEF Relock
  <2>2. CASE signals > 0
    <3>1. Inside' = Inside
      BY <1>11, <2>1, <2>2 DEF Relock, AfterWake, Goto, Inside
    <3> QED
      BY <2>1, <3>1 DEF Abs!avars
  <2>3. CASE signals = 0
    <3>1. timedOut[t]
      BY <2>1, <2>3, TookIsCounted DEF TookSignal
    <3>2. t \in TimedThreads
      BY <3>1 DEF LocalsInStep, OnlyTimedTimeOut
    <3>3. t \in Inside /\ Inside' = Inside \ {t}
      BY <1>11, <2>1, <2>3 DEF Relock, AfterWake, Goto, Inside
    <3> QED
      BY <2>1, <2>3, <3>2, <3>3 DEF Abs!ANext, Abs!Expire
  <2> QED
    BY <2>2, <2>3
<1>12. ASSUME NEW t \in Threads, EatSignal(t) PROVE [Abs!ANext]_(Abs!avars)
  BY <1>12 DEF EatSignal, Goto, Inside, Abs!avars
<1>13. ASSUME NEW t \in Threads, Acknowledge(t) PROVE [Abs!ANext]_(Abs!avars)
  <2>1. t \in Inside /\ Inside' = Inside \ {t}
    BY <1>13 DEF Acknowledge, Goto, Inside
  <2>2. signals > 0 /\ signals' = signals - 1
    BY <1>13, AckFindsSignal DEF Acknowledge
  <2> QED
    BY <2>1, <2>2 DEF Abs!ANext, Abs!Wake
<1>14. ASSUME NEW t \in Threads, LeaveWait(t) PROVE [Abs!ANext]_(Abs!avars)
  BY <1>14 DEF LeaveWait, Goto, Release, Inside, Abs!avars
<1>15. ASSUME NEW t \in Threads, RelockMutex(t) PROVE [Abs!ANext]_(Abs!avars)
  BY <1>15 DEF RelockMutex, Goto, Inside, Abs!avars
<1>16. ASSUME NEW t \in Threads, PostSignal(t) PROVE [Abs!ANext]_(Abs!avars)
  BY <1>16 DEF PostSignal, Goto, Inside, Abs!avars
<1>17. ASSUME NEW t \in Threads, UnlockAfterPosts(t) PROVE [Abs!ANext]_(Abs!avars)
  BY <1>17 DEF UnlockAfterPosts, Goto, Release, Inside, Abs!avars
<1>18. ASSUME NEW t \in Threads, Collect(t) PROVE [Abs!ANext]_(Abs!avars)
  BY <1>18 DEF Collect, Goto, Inside, Abs!avars
<1>19. CASE UNCHANGED vars
  BY <1>19 DEF vars, Inside, Abs!avars
<1> QED
  BY <1>1, <1>2, <1>3, <1>4, <1>5, <1>6, <1>7, <1>8, <1>9, <1>10, <1>11,
       <1>12, <1>13, <1>14, <1>15, <1>16, <1>17, <1>18, <1>19 DEF Next, CallStep

\* The calls implement the steps of an abstract condition variable: a wake-up
\* is granted per signal, consumed by one waiter, and never lost.  (That it is
\* consumed in the end, the rest of ImplementsCondVar, is left to TLC.)
THEOREM SpecRefines == Spec => Abs!AInit /\ [][Abs!ANext]_(Abs!avars)
<1>1. Init => Abs!AInit
  BY DEF Init, Abs!AInit, Inside, WaitPcs
<1>2. IInv /\ [Next]_vars => [Abs!ANext]_(Abs!avars)
  BY RefineStep
<1> QED
  BY <1>1, <1>2, SpecIInv, PTL DEF Spec

(***************************************************************************)
(* Teams and their broadcasts.                                             *)
(***************************************************************************)
\* In a disciplined team, a thread waits for acknowledgements with the mutex.
DueHoldsMutex ==
    disciplined => \A t \in Threads : due[t] > 0 => mutex = t

\* While a broadcast has threads of its cohort to see go, they are all the
\* threads inside a wait, and each has a signal counted for it.
CohortIsInside ==
    \A t \in Threads : cohort[t] # {} =>
        /\ disciplined
        /\ due[t] > 0
        /\ cohort[t] = Inside
        /\ Cardinality(Inside) = signals

CTypeOK == team \subseteq Threads /\ cohort \in [Threads -> SUBSET Threads]

CInv == HInv /\ CTypeOK /\ DueHoldsMutex /\ CohortIsInside

----------------------------------------------------------------------------
LEMMA CInitCInv == CInit => CInv
<1> SUFFICES ASSUME CInit PROVE CInv
  OBVIOUS
<1>1. HInv
  BY InitHandshake DEF CInit
<1>2. CTypeOK
  BY TeamsAssumption DEF CInit, CTypeOK
<1>3. DueHoldsMutex /\ CohortIsInside
  BY DEF CInit, Init, DueHoldsMutex, CohortIsInside
<1> QED
  BY <1>1, <1>2, <1>3 DEF CInv

\* A step of the team is a step of CondVar.
LEMMA CNextNext ==
    ASSUME CTypeOK, [CNext]_cvars
    PROVE  [Next]_vars
<1>1. ASSUME NEW t \in team, Broadcast(t) \/ Signal(t) PROVE Next
  BY <1>1 DEF CTypeOK, Broadcast, Signal, Begin, Next
<1>2. ASSUME NEW t \in team,
             \/ Other(LockMutex, t) \/ Other(UnlockMutex, t)
             \/ Other(EnterWait, t) \/ Other(NothingToSignal, t)
             \/ Other(CallStep, t)
      PROVE  Next
  BY <1>2 DEF CTypeOK, Other, Next
<1>3. CASE UNCHANGED cvars
  BY <1>3 DEF cvars
<1> QED
  BY <1>1, <1>2, <1>3 DEF CNext

----------------------------------------------------------------------------
\* In a disciplined team one thread at most waits for acknowledgements, so
\* that all of them are for it.
LEMMA AllForOne ==
    ASSUME CInv, disciplined, NEW t \in Threads, due[t] > 0
    PROVE  due[t] = signals + waitDone
<1>1. due \in [Threads -> Nat]
  BY DEF CInv, HInv, IInv, TypeOK
<1>2. \A u \in Threads : u # t => due[u] = 0
  BY <1>1 DEF CInv, DueHoldsMutex
<1>3. Awaited = {t} \X (1 .. due[t])
  BY <1>1, <1>2 DEF Awaited
<1>4. IsFiniteSet({t}) /\ Cardinality({t}) = 1
  BY FS_Singleton
<1>5. IsFiniteSet(1 .. due[t]) /\ Cardinality(1 .. due[t]) = due[t]
  BY <1>1, FS_Interval
<1>6. Cardinality({t} \X (1 .. due[t])) = Cardinality({t}) * Cardinality(1 .. due[t])
  BY <1>4, <1>5, FS_Product
<1> QED
  BY <1>1, <1>3, <1>4, <1>5, <1>6 DEF CInv, HInv, HandshakeBalance

\* Somebody is inside a wait.
LEMMA InsideCounts ==
    ASSUME NEW t \in Inside
    PROVE  Cardinality(Inside) > 0
<1>1. Inside \in SUBSET Threads
  BY DEF Inside
<1>2. /\ Cardinality(Inside) \in Nat
      /\ Cardinality(Inside \ {t}) \in Nat
      /\ Cardinality(Inside \ {t}) = Cardinality(Inside) - 1
  BY <1>1, RemoveThread
<1> HIDE DEF Inside
<1> QED
  BY <1>2

\* A thread outside any call that holds the mutex of a disciplined team knows
\* that nobody waits for acknowledgements, and that no signal is outstanding.
LEMMA NoneOutstanding ==
    ASSUME CInv, disciplined, NEW u \in Threads, mutex = u, pc[u] = "idle"
    PROVE  /\ \A t \in Threads : due[t] = 0 /\ cohort[t] = {}
           /\ signals = 0
<1>1. due \in [Threads -> Nat] /\ signals \in Nat /\ waitDone \in Nat
  BY DEF CInv, HInv, IInv, TypeOK
<1>2. due[u] = 0
  BY DEF CInv, HInv, NoneDueOutside
<1>3. \A t \in Threads : due[t] = 0
  BY <1>1, <1>2 DEF CInv, DueHoldsMutex
<1>4. \A t \in Threads : cohort[t] = {}
  BY <1>3 DEF CInv, CohortIsInside
<1>5. Awaited = {}
  BY <1>3 DEF Awaited
<1>6. signals + waitDone = 0
  BY <1>5, FS_EmptySet DEF CInv, HInv, HandshakeBalance
<1> QED
  BY <1>1, <1>3, <1>4, <1>6

\* A step that leaves no cohort to wait for, and one that moves nobody into
\* or out of a wait.
LEMMA NoCohort ==
    ASSUME CInv, HInv', UNCHANGED <<team, disciplined>>, cohort' = StillWaiting,
           \A t \in Threads : cohort[t] = {}, DueHoldsMutex'
    PROVE  CInv'
  BY DEF CInv, CTypeOK, CohortIsInside, StillWaiting

LEMMA CohortStays ==
    ASSUME CInv, HInv', UNCHANGED <<team, disciplined>>, cohort' = StillWaiting,
           Inside' = Inside, signals' = signals, DueHoldsMutex',
           \A t \in Threads : cohort[t] # {} => due'[t] > 0
    PROVE  CInv'
<1>1. cohort' = cohort
  BY DEF CInv, CTypeOK, CohortIsInside, StillWaiting
<1>2. CohortIsInside'
  BY <1>1 DEF CInv, CohortIsInside
<1> QED
  BY <1>1, <1>2 DEF CInv, CTypeOK

----------------------------------------------------------------------------
\* A broadcast makes a cohort of all the threads inside a wait, none of which
\* has a signal yet.
LEMMA BroadcastStep ==
    ASSUME Followed \subseteq {TRUE}, CInv, HInv', NEW u \in Threads, Broadcast(u)
    PROVE  CInv'
<1>1. /\ pc[u] = "idle" /\ lock = NoThread /\ UNCHANGED <<team, disciplined, mutex>>
      /\ disciplined => mutex = u
      /\ waiting > signals
      /\ signals' = signals + (waiting - signals)
      /\ due' = [due EXCEPT ![u] = waiting - signals]
      /\ pc' = [pc EXCEPT ![u] = "post"]
  BY DEF Broadcast, Begin, CondBroadcast, Grant, CanSignal, Acquire, Goto
<1>2. /\ due \in [Threads -> Nat] /\ signals \in Nat /\ waiting \in Nat
      /\ pc \in [Threads -> Pcs]
  BY DEF CInv, HInv, IInv, TypeOK
<1>3. CASE ~disciplined
  <2>1. cohort' = cohort
    BY <1>3 DEF Broadcast
  <2> QED
    BY <1>1, <1>3, <2>1 DEF CInv, CTypeOK, DueHoldsMutex, CohortIsInside
<1>4. CASE disciplined
  <2>1. /\ \A t \in Threads : due[t] = 0 /\ cohort[t] = {}
        /\ signals = 0
    BY <1>1, <1>4, NoneOutstanding
  <2>2. Inside = Counted
    BY <1>1, ThreadsAssumption DEF Inside, Counted, CInv, HInv, IInv, LockOwned, LockPcs
  <2>3. waiting = Cardinality(Inside)
    BY <2>2 DEF CInv, HInv, IInv, WaitingCounts
  <2>4. Inside' = Inside
    BY <1>1, <1>2 DEF Inside, WaitPcs
  <2>5. \/ cohort' = [cohort EXCEPT ![u] = Inside]
        \/ cohort' = cohort
    BY DEF Broadcast
  <2>6. CTypeOK'
    BY <1>1, <2>5 DEF CInv, CTypeOK, Inside
  <2>7. due' \in [Threads -> Nat] /\ \A t \in Threads : t # u => due'[t] = 0
    BY <1>1, <1>2, <2>1
  <2>8. DueHoldsMutex'
    BY <1>1, <1>4, <2>7 DEF DueHoldsMutex
  <2>9. \A t \in Threads : cohort'[t] # {} => t = u /\ cohort'[t] = Inside
    BY <2>1, <2>5 DEF CInv, CTypeOK
  <2>10. due'[u] > 0 /\ signals' = Cardinality(Inside)
    BY <1>1, <1>2, <2>1, <2>3
  <2>11. CohortIsInside'
    BY <1>1, <1>4, <2>4, <2>9, <2>10 DEF CohortIsInside
  <2> QED
    BY <2>6, <2>8, <2>11 DEF CInv
<1> QED
  BY <1>3, <1>4

\* A signal under the mutex finds no cohort.
LEMMA SignalStep ==
    ASSUME CInv, HInv', NEW u \in Threads, Signal(u)
    PROVE  CInv'
<1>1. /\ pc[u] = "idle" /\ UNCHANGED <<team, disciplined, mutex>>
      /\ disciplined => mutex = u
      /\ due' = [due EXCEPT ![u] = 1]
      /\ cohort' = StillWaiting
  BY DEF Signal, Begin, CondSignal, Grant, CanSignal
<1>2. due \in [Threads -> Nat]
  BY DEF CInv, HInv, IInv, TypeOK
<1>3. \A t \in Threads : cohort[t] = {}
  BY <1>1, NoneOutstanding DEF CInv, CohortIsInside
<1>4. DueHoldsMutex'
  BY <1>1, <1>2, NoneOutstanding DEF CInv, DueHoldsMutex
<1> QED
  BY <1>1, <1>3, <1>4, NoCohort

\* The caller's mutex is not taken from a thread that waits for an
\* acknowledgement.
LEMMA MutexStep ==
    ASSUME CInv, NEW u \in Threads, UNCHANGED <<disciplined, due>>,
           \/ mutex = NoThread
           \/ mutex = u /\ pc[u] \notin {"post", "collect"}
    PROVE  DueHoldsMutex'
<1>1. \A t \in Threads : due[t] > 0 => pc[t] \in {"post", "collect"}
  BY DEF CInv, HInv, NoneDueOutside
<1> QED
  BY <1>1, ThreadsAssumption DEF CInv, DueHoldsMutex

\* The other steps, each under the history variable's update.
LEMMA OtherStep ==
    ASSUME CInv, HInv', NEW u \in Threads, UNCHANGED <<team, disciplined>>,
           cohort' = StillWaiting,
           \/ LockMutex(u) \/ UnlockMutex(u) \/ EnterWait(u) \/ NothingToSignal(u)
           \/ CallStep(u)
    PROVE  CInv'
<1> USE DEF counts, sems, locals
<1>1. /\ due \in [Threads -> Nat] /\ signals \in Nat /\ waitDone \in Nat
      /\ pc \in [Threads -> Pcs]
  BY DEF CInv, HInv, IInv, TypeOK
<1>2. \A t \in Threads : cohort[t] # {} => due[t] > 0
  BY DEF CInv, CohortIsInside
<1>3. ASSUME UNCHANGED <<due, mutex>> PROVE DueHoldsMutex'
  BY <1>3 DEF CInv, DueHoldsMutex
<1>4. ASSUME UNCHANGED <<signals, due, pc>>, DueHoldsMutex' PROVE CInv'
  <2>1. Inside' = Inside
    BY <1>4 DEF Inside
  <2> QED
    BY <1>2, <1>4, <2>1, CohortStays
<1>5. ASSUME NEW q, pc' = [pc EXCEPT ![u] = q],
             pc[u] \in WaitPcs \ {"leave"} <=> q \in WaitPcs \ {"leave"},
             UNCHANGED <<signals, due>>, DueHoldsMutex'
      PROVE  CInv'
  <2>1. Inside' = Inside
    BY <1>1, <1>5 DEF Inside
  <2> QED
    BY <1>2, <1>5, <2>1, CohortStays
<1>6. CASE LockMutex(u) \/ UnlockMutex(u)
  <2>1. DueHoldsMutex'
    BY <1>6, MutexStep DEF LockMutex, UnlockMutex
  <2> QED
    BY <1>4, <1>6, <2>1 DEF LockMutex, UnlockMutex
<1>7. CASE EnterWait(u)
  <2>1. DueHoldsMutex'
    BY <1>3, <1>7 DEF EnterWait
  <2>2. \A t \in Threads : cohort[t] = {}
    BY <1>7, NoneOutstanding DEF EnterWait, CInv, CohortIsInside
  <2> QED
    BY <2>1, <2>2, NoCohort
<1>8. CASE NothingToSignal(u)
  <2>1. DueHoldsMutex'
    BY <1>3, <1>8 DEF NothingToSignal
  <2> QED
    BY <1>5, <1>8, <2>1 DEF NothingToSignal, CanSignal, Goto, WaitPcs
<1>9. CASE UnlockAfterCount(u)
  <2>1. DueHoldsMutex'
    BY <1>3, <1>9 DEF UnlockAfterCount
  <2> QED
    BY <1>5, <1>9, <2>1 DEF UnlockAfterCount, Goto, WaitPcs
<1>10. CASE ReleaseMutex(u)
  <2>1. DueHoldsMutex'
    BY <1>10, MutexStep DEF ReleaseMutex
  <2> QED
    BY <1>5, <1>10, <2>1 DEF ReleaseMutex, Goto, WaitPcs
<1>11. CASE TakeSignal(u) \/ TimeOut(u)
  <2>1. DueHoldsMutex'
    BY <1>3, <1>11 DEF TakeSignal, TimeOut
  <2> QED
    BY <1>5, <1>11, <2>1 DEF TakeSignal, TimeOut, Goto, WaitPcs
<1>12. CASE Relock(u)
  <2>1. DueHoldsMutex'
    BY <1>3, <1>12 DEF Relock
  <2>2. CASE signals > 0
    BY <1>5, <1>12, <2>1, <2>2 DEF Relock, AfterWake, Goto, WaitPcs
  <2>3. CASE ~(signals > 0)
    <3>1. u \in Inside /\ Inside \in SUBSET Threads
      BY <1>12 DEF Relock, Inside, WaitPcs
    <3>2. Cardinality(Inside) > 0
      BY <3>1, InsideCounts
    <3>3. \A t \in Threads : cohort[t] = {}
      BY <2>3, <3>2 DEF CInv, CohortIsInside
    <3> QED
      BY <2>1, <3>3, NoCohort
  <2> QED
    BY <2>2, <2>3
<1>13. CASE EatSignal(u)
  <2>1. DueHoldsMutex'
    BY <1>3, <1>13 DEF EatSignal
  <2> QED
    BY <1>5, <1>13, <2>1 DEF EatSignal, Goto, WaitPcs
<1>14. CASE Acknowledge(u)
  <2>1. /\ pc[u] = "ack" /\ pc' = [pc EXCEPT ![u] = "leave"]
        /\ signals' = signals - 1 /\ UNCHANGED <<mutex, due>>
    BY <1>14 DEF Acknowledge, Goto
  <2>2. DueHoldsMutex'
    BY <1>3, <2>1
  <2>3. u \in Inside /\ Inside \in SUBSET Threads
    BY <2>1 DEF Inside, WaitPcs
  <2>4. Inside' = Inside \ {u}
    BY <1>1, <2>1 DEF Inside
  <2>5. Cardinality(Inside') = Cardinality(Inside) - 1
    BY <2>3, <2>4, RemoveThread
  <2>6. \A t \in Threads : cohort'[t] = cohort[t] \cap Inside'
    BY DEF StillWaiting
  <2>7. CTypeOK'
    BY DEF CInv, CTypeOK, StillWaiting
  <2>8. ASSUME NEW t \in Threads, cohort'[t] # {}
        PROVE  /\ disciplined' /\ due'[t] > 0 /\ cohort'[t] = Inside'
               /\ Cardinality(Inside') = signals'
    BY <1>1, <2>1, <2>4, <2>5, <2>6, <2>8 DEF CInv, CohortIsInside
  <2>9. CohortIsInside'
    BY <2>8 DEF CohortIsInside
  <2> QED
    BY <2>2, <2>7, <2>9 DEF CInv
<1>15. CASE LeaveWait(u)
  <2>1. DueHoldsMutex'
    BY <1>3, <1>15 DEF LeaveWait
  <2> QED
    BY <1>5, <1>15, <2>1 DEF LeaveWait, Goto, WaitPcs
<1>16. CASE RelockMutex(u)
  <2>1. DueHoldsMutex'
    BY <1>16, MutexStep DEF RelockMutex
  <2> QED
    BY <1>5, <1>16, <2>1 DEF RelockMutex, Goto, WaitPcs
<1>17. CASE PostSignal(u)
  <2>1. DueHoldsMutex'
    BY <1>3, <1>17 DEF PostSignal
  <2> QED
    BY <1>4, <1>17, <2>1 DEF PostSignal
<1>18. CASE UnlockAfterPosts(u)
  <2>1. DueHoldsMutex'
    BY <1>3, <1>18 DEF UnlockAfterPosts
  <2> QED
    BY <1>5, <1>18, <2>1 DEF UnlockAfterPosts, Goto, WaitPcs
<1>19. CASE Collect(u)
  <2>1. /\ pc[u] = "collect" /\ waitDone > 0 /\ UNCHANGED <<mutex, signals>>
        /\ due' = [due EXCEPT ![u] = due[u] - 1]
        /\ pc' = [pc EXCEPT ![u] = IF due[u] = 1 THEN "idle" ELSE "collect"]
    BY <1>19 DEF Collect, Goto
  <2>2. due[u] > 0
    BY <2>1 DEF CInv, HInv, IInv, LocalsInStep, CollectsDue
  <2>3. DueHoldsMutex'
    BY <1>1, <2>1, <2>2 DEF CInv, DueHoldsMutex
  <2>4. Inside' = Inside
    BY <1>1, <2>1 DEF Inside, WaitPcs
  <2>5. CASE \A t \in Threads : cohort[t] = {}
    BY <2>3, <2>5, NoCohort
  <2>6. CASE \E t \in Threads : cohort[t] # {}
    <3>1. PICK t \in Threads : cohort[t] # {}
      BY <2>6
    <3>2. disciplined /\ due[t] > 0 /\ Inside # {} /\ Cardinality(Inside) = signals
      BY <3>1 DEF CInv, CohortIsInside
    <3>3. signals > 0
      <4>1. PICK v \in Threads : v \in Inside
        BY <3>2 DEF Inside
      <4> QED
        BY <3>2, <4>1, InsideCounts
    <3>4. due[u] > 1
      BY <1>1, <2>1, <2>2, <3>2, <3>3, AllForOne
    <3>5. \A v \in Threads : due[v] > 0 => due'[v] > 0
      BY <1>1, <2>1, <3>4
    <3> QED
      BY <1>2, <2>1, <2>3, <2>4, <3>5, CohortStays
  <2> QED
    BY <2>5, <2>6
<1> QED
  BY <1>6, <1>7, <1>8, <1>9, <1>10, <1>11, <1>12, <1>13, <1>14, <1>15, <1>16,
     <1>17, <1>18, <1>19 DEF CallStep

LEMMA CNextCInv ==
    ASSUME Followed \subseteq {TRUE}, CInv, [CNext]_cvars
    PROVE  CInv'
<1>1. HInv'
  BY CNextNext, HandshakeStep DEF CInv
<1>2. team \subseteq Threads
  BY DEF CInv, CTypeOK
<1>3. ASSUME NEW t \in team, Broadcast(t) PROVE CInv'
  BY <1>1, <1>2, <1>3, BroadcastStep
<1>4. ASSUME NEW t \in team, Signal(t) PROVE CInv'
  BY <1>1, <1>2, <1>4, SignalStep
<1>5. ASSUME NEW t \in team,
             \/ Other(LockMutex, t) \/ Other(UnlockMutex, t)
             \/ Other(EnterWait, t) \/ Other(NothingToSignal, t)
             \/ Other(CallStep, t)
      PROVE  CInv'
  BY <1>1, <1>2, <1>5, OtherStep DEF Other
<1>6. CASE UNCHANGED cvars
  <2>1. UNCHANGED <<Inside, signals, disciplined, due, mutex, team, cohort>>
    BY <1>6 DEF cvars, vars, counts, locals, Inside
  <2> QED
    BY <1>1, <2>1 DEF CInv, CTypeOK, DueHoldsMutex, CohortIsInside
<1> QED
  BY <1>3, <1>4, <1>5, <1>6 DEF CNext

----------------------------------------------------------------------------
\* When a broadcast of a disciplined team returns, every thread that was
\* waiting when it was called has been restarted, whatever the team, its
\* size, and which of its waits expire meanwhile.
THEOREM CSpecBroadcastRestartsAll ==
    ASSUME Followed \subseteq {TRUE}
    PROVE  CSpec => []BroadcastRestartsAll
<1>1. CInit => CInv
  BY CInitCInv
<1>2. CInv /\ [CNext]_cvars => CInv'
  BY CNextCInv
<1>3. CInv => BroadcastRestartsAll
  <2> SUFFICES ASSUME CInv, NEW t \in Threads, pc[t] = "idle" PROVE cohort[t] = {}
    BY DEF BroadcastRestartsAll
  <2>1. due[t] = 0
    BY DEF CInv, HInv, NoneDueOutside
  <2> QED
    BY <2>1 DEF CInv, CohortIsInside
<1> QED
  BY <1>1, <1>2, <1>3, PTL DEF CSpec
============================================================================
