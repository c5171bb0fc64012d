---------------------------- MODULE SemWinProofs ----------------------------
(* Proofs about SemWin for any finite set of threads, any initial value and *)
(* any limit of the kernel semaphore.                                       *)
EXTENDS SemWin, FiniteSetTheorems, TLAPS

\* The threads whose step on sem->count is done on one side only, and those
\* whose token is on the callers' ledger but not in the kernel semaphore.
Uneven == {"release", "restore", "took"}
Underway == {"count", "release", "restore", "took"}

\* A token on the callers' ledger is in the kernel semaphore, or a post is on
\* its way to put it there, or a wait has it and has not counted it yet.
LedgerBalance == promised = kernel + At(Underway)

IInv == TypeOK /\ ValueBalance /\ LedgerBalance /\ NoUseAfterFree

----------------------------------------------------------------------------
\* How a step of one thread changes the number of threads at some labels.
LEMMA AtMoves ==
    ASSUME NEW L, NEW t \in Threads, NEW label,
           pc \in [Threads -> Pcs], Goto(t, label)
    PROVE  /\ At(L) \in Nat /\ At(L)' \in Nat
           /\ pc[t] \in L => At(L) >= 1
           /\ At(L)' = At(L) + (IF label \in L THEN 1 ELSE 0)
                             - (IF pc[t] \in L THEN 1 ELSE 0)
<1> DEFINE Others == {u \in Threads \ {t} : pc[u] \in L}
           Here == {u \in Threads : pc[u] \in L}
           There == {u \in Threads : pc'[u] \in L}
<1>1. IsFiniteSet(Others) /\ t \notin Others
  BY SemAssumption, FS_Subset
<1>2. Cardinality(Others) \in Nat
      /\ Cardinality(Others \cup {t}) = Cardinality(Others) + 1
  BY <1>1, FS_AddElement, FS_CardinalityType
<1>3. Here = IF pc[t] \in L THEN Others \cup {t} ELSE Others
  OBVIOUS
<1>4. pc' = [pc EXCEPT ![t] = label]
  BY DEF Goto
<1>5. There = IF label \in L THEN Others \cup {t} ELSE Others
  BY <1>4
<1>6. At(L) = Cardinality(Here) /\ At(L)' = Cardinality(There)
  BY DEF At
<1> HIDE DEF Others, Here, There
<1> QED
  BY <1>2, <1>3, <1>5, <1>6

\* No thread is at any of the labels if their number is zero.
LEMMA NoneAt ==
    ASSUME NEW L, At(L) = 0
    PROVE  \A t \in Threads : pc[t] \notin L
<1> DEFINE Here == {u \in Threads : pc[u] \in L}
<1>1. IsFiniteSet(Here)
  BY SemAssumption, FS_Subset
<1> QED
  BY <1>1, FS_EmptySet DEF At

LEMMA NobodyAt ==
    ASSUME NEW L, \A t \in Threads : pc[t] \notin L
    PROVE  At(L) = 0
<1>1. {t \in Threads : pc[t] \in L} = {}
  OBVIOUS
<1> QED
  BY <1>1, FS_EmptySet DEF At

LEMMA AtType == ASSUME NEW L PROVE At(L) \in Nat
  BY SemAssumption, FS_Subset, FS_CardinalityType DEF At

LEMMA InitIInv == Init => IInv
<1> SUFFICES ASSUME Init PROVE IInv
  OBVIOUS
<1>1. At({"release", "restore", "took"}) = 0 /\ At(Underway) = 0
  BY NobodyAt DEF Init, Underway
<1>2. TypeOK /\ NoUseAfterFree
  <2>1. InitialValue \in 0 .. MaxCount /\ InitialValue \in Nat
    BY SemAssumption
  <2>2. pc \in [Threads -> Pcs]
    BY DEF Init, Pcs
  <2> QED
    BY <2>1, <2>2 DEF Init, TypeOK, NoUseAfterFree
<1>3. ValueBalance
  BY <1>1, SemAssumption DEF Init, ValueBalance
<1>4. LedgerBalance
  BY <1>1, SemAssumption DEF Init, LedgerBalance
<1> QED
  BY <1>2, <1>3, <1>4 DEF IInv

\* A step that moves one thread and keeps the counters in step with it.
LEMMA ThreadStep ==
    ASSUME IInv, NEW t \in Threads, pc[t] # "idle" \/ ~freed,
           NEW label \in Pcs, Goto(t, label), UNCHANGED freed,
           kernel' \in 0 .. MaxCount,
           count' - kernel' = count - kernel
                + (IF label \in Uneven THEN 1 ELSE 0)
                - (IF pc[t] \in Uneven THEN 1 ELSE 0),
           promised' - kernel' = promised - kernel
                + (IF label \in Underway THEN 1 ELSE 0)
                - (IF pc[t] \in Underway THEN 1 ELSE 0),
           count' \in Int, promised' \in Int
    PROVE  IInv'
<1>1. pc \in [Threads -> Pcs] /\ kernel \in Nat /\ count \in Nat
      /\ promised \in Nat /\ kernel' \in Nat
  BY SemAssumption DEF IInv, TypeOK
<1>2. /\ At(Uneven) \in Nat /\ At(Uneven)' \in Nat
      /\ At(Uneven)' = At(Uneven) + (IF label \in Uneven THEN 1 ELSE 0)
                                  - (IF pc[t] \in Uneven THEN 1 ELSE 0)
  BY <1>1, AtMoves
<1>3. /\ At(Underway) \in Nat /\ At(Underway)' \in Nat
      /\ At(Underway)' = At(Underway) + (IF label \in Underway THEN 1 ELSE 0)
                                      - (IF pc[t] \in Underway THEN 1 ELSE 0)
  BY <1>1, AtMoves
<1>4. count' = kernel' + At(Uneven)' /\ promised' = kernel' + At(Underway)'
  <2>1. count = kernel + At(Uneven) /\ promised = kernel + At(Underway)
    BY DEF IInv, ValueBalance, LedgerBalance, Uneven
  <2> HIDE DEF Uneven, Underway
  <2>2. count' = kernel' + At(Uneven)'
    BY <1>1, <1>2, <2>1
  <2>3. promised' = kernel' + At(Underway)'
    BY <1>1, <1>3, <2>1
  <2> QED
    BY <2>2, <2>3
<1>5. TypeOK'
  BY <1>1, <1>2, <1>3, <1>4 DEF IInv, TypeOK, Goto
<1>6. NoUseAfterFree'
  BY DEF IInv, NoUseAfterFree
<1> QED
  BY <1>4, <1>5, <1>6 DEF IInv, ValueBalance, LedgerBalance, Uneven

LEMMA NextIInv ==
    ASSUME IInv, [Next]_vars
    PROVE  IInv'
<1>0. kernel \in 0 .. MaxCount /\ count \in Nat /\ promised \in Nat
      /\ pc \in [Threads -> Pcs] /\ MaxCount \in Nat
  BY SemAssumption DEF IInv, TypeOK
<1> USE DEF Pcs, PostPcs, Uneven, Underway
<1>1. ASSUME NEW t \in Threads, BeginPost(t) PROVE IInv'
  BY <1>0, <1>1, ThreadStep DEF BeginPost, PostOrder
<1>2. ASSUME NEW t \in Threads, CountPost(t) PROVE IInv'
  BY <1>0, <1>2, ThreadStep DEF CountPost, PostOrder
<1>3. ASSUME NEW t \in Threads, Release(t) PROVE IInv'
  BY <1>0, <1>3, ThreadStep DEF Release, PostOrder
<1>4. ASSUME NEW t \in Threads, ReleaseFails(t) PROVE IInv'
  BY <1>0, <1>4, ThreadStep DEF ReleaseFails
<1>5. ASSUME NEW t \in Threads, Restore(t) PROVE IInv'
  BY <1>0, <1>5, ThreadStep DEF Restore
<1>6. ASSUME NEW t \in Threads, BeginWait(t) PROVE IInv'
  BY <1>0, <1>6, ThreadStep DEF BeginWait
<1>7. ASSUME NEW t \in Threads, TakeToken(t) PROVE IInv'
  BY <1>0, <1>7, ThreadStep DEF TakeToken
<1>8. ASSUME NEW t \in Threads, TimeOut(t) PROVE IInv'
  BY <1>0, <1>8, ThreadStep DEF TimeOut
<1>9. ASSUME NEW t \in Threads, CountWait(t) PROVE IInv'
  BY <1>0, <1>9, ThreadStep DEF CountWait
<1>10. ASSUME NEW t \in Threads, Destroy(t) PROVE IInv'
  <2>1. At(Underway) = 0
    BY <1>0, <1>10, AtType DEF Destroy, IInv, LedgerBalance
  <2>2. \A u \in Threads : pc[u] \notin Underway
    BY <2>1, NoneAt
  <2>3. \A u \in Threads : pc[u] = "idle"
    BY <1>0, <1>10, <2>2 DEF Destroy
  <2> QED
    BY <1>10, <2>3 DEF Destroy, IInv, TypeOK, ValueBalance, LedgerBalance,
       NoUseAfterFree, At
<1>11. CASE Create
  <2>1. \A u \in Threads : pc'[u] = "idle"
    BY <1>11 DEF Create
  <2>2. At({"release", "restore", "took"})' = 0 /\ At(Underway)' = 0
    <3>1. \A L : (\A u \in Threads : pc[u] \notin L) => At(L) = 0
      BY NobodyAt
    <3>2. pc' = pc /\ \A u \in Threads : pc[u] = "idle"
      BY <1>11 DEF Create
    <3>3. At({"release", "restore", "took"}) = 0 /\ At(Underway) = 0
      BY <3>1, <3>2
    <3> QED
      BY <3>2, <3>3 DEF At
  <2>3. TypeOK' /\ NoUseAfterFree'
    <3>1. InitialValue \in 0 .. MaxCount /\ InitialValue \in Nat
      BY SemAssumption
    <3>2. pc' \in [Threads -> Pcs]
      BY <1>0, <1>11 DEF Create
    <3> QED
      BY <1>11, <2>1, <3>1, <3>2 DEF Create, TypeOK, NoUseAfterFree
  <2>4. ValueBalance'
    BY <1>11, <2>2, SemAssumption DEF Create, ValueBalance
  <2>5. LedgerBalance'
    BY <1>11, <2>2, SemAssumption DEF Create, LedgerBalance
  <2> QED
    BY <2>3, <2>4, <2>5 DEF IInv
<1>12. CASE UNCHANGED vars
  BY <1>12 DEF vars, IInv, TypeOK, ValueBalance, LedgerBalance,
     NoUseAfterFree, At
<1> QED
  BY <1>1, <1>2, <1>3, <1>4, <1>5, <1>6, <1>7, <1>8, <1>9, <1>10, <1>11,
     <1>12 DEF Next

THEOREM SpecIInv == Spec => []IInv
<1>1. IInv /\ [Next]_vars => IInv'
  BY NextIInv
<1> QED
  BY <1>1, InitIInv, PTL DEF Spec

----------------------------------------------------------------------------
\* The types hold, so CTSemValue never returns a wrapped negative count, for
\* any number of threads posting, waiting and timing out at any limit.
THEOREM SpecTypeOK == Spec => []TypeOK
<1>1. IInv => TypeOK
  BY DEF IInv
<1> QED
  BY <1>1, SpecIInv, PTL

\* sem->count is off from the kernel semaphore exactly by the posts and waits
\* in progress, so by nothing when the semaphore is quiet.
THEOREM SpecValueBalance == Spec => []ValueBalance
<1>1. IInv => ValueBalance
  BY DEF IInv
<1> QED
  BY <1>1, SpecIInv, PTL

\* A thread that has waited for the last token promised may destroy the
\* semaphore: no post or wait still touches it.
THEOREM SpecNoUseAfterFree == Spec => []NoUseAfterFree
<1>1. IInv => NoUseAfterFree
  BY DEF IInv
<1> QED
  BY <1>1, SpecIInv, PTL
============================================================================
