--------------------------- MODULE LogUtilProofs ---------------------------
(* Proofs about the log for any number of threads, messages and seconds,   *)
(* and whatever the sizes and numbers of files its owner sets.             *)
EXTENDS LogUtil, FiniteSetTheorems, SequenceTheorems, TLAPS

\* The types of the files' lines and of the history.
HistoryOK ==
    /\ \A f \in DOMAIN files : files[f] \in Seq(0 .. MaxMessages)
    /\ printed \in Seq([message : 0 .. MaxMessages,
                        file : 0 .. MaxSeconds \cup {NoFile}])
    /\ created \in Seq(0 .. MaxSeconds)
    /\ reservedFrom \in 0 .. Len(created)

\* The open file, and those printed into, were created.
WasCreated(f) == \E k \in DOMAIN created : created[k] = f

FromCreated ==
    /\ fpLog # NoFile => WasCreated(fpLog)
    /\ \A i \in DOMAIN printed :
         printed[i].file # NoFile => WasCreated(printed[i].file)

\* A thread at work on the log owns the mutex, so the line it is about to
\* print is its own.
Exclusive ==
    \A t \in Threads :
        /\ pc[t] \in Inside => mutex = t
        /\ pc[t] = "print" => pBuffer = message[t]

\* How many files ago the i-th name of the ring was written, if it was.
Age(i) == IF i <= curFileIdx THEN curFileIdx - i + 1
                             ELSE curFileIdx - i + 1 + numFilesToReserve

\* The ring holds the names of the latest files.
RingHolds ==
    \A i \in 1 .. numFilesToReserve :
        pFileNames[i] = IF Age(i) <= Len(created) - reservedFrom
                        THEN created[Len(created) - Age(i) + 1] ELSE NoFile

\* The latest files are in the directory.
LatestOnDisk ==
    OnePerSecond => \A j \in DOMAIN created :
        j > reservedFrom /\ j > Len(created) - numFilesToReserve
            => created[j] \in DOMAIN files

IInv ==
    /\ TypeOK /\ HistoryOK
    /\ FromCreated /\ Exclusive
    /\ RingHolds /\ LatestOnDisk
    /\ LinesKept /\ SizeTracked

----------------------------------------------------------------------------
\* The index of the next name wraps to the first.
LEMMA NextWraps ==
    ASSUME NEW n \in Nat, NEW c \in Nat, c < n
    PROVE  (c + 1) % n = IF c + 1 = n THEN 0 ELSE c + 1
  OBVIOUS

LEMMA InitIInv == Init => IInv
<1> SUFFICES ASSUME Init PROVE IInv
  OBVIOUS
<1> USE LogAssumption DEF Init, NoFile
<1>1. TypeOK
  BY DEF TypeOK
<1>2. << >> \in Seq(0 .. MaxMessages) /\ <<0>> \in Seq(0 .. MaxSeconds) /\ Len(<<0>>) = 1
  OBVIOUS
<1>3. printed \in Seq([message : 0 .. MaxMessages, file : 0 .. MaxSeconds \cup {NoFile}])
  OBVIOUS
<1>4. HistoryOK
  BY <1>2, <1>3 DEF HistoryOK
<1>5. FromCreated /\ Exclusive
  BY DEF FromCreated, WasCreated, Exclusive, Inside
<1>6. RingHolds /\ LatestOnDisk
  BY DEF RingHolds, LatestOnDisk
<1>7. PrintedInto(0, 0) = {}
  BY DEF PrintedInto
<1>8. LinesKept
  BY <1>7, FS_EmptySet DEF LinesKept
<1>9. SizeTracked
  BY DEF SizeTracked
<1> QED
  BY <1>1, <1>4, <1>5, <1>6, <1>8, <1>9 DEF IInv

----------------------------------------------------------------------------
\* What a step does to the files and to the history: nothing, or one of three
\* actions.
Quiet ==
    /\ UNCHANGED <<files, ring, created, reservedFrom, printed, curFileSize>>
    /\ fpLog' = fpLog \/ fpLog' = NoFile

LEMMA StepIsQuietOr ==
    ASSUME [Next]_vars
    PROVE  \/ Quiet
           \/ \E n \in Reserves : SetNumLogFilesToReserve(n)
           \/ \E t \in Threads : CreateLogFile(t) \/ PrintLine(t)
<1> USE DEF log, sizes, ring, calls, history, Quiet
<1>1. ASSUME Tick \/ \E size \in Sizes : SetLogFileSize(size)
      PROVE  Quiet
  BY <1>1 DEF Tick, SetLogFileSize
<1>2. ASSUME NEW t \in Threads,
             Begin(t) \/ Lock(t) \/ CreateFails(t) \/ Format(t) \/ Unlock(t)
      PROVE  Quiet
  BY <1>2 DEF Begin, Lock, CreateFails, Format, Unlock
<1>3. CASE UNCHANGED vars
  BY <1>3 DEF vars
<1> QED
  BY <1>1, <1>2, <1>3 DEF Next, InMessage

LEMMA TypeStep ==
    ASSUME IInv, [Next]_vars
    PROVE  TypeOK'
<1> USE LogAssumption DEF IInv, TypeOK, NoFile, Goto, log, sizes, ring, calls, history, Inside
<1>0. CASE Tick
  BY <1>0 DEF Tick
<1>1. ASSUME NEW size \in Sizes, SetLogFileSize(size) PROVE TypeOK'
  BY <1>1 DEF SetLogFileSize
<1>2. ASSUME NEW n \in Reserves, SetNumLogFilesToReserve(n) PROVE TypeOK'
  BY <1>2 DEF SetNumLogFilesToReserve
<1>3. ASSUME NEW t \in Threads, Begin(t) PROVE TypeOK'
  BY <1>3 DEF Begin
<1>4. ASSUME NEW t \in Threads, Lock(t) PROVE TypeOK'
  BY <1>4 DEF Lock
<1>5. ASSUME NEW t \in Threads, CreateLogFile(t) PROVE TypeOK'
  <2>1. DOMAIN files' \subseteq 0 .. MaxSeconds
    BY <1>5 DEF CreateLogFile, AddLogFile, Directory
  <2>2. /\ numFilesToReserve' = numFilesToReserve
        /\ curFileIdx' \in Nat
        /\ numFilesToReserve' > 0 =>
             /\ pFileNames' \in [1 .. numFilesToReserve' -> 0 .. MaxSeconds \cup {NoFile}]
             /\ curFileIdx' < numFilesToReserve'
    <3>1. CASE numFilesToReserve <= 0
      BY <1>5, <3>1 DEF CreateLogFile, AddLogFile
    <3>2. CASE numFilesToReserve > 0
      <4>1. numFilesToReserve \in Nat /\ curFileIdx < numFilesToReserve
        BY <3>2
      <4>2. NextIdx \in Nat /\ NextIdx < numFilesToReserve
        BY <4>1, NextWraps DEF NextIdx
      <4> QED
        BY <1>5, <3>2, <4>1, <4>2 DEF CreateLogFile, AddLogFile
    <3> QED
      BY <3>1, <3>2
  <2> QED
    BY <1>5, <2>1, <2>2 DEF CreateLogFile, SizeOfNew
<1>6. ASSUME NEW t \in Threads, CreateFails(t) PROVE TypeOK'
  BY <1>6 DEF CreateFails
<1>7. ASSUME NEW t \in Threads, Format(t) PROVE TypeOK'
  BY <1>7 DEF Format
<1>8. ASSUME NEW t \in Threads, PrintLine(t) PROVE TypeOK'
  BY <1>8 DEF PrintLine
<1>9. ASSUME NEW t \in Threads, Unlock(t) PROVE TypeOK'
  BY <1>9 DEF Unlock, Unlocked
<1>10. CASE UNCHANGED vars
  BY <1>10 DEF vars
<1> QED
  BY <1>0, <1>1, <1>2, <1>3, <1>4, <1>5, <1>6, <1>7, <1>8, <1>9, <1>10 DEF Next, InMessage

----------------------------------------------------------------------------
\* A file created is recorded behind the others, a message printed likewise.
LEMMA CreateRecords ==
    ASSUME TypeOK, HistoryOK, NEW t \in Threads, CreateLogFile(t)
    PROVE  /\ clock \in 0 .. MaxSeconds /\ clock # NoFile
           /\ created' = Append(created, clock)
           /\ created' \in Seq(0 .. MaxSeconds)
           /\ Len(created) \in Nat /\ Len(created') = Len(created) + 1
           /\ \A k \in 1 .. Len(created) : created'[k] = created[k]
           /\ created'[Len(created) + 1] = clock
           /\ DOMAIN created = 1 .. Len(created)
           /\ DOMAIN created' = 1 .. Len(created) + 1
           /\ UNCHANGED <<printed, reservedFrom, numFilesToReserve>>
           /\ fpLog' = clock /\ curFileSize' = 0
<1>1. created \in Seq(0 .. MaxSeconds) /\ clock \in 0 .. MaxSeconds
  BY DEF TypeOK, HistoryOK
<1>2. created' = Append(created, clock)
  BY DEF CreateLogFile
<1>3. UNCHANGED <<printed, reservedFrom, numFilesToReserve>> /\ fpLog' = clock
      /\ curFileSize' = 0
  BY DEF CreateLogFile, AddLogFile, ring, SizeOfNew
<1>4. clock # NoFile
  BY <1>1, LogAssumption DEF NoFile
<1> QED
  BY <1>1, <1>2, <1>3, <1>4, AppendProperties

LEMMA PrintRecords ==
    ASSUME TypeOK, HistoryOK, NEW t \in Threads, PrintLine(t)
    PROVE  /\ printed' \in Seq([message : 0 .. MaxMessages,
                                file : 0 .. MaxSeconds \cup {NoFile}])
           /\ Len(printed) \in Nat /\ Len(printed') = Len(printed) + 1
           /\ \A k \in 1 .. Len(printed) : printed'[k] = printed[k]
           /\ printed'[Len(printed) + 1].message = message[t]
           /\ printed'[Len(printed) + 1].file = fpLog
           /\ DOMAIN printed = 1 .. Len(printed)
           /\ DOMAIN printed' = 1 .. Len(printed) + 1
           /\ UNCHANGED <<created, reservedFrom, fpLog, ring>>
           /\ DOMAIN files' = DOMAIN files
           /\ \A f \in DOMAIN files :
                files'[f] = IF f = fpLog THEN Append(files[f], pBuffer) ELSE files[f]
           /\ curFileSize' = curFileSize + 1
<1> DEFINE M == 0 .. MaxMessages
           F == 0 .. MaxSeconds \cup {NoFile}
           new == [message |-> message[t], file |-> fpLog]
<1>1. new \in [message : M, file : F]
  BY LogAssumption DEF TypeOK
<1>2. printed \in Seq([message : M, file : F])
  BY DEF HistoryOK
<1>3. printed' = Append(printed, new)
  BY DEF PrintLine
<1>4. new.message = message[t] /\ new.file = fpLog
  OBVIOUS
<1>5. UNCHANGED <<created, reservedFrom, fpLog, ring>> /\ DOMAIN files' = DOMAIN files
      /\ curFileSize' = curFileSize + 1
      /\ \A f \in DOMAIN files :
           files'[f] = IF f = fpLog THEN Append(files[f], pBuffer) ELSE files[f]
  BY DEF PrintLine
<1> HIDE DEF new
<1>6. Append(printed, new) \in Seq([message : M, file : F])
  BY <1>1, <1>2, AppendProperties
<1>7. /\ Len(printed) \in Nat /\ Len(printed') = Len(printed) + 1
      /\ \A k \in 1 .. Len(printed) : printed'[k] = printed[k]
      /\ printed'[Len(printed) + 1] = new
      /\ DOMAIN printed = 1 .. Len(printed)
      /\ DOMAIN printed' = 1 .. Len(printed) + 1
  <2> HIDE DEF M, F
  <2> QED
    BY <1>1, <1>2, <1>3, <1>6, AppendProperties
<1> QED
  BY <1>3, <1>4, <1>5, <1>6, <1>7

LEMMA SetRecords ==
    ASSUME HistoryOK, NEW n \in Reserves, SetNumLogFilesToReserve(n)
    PROVE  /\ UNCHANGED <<files, created, printed, fpLog, curFileSize, curFileIdx>>
           /\ numFilesToReserve' = n /\ n \in Nat
           /\ pFileNames' = [i \in 1 .. n |-> NoFile]
           /\ reservedFrom' = Len(created) /\ Len(created) \in Nat
  BY LogAssumption DEF HistoryOK, SetNumLogFilesToReserve, sizes

\* The directory after the creation of a file: the oldest name of the ring
\* is gone, if there is one.
LEMMA CreateDirectory ==
    ASSUME TypeOK, NEW t \in Threads, CreateLogFile(t)
    PROVE  \E old :
             /\ numFilesToReserve > 0 => old = OldFile
             /\ ~(numFilesToReserve > 0) => old = NoFile
             /\ DOMAIN files' = (DOMAIN files \cup {clock}) \ {old}
             /\ \A g \in DOMAIN files' : files'[g] = IF g = clock THEN << >> ELSE files[g]
<1>1. numFilesToReserve \in Int
  BY LogAssumption DEF TypeOK
<1>2. files' = Directory(clock, IF numFilesToReserve > 0 THEN OldFile ELSE NoFile)
  BY <1>1 DEF CreateLogFile, AddLogFile
<1>3. WITNESS IF numFilesToReserve > 0 THEN OldFile ELSE NoFile
<1> QED
  BY <1>2 DEF Directory

----------------------------------------------------------------------------
LEMMA HistoryStep ==
    ASSUME IInv, [Next]_vars
    PROVE  HistoryOK'
<1>1. TypeOK /\ HistoryOK
  BY DEF IInv
<1>2. CASE Quiet
  BY <1>1, <1>2 DEF Quiet, HistoryOK
<1>3. ASSUME NEW n \in Reserves, SetNumLogFilesToReserve(n) PROVE HistoryOK'
  BY <1>1, <1>3, SetRecords DEF HistoryOK
<1>4. ASSUME NEW t \in Threads, CreateLogFile(t) PROVE HistoryOK'
  <2>1. ASSUME NEW f \in DOMAIN files' PROVE files'[f] \in Seq(0 .. MaxMessages)
    <3>1. f # clock => f \in DOMAIN files
      BY <1>1, <1>4, <2>1, CreateDirectory
    <3>2. files'[f] = IF f = clock THEN << >> ELSE files[f]
      BY <1>1, <1>4, <2>1, CreateDirectory
    <3>3. << >> \in Seq(0 .. MaxMessages)
      OBVIOUS
    <3> QED
      BY <1>1, <3>1, <3>2, <3>3 DEF HistoryOK
  <2>2. reservedFrom' \in 0 .. Len(created')
    BY <1>1, <1>4, CreateRecords DEF HistoryOK
  <2> QED
    BY <1>1, <1>4, <2>1, <2>2, CreateRecords DEF HistoryOK
<1>5. ASSUME NEW t \in Threads, PrintLine(t) PROVE HistoryOK'
  <2>1. ASSUME NEW f \in DOMAIN files' PROVE files'[f] \in Seq(0 .. MaxMessages)
    <3>1. files[f] \in Seq(0 .. MaxMessages) /\ pBuffer \in 0 .. MaxMessages
      BY <1>1, <1>5, <2>1, PrintRecords DEF TypeOK, HistoryOK
    <3>2. Append(files[f], pBuffer) \in Seq(0 .. MaxMessages)
      BY <3>1, AppendProperties
    <3> QED
      BY <1>1, <1>5, <2>1, <3>1, <3>2, PrintRecords
  <2> QED
    BY <1>1, <1>5, <2>1, PrintRecords DEF HistoryOK
<1> QED
  BY <1>2, <1>3, <1>4, <1>5, StepIsQuietOr

LEMMA FromCreatedStep ==
    ASSUME IInv, [Next]_vars
    PROVE  FromCreated'
<1>1. TypeOK /\ HistoryOK /\ FromCreated
  BY DEF IInv
<1>2. CASE Quiet
  BY <1>1, <1>2 DEF Quiet, FromCreated, WasCreated
<1>3. ASSUME NEW n \in Reserves, SetNumLogFilesToReserve(n) PROVE FromCreated'
  BY <1>1, <1>3, SetRecords DEF FromCreated, WasCreated
<1>4. ASSUME NEW t \in Threads, CreateLogFile(t) PROVE FromCreated'
  <2>1. ASSUME NEW f, WasCreated(f) PROVE \E k \in DOMAIN created' : created'[k] = f
    BY <1>1, <1>4, <2>1, CreateRecords DEF WasCreated
  <2>2. \E k \in DOMAIN created' : created'[k] = fpLog'
    BY <1>1, <1>4, CreateRecords
  <2>3. printed' = printed
    BY <1>1, <1>4, CreateRecords
  <2> QED
    BY <1>1, <2>1, <2>2, <2>3 DEF FromCreated, WasCreated
<1>5. ASSUME NEW t \in Threads, PrintLine(t) PROVE FromCreated'
  <2>1. created' = created /\ fpLog' = fpLog
    BY <1>1, <1>5, PrintRecords
  <2>2. ASSUME NEW i \in DOMAIN printed', printed'[i].file # NoFile
        PROVE  WasCreated(printed'[i].file)
    <3>1. CASE i = Len(printed) + 1
      BY <1>1, <1>5, <2>2, <3>1, PrintRecords DEF FromCreated
    <3>2. CASE i \in 1 .. Len(printed)
      BY <1>1, <1>5, <2>2, <3>2, PrintRecords DEF FromCreated
    <3> QED
      BY <1>1, <1>5, <2>2, <3>1, <3>2, PrintRecords
  <2> QED
    BY <1>1, <2>1, <2>2 DEF FromCreated, WasCreated
<1> QED
  BY <1>2, <1>3, <1>4, <1>5, StepIsQuietOr

\* The mutex keeps the threads apart, and with them the shared buffer.
LEMMA ExclusiveStep ==
    ASSUME IInv, [Next]_vars
    PROVE  Exclusive'
<1>1. /\ Exclusive /\ NoOne \notin Threads
      /\ pc \in [Threads -> Inside \cup {"idle", "lock"}]
      /\ message \in [Threads -> 0 .. nMessages]
  BY LogAssumption DEF IInv, TypeOK
<1> USE DEF Exclusive, Inside, Goto, log, calls
<1>2. CASE Tick \/ (\E size \in Sizes : SetLogFileSize(size)) \/ UNCHANGED vars
  BY <1>1, <1>2 DEF Tick, SetLogFileSize, vars
<1>3. ASSUME NEW n \in Reserves, SetNumLogFilesToReserve(n) PROVE Exclusive'
  BY <1>1, <1>3 DEF SetNumLogFilesToReserve
<1>4. ASSUME NEW t \in Threads, Begin(t) PROVE Exclusive'
  BY <1>1, <1>4 DEF Begin
<1>5. ASSUME NEW t \in Threads, Lock(t) PROVE Exclusive'
  BY <1>1, <1>5 DEF Lock, CanLock
<1>6. ASSUME NEW t \in Threads, CreateLogFile(t) \/ CreateFails(t) PROVE Exclusive'
  BY <1>1, <1>6 DEF CreateLogFile, CreateFails
<1>7. ASSUME NEW t \in Threads, Format(t) PROVE Exclusive'
  BY <1>1, <1>7 DEF Format
<1>8. ASSUME NEW t \in Threads, PrintLine(t) PROVE Exclusive'
  BY <1>1, <1>8 DEF PrintLine
<1>9. ASSUME NEW t \in Threads, Unlock(t) PROVE Exclusive'
  BY <1>1, <1>9 DEF Unlock
<1> QED
  BY <1>2, <1>3, <1>4, <1>5, <1>6, <1>7, <1>8, <1>9 DEF Next, InMessage

----------------------------------------------------------------------------
\* The names of the ring grow older by one file when a file is created, except
\* the one that the new name replaces, which was the oldest.
LEMMA RingStep ==
    ASSUME IInv, [Next]_vars
    PROVE  RingHolds'
<1>1. TypeOK /\ HistoryOK /\ RingHolds
  BY DEF IInv
<1>2. CASE Quiet
  BY <1>1, <1>2 DEF Quiet, RingHolds, Age, ring
<1>3. ASSUME NEW n \in Reserves, SetNumLogFilesToReserve(n) PROVE RingHolds'
  <2>1. /\ curFileIdx' = curFileIdx /\ numFilesToReserve' = n /\ n \in Nat
        /\ pFileNames' = [i \in 1 .. n |-> NoFile]
        /\ Len(created') - reservedFrom' = 0
        /\ n = 0 \/ n > curFileIdx
        /\ curFileIdx \in Nat
    BY <1>1, <1>3, SetRecords DEF SetNumLogFilesToReserve, TypeOK
  <2>2. ASSUME NEW i \in 1 .. n PROVE ~(Age(i)' <= 0)
    BY <2>1, <2>2 DEF Age
  <2> QED
    BY <2>1, <2>2 DEF RingHolds
<1>4. ASSUME NEW t \in Threads, CreateLogFile(t) PROVE RingHolds'
  <2> DEFINE L == Len(created)
             n == numFilesToReserve
             c == curFileIdx
  <2>1. /\ L \in Nat /\ Len(created') = L + 1 /\ reservedFrom' = reservedFrom
        /\ \A k \in 1 .. L : created'[k] = created[k]
        /\ created'[L + 1] = clock
        /\ numFilesToReserve' = n
    BY <1>1, <1>4, CreateRecords
  <2>2. CASE ~(n > 0)
    BY <1>1, <2>1, <2>2, LogAssumption DEF TypeOK, RingHolds
  <2>3. CASE n > 0
    <3>1. /\ n \in Nat /\ c \in Nat /\ c < n /\ reservedFrom \in 0 .. L
          /\ pFileNames \in [1 .. n -> 0 .. MaxSeconds \cup {NoFile}]
      BY <1>1, <2>3, LogAssumption DEF TypeOK, HistoryOK
    <3>2. /\ pFileNames' = [pFileNames EXCEPT ![c + 1] = clock]
          /\ curFileIdx' = IF c + 1 = n THEN 0 ELSE c + 1
      BY <1>4, <2>3, <3>1, NextWraps DEF CreateLogFile, AddLogFile, NextIdx
    <3>3. ASSUME NEW i \in 1 .. n
          PROVE  pFileNames'[i] =
                   IF Age(i)' <= Len(created') - reservedFrom'
                   THEN created'[Len(created') - Age(i)' + 1] ELSE NoFile
      <4>1. Age(i) \in 1 .. n
        BY <3>1 DEF Age
      <4>2. Age(i)' = IF i = c + 1 THEN 1 ELSE Age(i) + 1
        BY <2>1, <3>1, <3>2 DEF Age
      <4>3. CASE i = c + 1
        <5>1. pFileNames'[i] = clock /\ Age(i)' = 1
          BY <3>1, <3>2, <4>2, <4>3
        <5> QED
          BY <2>1, <3>1, <5>1
      <4>4. CASE i # c + 1
        <5>1. pFileNames'[i] = pFileNames[i] /\ Age(i)' = Age(i) + 1
          BY <3>1, <3>2, <4>2, <4>4
        <5>2. pFileNames[i] = IF Age(i) <= L - reservedFrom
                              THEN created[L - Age(i) + 1] ELSE NoFile
          BY <1>1 DEF RingHolds
        <5>3. Age(i)' <= Len(created') - reservedFrom' <=> Age(i) <= L - reservedFrom
          BY <2>1, <3>1, <4>1, <5>1
        <5>4. Len(created') - Age(i)' + 1 = L - Age(i) + 1
          BY <2>1, <3>1, <4>1, <5>1
        <5>5. Age(i) <= L - reservedFrom => L - Age(i) + 1 \in 1 .. L
          BY <2>1, <3>1, <4>1
        <5> QED
          BY <2>1, <5>1, <5>2, <5>3, <5>4, <5>5
      <4> QED
        BY <4>3, <4>4
    <3> QED
      BY <2>1, <3>3 DEF RingHolds
  <2> QED
    BY <2>2, <2>3
<1>5. ASSUME NEW t \in Threads, PrintLine(t) PROVE RingHolds'
  BY <1>1, <1>5, PrintRecords DEF RingHolds, Age, ring
<1> QED
  BY <1>2, <1>3, <1>4, <1>5, StepIsQuietOr

\* The file that the creation of one more makes too old, if the ring knows it.
TooOld == Len(created) + 1 - numFilesToReserve
RemovesOne == numFilesToReserve > 0 /\ TooOld > reservedFrom

\* What the creation of a file removes, if no two are created in one second:
\* the file that is no longer among the latest, which was in the directory.
LEMMA CreateRemoves ==
    ASSUME IInv, NEW t \in Threads, CreateLogFile(t), OnePerSecond'
    PROVE  /\ RemovesOne => /\ created[TooOld] \in DOMAIN files
                            /\ DOMAIN files' = (DOMAIN files \ {created[TooOld]})
                                                  \cup {clock}
                            /\ created[TooOld] # clock
           /\ ~RemovesOne => DOMAIN files' = DOMAIN files \cup {clock}
<1> DEFINE L == Len(created)
           n == numFilesToReserve
<1>1. TypeOK /\ HistoryOK /\ RingHolds /\ LatestOnDisk
  BY DEF IInv
<1>2. /\ L \in Nat /\ Len(created') = L + 1
      /\ \A k \in 1 .. L : created'[k] = created[k]
      /\ created'[L + 1] = clock /\ clock # NoFile
      /\ DOMAIN created = 1 .. L /\ DOMAIN created' = 1 .. L + 1
  BY <1>1, CreateRecords
<1>3. /\ OnePerSecond
      /\ \A k \in 1 .. L : created[k] # clock
  BY <1>2 DEF OnePerSecond, IsInjective
<1>4. PICK old : /\ n > 0 => old = OldFile
                 /\ ~(n > 0) => old = NoFile
                 /\ DOMAIN files' = (DOMAIN files \cup {clock}) \ {old}
  BY <1>1, CreateDirectory
<1>5. NoFile \notin DOMAIN files
  BY <1>1, LogAssumption DEF TypeOK, NoFile
<1>6. CASE ~(n > 0)
  BY <1>2, <1>4, <1>5, <1>6 DEF RemovesOne
<1>7. CASE n > 0
  <2>1. n \in Nat /\ curFileIdx \in Nat /\ curFileIdx < n /\ reservedFrom \in 0 .. L
    BY <1>1, <1>7, LogAssumption DEF TypeOK, HistoryOK
  <2>2. curFileIdx + 1 \in 1 .. n /\ Age(curFileIdx + 1) = n
    BY <2>1 DEF Age
  <2>3. OldFile = IF n <= L - reservedFrom THEN created[L - n + 1] ELSE NoFile
    BY <1>1, <2>2 DEF RingHolds, OldFile
  <2>4. TooOld = L - n + 1 /\ (TooOld > reservedFrom <=> n <= L - reservedFrom)
    BY <1>2, <2>1 DEF TooOld
  <2>5. CASE n <= L - reservedFrom
    <3>1. TooOld \in 1 .. L /\ TooOld > reservedFrom /\ TooOld > L - n
      BY <1>2, <1>7, <2>1, <2>4, <2>5
    <3>2. created[TooOld] \in DOMAIN files /\ created[TooOld] # clock
      BY <1>1, <1>2, <1>3, <3>1 DEF LatestOnDisk
    <3>3. RemovesOne /\ old = created[TooOld]
      BY <1>4, <1>7, <2>3, <2>4, <2>5 DEF RemovesOne
    <3> QED
      BY <1>4, <3>2, <3>3
  <2>6. CASE ~(n <= L - reservedFrom)
    <3>1. ~RemovesOne /\ old = NoFile
      BY <1>4, <1>7, <2>3, <2>4, <2>6 DEF RemovesOne
    <3> QED
      BY <1>2, <1>4, <1>5, <3>1
  <2> QED
    BY <2>5, <2>6
<1> QED
  BY <1>6, <1>7

LEMMA DiskStep ==
    ASSUME IInv, [Next]_vars
    PROVE  LatestOnDisk'
<1>1. TypeOK /\ HistoryOK /\ LatestOnDisk
  BY DEF IInv
<1>2. CASE Quiet
  BY <1>1, <1>2 DEF Quiet, LatestOnDisk, OnePerSecond, ring
<1>3. ASSUME NEW n \in Reserves, SetNumLogFilesToReserve(n) PROVE LatestOnDisk'
  <2>1. created' = created /\ DOMAIN created = 1 .. Len(created)
        /\ reservedFrom' = Len(created) /\ Len(created) \in Nat
    BY <1>1, <1>3, SetRecords DEF HistoryOK
  <2>2. \A j \in DOMAIN created' : ~(j > reservedFrom')
    BY <2>1
  <2> QED
    BY <2>2 DEF LatestOnDisk
<1>4. ASSUME NEW t \in Threads, CreateLogFile(t) PROVE LatestOnDisk'
  <2> DEFINE L == Len(created)
             n == numFilesToReserve
  <2>1. /\ L \in Nat /\ Len(created') = L + 1 /\ reservedFrom' = reservedFrom
        /\ \A k \in 1 .. L : created'[k] = created[k]
        /\ created'[L + 1] = clock
        /\ DOMAIN created = 1 .. L /\ DOMAIN created' = 1 .. L + 1
        /\ numFilesToReserve' = n
    BY <1>1, <1>4, CreateRecords
  <2>2. n \in Int /\ reservedFrom \in Nat
    BY <1>1, LogAssumption DEF TypeOK, HistoryOK
  <2>3. ASSUME OnePerSecond', NEW j \in 1 .. L + 1, j > reservedFrom, j > L + 1 - n
        PROVE  created'[j] \in DOMAIN files'
    <3>1. CASE j = L + 1
      BY <1>4, <2>1, <2>3, <3>1, CreateRemoves
    <3>2. CASE j \in 1 .. L
      <4>1. /\ \A k, l \in 1 .. L : created[k] = created[l] => k = l
            /\ OnePerSecond
        BY <2>1, <2>3 DEF OnePerSecond, IsInjective
      <4>2. created[j] \in DOMAIN files
        BY <1>1, <2>1, <2>2, <2>3, <3>2, <4>1 DEF LatestOnDisk
      <4>3. RemovesOne => TooOld \in 1 .. L /\ created[TooOld] # created[j]
        BY <2>1, <2>2, <2>3, <3>2, <4>1 DEF RemovesOne, TooOld
      <4>4. created[j] \in DOMAIN files'
        BY <1>4, <2>3, <4>2, <4>3, CreateRemoves
      <4> QED
        BY <2>1, <3>2, <4>4
    <3> QED
      BY <2>1, <3>1, <3>2
  <2>4. Len(created') - numFilesToReserve' = L + 1 - n
    BY <2>1, <2>2
  <2> QED
    BY <2>1, <2>3, <2>4 DEF LatestOnDisk
<1>5. ASSUME NEW t \in Threads, PrintLine(t) PROVE LatestOnDisk'
  BY <1>1, <1>5, PrintRecords DEF LatestOnDisk, OnePerSecond, ring
<1> QED
  BY <1>2, <1>3, <1>4, <1>5, StepIsQuietOr

\* The size counted is that of the open file: zero for a new one, one more for
\* each line.
LEMMA SizeStep ==
    ASSUME IInv, [Next]_vars
    PROVE  SizeTracked'
<1>1. TypeOK /\ HistoryOK /\ SizeTracked
  BY DEF IInv
<1>2. CASE Quiet
  <2>1. NoFile \notin DOMAIN files
    BY <1>1, LogAssumption DEF TypeOK, NoFile
  <2> QED
    BY <1>1, <1>2, <2>1 DEF Quiet, SizeTracked
<1>3. ASSUME NEW n \in Reserves, SetNumLogFilesToReserve(n) PROVE SizeTracked'
  BY <1>1, <1>3, SetRecords DEF SizeTracked
<1>4. ASSUME NEW t \in Threads, CreateLogFile(t) PROVE SizeTracked'
  <2>1. fpLog' = clock /\ curFileSize' = 0
    BY <1>1, <1>4, CreateRecords
  <2>2. clock \in DOMAIN files' => files'[clock] = << >>
    BY <1>1, <1>4, CreateDirectory
  <2> QED
    BY <2>1, <2>2 DEF SizeTracked
<1>5. ASSUME NEW t \in Threads, PrintLine(t) PROVE SizeTracked'
  <2>1. SUFFICES ASSUME fpLog \in DOMAIN files
                 PROVE  curFileSize' = Len(files'[fpLog])
    BY <1>1, <1>5, PrintRecords DEF SizeTracked
  <2>2. files[fpLog] \in Seq(0 .. MaxMessages) /\ pBuffer \in 0 .. MaxMessages
    BY <1>1, <2>1 DEF TypeOK, HistoryOK
  <2>3. files'[fpLog] = Append(files[fpLog], pBuffer)
    BY <1>1, <1>5, <2>1, PrintRecords
  <2>4. Len(files'[fpLog]) = Len(files[fpLog]) + 1
    BY <2>2, <2>3, AppendProperties
  <2> QED
    BY <1>1, <1>5, <2>1, <2>4, PrintRecords DEF SizeTracked
<1> QED
  BY <1>2, <1>3, <1>4, <1>5, StepIsQuietOr

----------------------------------------------------------------------------
\* Printing adds the message to those of its file and of no other.
LEMMA PrintedIntoGrows ==
    ASSUME TypeOK, HistoryOK, NEW t \in Threads, PrintLine(t), NEW f,
           NEW n, n = Len(printed)
    PROVE  /\ \A m \in 0 .. n : PrintedInto(f, m)' = PrintedInto(f, m)
           /\ PrintedInto(f, n + 1)' = PrintedInto(f, n) \cup
                                         (IF f = fpLog THEN {n + 1} ELSE {})
<1>1. /\ n \in Nat
      /\ \A k \in 1 .. n : printed'[k] = printed[k]
      /\ printed'[n + 1].file = fpLog
  BY PrintRecords
<1>2. \A m \in 0 .. n : PrintedInto(f, m)' = PrintedInto(f, m)
  BY <1>1 DEF PrintedInto
<1>3. PrintedInto(f, n + 1)' = PrintedInto(f, n) \cup (IF f = fpLog THEN {n + 1} ELSE {})
  BY <1>1 DEF PrintedInto
<1> QED
  BY <1>2, <1>3

\* Counting those printed up to some message.
LEMMA PrintedIntoFinite ==
    ASSUME NEW f, NEW n \in Nat
    PROVE  /\ IsFiniteSet(PrintedInto(f, n))
           /\ Cardinality(PrintedInto(f, n)) \in Nat
           /\ \A m \in 0 .. n : Cardinality(PrintedInto(f, m)) <= Cardinality(PrintedInto(f, n))
           /\ \A m \in PrintedInto(f, n) : Cardinality(PrintedInto(f, m)) >= 1
<1>1. \A m \in Nat : IsFiniteSet(PrintedInto(f, m)) /\ Cardinality(PrintedInto(f, m)) \in Nat
  <2> TAKE m \in Nat
  <2>1. PrintedInto(f, m) \in SUBSET (1 .. m)
    BY DEF PrintedInto
  <2>2. IsFiniteSet(1 .. m)
    BY FS_Interval
  <2>3. IsFiniteSet(PrintedInto(f, m))
    BY <2>1, <2>2, FS_Subset
  <2> QED
    BY <2>3, FS_CardinalityType
<1>2. ASSUME NEW m \in 0 .. n
      PROVE  Cardinality(PrintedInto(f, m)) <= Cardinality(PrintedInto(f, n))
  <2>1. PrintedInto(f, m) \subseteq PrintedInto(f, n)
    BY DEF PrintedInto
  <2> QED
    BY <1>1, <2>1, FS_Subset
<1>3. ASSUME NEW m \in PrintedInto(f, n)
      PROVE  Cardinality(PrintedInto(f, m)) >= 1
  <2>1. m \in PrintedInto(f, m) /\ m \in Nat
    BY DEF PrintedInto
  <2>2. Cardinality(PrintedInto(f, m)) # 0
    BY <1>1, <2>1, FS_EmptySet
  <2> QED
    BY <1>1, <2>1, <2>2
<1> QED
  BY <1>1, <1>2, <1>3

LEMMA LinesStep ==
    ASSUME IInv, [Next]_vars
    PROVE  LinesKept'
<1>1. TypeOK /\ HistoryOK /\ FromCreated /\ Exclusive /\ LinesKept
  BY DEF IInv
<1>0. ASSUME UNCHANGED <<files, created, printed>> PROVE LinesKept'
  <2>1. \A f, n : PrintedInto(f, n)' = PrintedInto(f, n)
    BY <1>0 DEF PrintedInto
  <2>2. OnePerSecond' = OnePerSecond
    BY <1>0 DEF OnePerSecond
  <2> QED
    BY <1>0, <1>1, <2>1, <2>2 DEF LinesKept
<1>2. CASE Quiet
  BY <1>0, <1>2 DEF Quiet
<1>3. ASSUME NEW n \in Reserves, SetNumLogFilesToReserve(n) PROVE LinesKept'
  BY <1>0, <1>1, <1>3, SetRecords
<1>4. ASSUME NEW t \in Threads, CreateLogFile(t), OnePerSecond', NEW f \in DOMAIN files'
      PROVE  /\ Len(files'[f]) = Cardinality(PrintedInto(f, Len(printed)))
             /\ \A i \in PrintedInto(f, Len(printed)) :
                  files'[f][Cardinality(PrintedInto(f, i))] = printed[i].message
  <2>1. /\ \A k \in 1 .. Len(created) : created[k] # clock
        /\ OnePerSecond
    <3>1. /\ Len(created) \in Nat
          /\ \A k \in 1 .. Len(created) : created'[k] = created[k]
          /\ created'[Len(created) + 1] = clock
          /\ DOMAIN created = 1 .. Len(created)
          /\ DOMAIN created' = 1 .. Len(created) + 1
      BY <1>1, <1>4, CreateRecords
    <3> QED
      BY <1>4, <3>1 DEF OnePerSecond, IsInjective
  <2>2. CASE f = clock
    <3>1. files'[f] = << >>
      BY <1>1, <1>4, <2>2, CreateDirectory
    <3>2. clock # NoFile /\ ~WasCreated(clock)
      BY <1>1, <1>4, <2>1, CreateRecords DEF WasCreated
    <3>3. PrintedInto(f, Len(printed)) = {}
      <4>1. DOMAIN printed = 1 .. Len(printed)
        BY <1>1 DEF HistoryOK
      <4> QED
        BY <1>1, <2>2, <3>2, <4>1 DEF FromCreated, PrintedInto
    <3> QED
      BY <3>1, <3>3, FS_EmptySet
  <2>3. CASE f # clock
    <3>1. f \in DOMAIN files /\ files'[f] = files[f]
      BY <1>1, <1>4, <2>3, CreateDirectory
    <3> QED
      BY <1>1, <2>1, <3>1 DEF LinesKept
  <2> QED
    BY <2>2, <2>3
<1>5. ASSUME NEW t \in Threads, PrintLine(t), OnePerSecond', NEW f \in DOMAIN files'
      PROVE  /\ Len(files'[f]) = Cardinality(PrintedInto(f, Len(printed))')
             /\ \A i \in PrintedInto(f, Len(printed))' :
                  files'[f][Cardinality(PrintedInto(f, i)')] = printed'[i].message
  <2> DEFINE Mine(m) == PrintedInto(f, m)
  <2>0. PICK n : n = Len(printed)
    OBVIOUS
  <2>1. OnePerSecond /\ f \in DOMAIN files /\ n \in Nat /\ Len(printed') = n + 1
    BY <1>1, <1>5, <2>0, PrintRecords DEF OnePerSecond
  <2>2. /\ Len(files[f]) = Cardinality(Mine(n))
        /\ \A i \in Mine(n) : files[f][Cardinality(Mine(i))] = printed[i].message
    BY <1>1, <2>0, <2>1 DEF LinesKept
  <2>3. /\ \A m \in 0 .. n : PrintedInto(f, m)' = Mine(m)
        /\ PrintedInto(f, n + 1)' = Mine(n) \cup (IF f = fpLog THEN {n + 1} ELSE {})
    BY <1>1, <1>5, <2>0, PrintedIntoGrows
  <2>4. \A i \in Mine(n) : i \in 1 .. n /\ printed'[i] = printed[i]
    BY <1>1, <1>5, <2>0, PrintRecords DEF PrintedInto
  <2>5. files[f] \in Seq(0 .. MaxMessages) /\ pBuffer \in 0 .. MaxMessages
    BY <1>1, <2>1 DEF TypeOK, HistoryOK
  <2>6. PrintedInto(f, Len(printed))' = PrintedInto(f, n + 1)'
    BY <2>1
  <2>7. CASE f # fpLog
    <3>1. files'[f] = files[f]
      BY <1>1, <1>5, <2>1, <2>7, PrintRecords
    <3>2. PrintedInto(f, Len(printed))' = Mine(n)
      BY <2>3, <2>6, <2>7
    <3> QED
      BY <2>1, <2>2, <2>3, <2>4, <3>1, <3>2
  <2>8. CASE f = fpLog
    <3>1. /\ files'[f] = Append(files[f], pBuffer)
          /\ printed'[n + 1].message = message[t]
      BY <1>1, <1>5, <2>0, <2>1, <2>8, PrintRecords
    <3>2. pBuffer = message[t]
      BY <1>1, <1>5 DEF Exclusive, PrintLine
    <3>3. PrintedInto(f, Len(printed))' = Mine(n) \cup {n + 1}
      BY <2>3, <2>6, <2>8
    <3>4. /\ IsFiniteSet(Mine(n)) /\ Cardinality(Mine(n)) \in Nat
          /\ \A m \in Mine(n) : /\ Cardinality(Mine(m)) \in Nat
                                /\ Cardinality(Mine(m)) >= 1
                                /\ Cardinality(Mine(m)) <= Cardinality(Mine(n))
      BY <2>1, <2>4, PrintedIntoFinite
    <3>5. n + 1 \notin Mine(n)
      BY <2>1 DEF PrintedInto
    <3>6. Cardinality(Mine(n) \cup {n + 1}) = Cardinality(Mine(n)) + 1
      BY <3>4, <3>5, FS_AddElement
    <3>7. /\ Len(files'[f]) = Len(files[f]) + 1
          /\ \A k \in 1 .. Len(files[f]) : files'[f][k] = files[f][k]
          /\ files'[f][Len(files[f]) + 1] = pBuffer
      BY <2>5, <3>1, AppendProperties
    <3>8. ASSUME NEW i \in Mine(n)
          PROVE  files'[f][Cardinality(PrintedInto(f, i)')] = printed'[i].message
      <4>1. PrintedInto(f, i)' = Mine(i) /\ printed'[i] = printed[i]
        BY <2>3, <2>4
      <4>2. Cardinality(Mine(i)) \in 1 .. Len(files[f])
        BY <2>2, <3>4
      <4> QED
        BY <2>2, <3>7, <4>1, <4>2
    <3>9. files'[f][Cardinality(PrintedInto(f, n + 1)')] = printed'[n + 1].message
      BY <2>2, <2>3, <2>8, <3>1, <3>2, <3>6, <3>7
    <3> QED
      BY <2>2, <3>3, <3>6, <3>7, <3>8, <3>9
  <2> QED
    BY <2>7, <2>8
<1>6. ASSUME NEW t \in Threads, CreateLogFile(t) PROVE LinesKept'
  <2>1. printed' = printed
    BY <1>1, <1>6, CreateRecords
  <2> QED
    BY <1>4, <1>6, <2>1 DEF LinesKept, PrintedInto
<1>7. ASSUME NEW t \in Threads, PrintLine(t) PROVE LinesKept'
  BY <1>5, <1>7 DEF LinesKept
<1> QED
  BY <1>2, <1>3, <1>6, <1>7, StepIsQuietOr

----------------------------------------------------------------------------
LEMMA NextIInv == IInv /\ [Next]_vars => IInv'
  BY TypeStep, HistoryStep, FromCreatedStep, ExclusiveStep, RingStep, DiskStep,
     LinesStep, SizeStep DEF IInv

THEOREM SpecIInv == Spec => []IInv
  BY InitIInv, NextIInv, PTL DEF Spec

\* The types hold: the index of the next name never leaves the ring.
THEOREM SpecTypeOK == Spec => []TypeOK
<1>1. IInv => TypeOK
  BY DEF IInv
<1> QED
  BY <1>1, SpecIInv, PTL

\* Every file in the directory holds the messages printed into it, each whole
\* and in its place, for any number of threads that share the buffer.
THEOREM SpecLinesKept == Spec => []LinesKept
<1>1. IInv => LinesKept
  BY DEF IInv
<1> QED
  BY <1>1, SpecIInv, PTL

\* The size that decides on a new file is the length of the open one.
THEOREM SpecSizeTracked == Spec => []SizeTracked
<1>1. IInv => SizeTracked
  BY DEF IInv
<1> QED
  BY <1>1, SpecIInv, PTL

\* A step removes a file exactly when it creates another that makes it too
\* old for the ring, whatever was reserved before.
THEOREM SpecRemovesOldest == Spec => RemovesOldest
<1> DEFINE tooOld == Len(created') - numFilesToReserve
           Removes == OnePerSecond' =>
             DOMAIN files \ DOMAIN files' =
                IF created' # created /\ numFilesToReserve > 0 /\ tooOld > reservedFrom
                THEN {created[tooOld]} ELSE {}
<1>1. IInv /\ [Next]_vars => [Removes]_vars
  <2> SUFFICES ASSUME IInv, [Next]_vars PROVE Removes
    OBVIOUS
  <2>1. TypeOK /\ HistoryOK
    BY DEF IInv
  <2>2. ASSUME created' = created, DOMAIN files' = DOMAIN files PROVE Removes
    BY <2>2
  <2>3. CASE Quiet
    BY <2>2, <2>3 DEF Quiet
  <2>4. ASSUME NEW n \in Reserves, SetNumLogFilesToReserve(n) PROVE Removes
    BY <2>1, <2>2, <2>4, SetRecords
  <2>5. ASSUME NEW t \in Threads, CreateLogFile(t), OnePerSecond'
        PROVE  DOMAIN files \ DOMAIN files' =
                 IF numFilesToReserve > 0 /\ TooOld > reservedFrom
                 THEN {created[TooOld]} ELSE {}
    BY <2>5, CreateRemoves DEF RemovesOne
  <2>6. ASSUME NEW t \in Threads, CreateLogFile(t) PROVE Removes
    <3>1. Len(created') = Len(created) + 1 /\ Len(created) \in Nat
          /\ numFilesToReserve \in Int
      BY <2>1, <2>6, CreateRecords, LogAssumption DEF TypeOK
    <3>2. tooOld = TooOld
      BY <3>1 DEF TooOld
    <3>3. created' # created
      BY <3>1
    <3> HIDE DEF tooOld
    <3> QED
      BY <2>5, <2>6, <3>2, <3>3
  <2>7. ASSUME NEW t \in Threads, PrintLine(t) PROVE Removes
    BY <2>1, <2>2, <2>7, PrintRecords
  <2> QED
    BY <2>3, <2>4, <2>6, <2>7, StepIsQuietOr
<1> QED
  BY <1>1, SpecIInv, PTL DEF Spec, RemovesOldest
============================================================================
