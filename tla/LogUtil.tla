------------------------------ MODULE LogUtil ------------------------------
(* The log of util/logutil.c in mode CTLOG_MODE_LOG2FILE, once CTLogInit has *)
(* succeeded: threads print under the mutex of the context, a file that is   *)
(* too long is followed by a new one named after the second, and a ring of   *)
(* names says which old file to remove.                                      *)
(*                                                                           *)
(* The model is the build for Linux, with the mutex of thread/mutex_linux.c, *)
(* which is not recursive.  A file is named by its second, a message by its  *)
(* number, and a line has length 1.  Messages below the level, which change  *)
(* nothing, are left out.                                                    *)
EXTENDS Integers, Sequences, FiniteSets, Functions

CONSTANTS
    Threads,        \* threads that log
    Reserves,       \* the numbers CTLogSetNumLogFilesToReserve is called with
    Sizes,          \* the sizes CTLogSetLogFileSize is called with
    MaxSeconds,     \* bound: how long the clock runs
    MaxMessages     \* bound: how many messages are logged

NoOne == "nobody"
NoFile == -1            \* NULL, or an empty name

ASSUME LogAssumption ==
    /\ NoOne \notin Threads
    /\ Reserves \subseteq Nat
    /\ Sizes \subseteq Nat /\ Sizes # {}
    /\ MaxSeconds \in Nat /\ MaxMessages \in Nat

VARIABLES
    mutex,              \* the owner of pMutex
    fpLog,              \* the file that is open
    curFileSize, logFileSize,
    numFilesToReserve, pFileNames, curFileIdx,
    pBuffer,            \* where a line is formatted, for all threads
    files,              \* the directory, and the lines of each file
    clock,              \* the second
    pc, message,        \* where each thread is in its call, and its message
    nMessages,          \* how many messages there have been
    created,            \* history: the files created, in this order
    reservedFrom,       \* history: how many of them are not in the ring's care
    printed             \* history: each message printed, and into which file

sizes == <<curFileSize, logFileSize>>
ring == <<numFilesToReserve, pFileNames, curFileIdx>>
log == <<fpLog, sizes, ring, pBuffer, files>>
calls == <<pc, message, nMessages>>
history == <<created, reservedFrom, printed>>
vars == <<mutex, log, clock, calls, history>>

Inside == {"create", "format", "print", "unlock"}

Goto(t, label) == pc' = [pc EXCEPT ![t] = label]

\* CTLogInit, which creates the first file before any can be reserved.
Init ==
    /\ mutex = NoOne
    /\ fpLog = 0 /\ files = [f \in {0} |-> << >>]
    /\ curFileSize = 0 /\ logFileSize \in Sizes
    /\ numFilesToReserve = -1 /\ pFileNames = << >> /\ curFileIdx = 0
    /\ pBuffer = 0 /\ clock = 0 /\ nMessages = 0
    /\ pc = [t \in Threads |-> "idle"] /\ message = [t \in Threads |-> 0]
    /\ created = <<0>> /\ reservedFrom = 1 /\ printed = << >>

Tick ==
    /\ clock < MaxSeconds
    /\ clock' = clock + 1
    /\ UNCHANGED <<mutex, log, calls, history>>

----------------------------------------------------------------------------
\* The owner of the context.

\* CTLogSetLogFileSize, at any moment.
SetLogFileSize(size) ==
    /\ logFileSize' = size
    /\ UNCHANGED <<mutex, fpLog, curFileSize, ring, pBuffer, files, clock, calls, history>>

\* CTLogSetNumLogFilesToReserve.  It takes no mutex, so nobody may log, and
\* it keeps curFileIdx, so the new ring must reach that far.
SetNumLogFilesToReserve(n) ==
    /\ \A t \in Threads : pc[t] = "idle"
    /\ n = 0 \/ n > curFileIdx
    /\ numFilesToReserve' = n
    /\ pFileNames' = [i \in 1 .. n |-> NoFile]
    /\ reservedFrom' = Len(created)
    /\ UNCHANGED <<mutex, fpLog, sizes, curFileIdx, pBuffer, files, clock, calls,
                   created, printed>>

----------------------------------------------------------------------------
\* CTLogMessage.

Begin(t) ==
    /\ pc[t] = "idle"
    /\ nMessages < MaxMessages
    /\ nMessages' = nMessages + 1
    /\ message' = [message EXCEPT ![t] = nMessages']
    /\ Goto(t, "lock")
    /\ UNCHANGED <<mutex, log, clock, history>>

\* Slip: a line is formatted and printed without waiting for the mutex.
CanLock_Always == TRUE

CanLock == mutex = NoOne

Lock(t) ==
    /\ pc[t] = "lock"
    /\ CanLock
    /\ mutex' = t
    /\ Goto(t, IF curFileSize > logFileSize THEN "create" ELSE "format")
    /\ UNCHANGED <<log, clock, message, nMessages, history>>

\* Slips: the index runs on past the ring; the name after it is the one removed.
NextIdx_NoModulo == curFileIdx + 1
OldFile_Next == pFileNames[((curFileIdx + 1) % numFilesToReserve) + 1]

NextIdx == (curFileIdx + 1) % numFilesToReserve
OldFile == pFileNames[curFileIdx + 1]

\* The directory when f has been opened with "wb+" and old removed.
Directory(f, old) ==
    [g \in (DOMAIN files \cup {f}) \ {old} |-> IF g = f THEN << >> ELSE files[g]]

\* CTLogAddLogFile for a file f just created: it takes the place of the
\* oldest name in the ring, whose file is removed.
AddLogFile(f) ==
    IF numFilesToReserve <= 0
    THEN /\ files' = Directory(f, NoFile)
         /\ UNCHANGED ring
    ELSE /\ files' = Directory(f, OldFile)
         /\ pFileNames' = [pFileNames EXCEPT ![curFileIdx + 1] = f]
         /\ curFileIdx' = NextIdx
         /\ UNCHANGED numFilesToReserve

\* Slip: the size of the old file is kept.
SizeOfNew_Kept == curFileSize

SizeOfNew == 0

CreateLogFile(t) ==
    /\ pc[t] = "create"
    /\ AddLogFile(clock)
    /\ fpLog' = clock
    /\ curFileSize' = SizeOfNew
    /\ created' = Append(created, clock)
    /\ Goto(t, "format")
    /\ UNCHANGED <<mutex, logFileSize, pBuffer, clock, message, nMessages,
                   reservedFrom, printed>>

\* CTCreateFile returns NULL, and CTLogMessage returns without unlocking.
CreateFails(t) ==
    /\ pc[t] = "create"
    /\ fpLog' = NoFile
    /\ Goto(t, "idle")
    /\ UNCHANGED <<mutex, sizes, ring, pBuffer, files, clock, message, nMessages, history>>

Format(t) ==
    /\ pc[t] = "format"
    /\ pBuffer' = message[t]
    /\ Goto(t, "print")
    /\ UNCHANGED <<mutex, fpLog, sizes, ring, files, clock, message, nMessages, history>>

\* CTLogPrint; a file removed while it is open is in no directory.
PrintLine(t) ==
    /\ pc[t] = "print"
    /\ files' = [f \in DOMAIN files |->
                    IF f = fpLog THEN Append(files[f], pBuffer) ELSE files[f]]
    /\ curFileSize' = curFileSize + 1
    /\ printed' = Append(printed, [message |-> message[t], file |-> fpLog])
    /\ Goto(t, "unlock")
    /\ UNCHANGED <<mutex, fpLog, logFileSize, ring, pBuffer, clock, message,
                   nMessages, created, reservedFrom>>

\* Slip: the call returns with the mutex locked.
Unlocked_Not == mutex

Unlocked == NoOne

Unlock(t) ==
    /\ pc[t] = "unlock"
    /\ mutex' = Unlocked
    /\ Goto(t, "idle")
    /\ UNCHANGED <<log, clock, message, nMessages, history>>

InMessage(t) ==
    \/ Lock(t) \/ CreateLogFile(t) \/ CreateFails(t)
    \/ Format(t) \/ PrintLine(t) \/ Unlock(t)

Next ==
    \/ Tick
    \/ \E size \in Sizes : SetLogFileSize(size)
    \/ \E n \in Reserves : SetNumLogFilesToReserve(n)
    \/ \E t \in Threads : Begin(t) \/ InMessage(t)

\* A thread inside a call is scheduled; none waits for the mutex for ever while
\* others lock it again and again.
Spec == Init /\ [][Next]_vars /\ \A t \in Threads : SF_vars(InMessage(t))

----------------------------------------------------------------------------
\* Every variable has its type; the index of the next name is in the ring.
TypeOK ==
    /\ mutex \in Threads \cup {NoOne}
    /\ fpLog \in 0 .. MaxSeconds \cup {NoFile}
    /\ curFileSize \in Nat /\ logFileSize \in Sizes
    /\ numFilesToReserve \in Reserves \cup {-1}
    /\ numFilesToReserve > 0 =>
        /\ pFileNames \in [1 .. numFilesToReserve -> 0 .. MaxSeconds \cup {NoFile}]
        /\ curFileIdx < numFilesToReserve
    /\ curFileIdx \in Nat /\ pBuffer \in 0 .. MaxMessages
    /\ DOMAIN files \subseteq 0 .. MaxSeconds /\ clock \in 0 .. MaxSeconds
    /\ pc \in [Threads -> Inside \cup {"idle", "lock"}]
    /\ message \in [Threads -> 0 .. nMessages] /\ nMessages \in 0 .. MaxMessages

\* No two files were created in one second.
OnePerSecond == IsInjective(created)

\* A file is removed exactly when a new one makes it too old to be among the
\* latest numFilesToReserve, of those created since that number was set.
RemovesOldest ==
    [][OnePerSecond' =>
        LET tooOld == Len(created') - numFilesToReserve
        IN  DOMAIN files \ DOMAIN files' =
                IF created' # created /\ numFilesToReserve > 0
                   /\ tooOld > reservedFrom
                THEN {created[tooOld]} ELSE {}]_vars

\* Which of the first n messages printed were printed into file f.
PrintedInto(f, n) == {i \in 1 .. n : printed[i].file = f}

\* A file that was not removed holds each message printed into it, as its
\* thread wrote it, at its place in the order of printing, and nothing else,
\* although threads share one buffer to format the lines.
LinesKept ==
    OnePerSecond => \A f \in DOMAIN files :
        /\ Len(files[f]) = Cardinality(PrintedInto(f, Len(printed)))
        /\ \A i \in PrintedInto(f, Len(printed)) :
             files[f][Cardinality(PrintedInto(f, i))] = printed[i].message

\* The size that decides when to begin a new file is that of the open file.
SizeTracked == fpLog \in DOMAIN files => curFileSize = Len(files[fpLog])

\* A message is logged in the end, unless a file could not be created.
MessageReturns ==
    \A t \in Threads : pc[t] = "lock" ~> pc[t] = "idle" \/ fpLog = NoFile
============================================================================
