------------------------------ MODULE Deadline ------------------------------
(* The deadlines of timed waits on Linux (thread/cond_linux.c:79-86 and    *)
(* thread/sem_linux.c:86-100): the time of day plus a timeout in           *)
(* milliseconds, as the seconds and nanoseconds pthread and sem_timedwait  *)
(* take.                                                                   *)
EXTENDS Integers

VARIABLE wait   \* the time of day and the timeout of a wait

DeadlineInit(usecs, timeouts) ==
    wait \in [now : [sec : {0}, usec : usecs], ms : timeouts]

Million == 1000 * 1000
Billion == 1000 * Million

\* Slip: no carry.
CondDeadline_NoCarry(now, ms) ==
    [sec |-> now.sec + ms \div 1000,
     nsec |-> (now.usec + (ms % 1000) * 1000) * 1000]

\* CTCondWaitTimeout.  A sum of exactly a second is not carried.
CondDeadline(now, ms) ==
    LET sec == now.sec + ms \div 1000
        nsec == (now.usec + (ms % 1000) * 1000) * 1000
    IN  IF nsec > Billion THEN [sec |-> sec + 1, nsec |-> nsec - Billion]
                          ELSE [sec |-> sec, nsec |-> nsec]

\* CTSemWaitTimeout, for timeouts other than zero and CTSEM_MAXWAIT.
SemDeadline(now, ms) ==
    LET usec == now.usec + (ms % 1000) * 1000
        sec == now.sec + ms \div 1000
    IN  IF usec >= Million
        THEN [sec |-> sec + 1, nsec |-> (usec - Million) * 1000]
        ELSE [sec |-> sec, nsec |-> usec * 1000]

\* What the system calls accept; otherwise they fail with EINVAL at once.
Accepted(deadline) == deadline.nsec \in 0 .. Billion - 1

\* The reference: milliseconds and microseconds between now and a deadline.
Later(now, deadline) ==
    LET usec == deadline.nsec \div 1000 - now.usec
    IN  [ms |-> (deadline.sec - now.sec) * 1000 + usec \div 1000,
         usec |-> usec % 1000]

\* Both waits end the timeout after they began, no sooner and no later, and
\* the system takes their deadline; except that the sum of the microseconds
\* is a whole second exactly when that of the condition is refused
\* (cond_linux.c:83 carries only past it), and CTCondWaitTimeout returns -1
\* without having waited.
DeadlinesMeetTimeouts ==
    LET s == SemDeadline(wait.now, wait.ms)
        c == CondDeadline(wait.now, wait.ms)
        due == [ms |-> wait.ms, usec |-> 0]
        wholeSecond == wait.now.usec + (wait.ms % 1000) * 1000 = Million
    IN  /\ Later(wait.now, s) = due /\ Accepted(s)
        /\ Later(wait.now, c) = due /\ (Accepted(c) <=> ~wholeSecond)
=============================================================================
