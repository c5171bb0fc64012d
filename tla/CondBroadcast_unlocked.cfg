\* A signaler that does not hold the mutex, and waiters that wait again.
SPECIFICATION CSpec
CONSTANTS
    NoThread = NoThread
    Threads = {w1, w2, s1}
    Waiters = {w1, w2}
    TimedThreads = {}
    Signalers = {s1}
    SignalUnlocked = TRUE
    Teams = {{w1, w2, s1}}
    Seats = {{w1}, {w2}, {s1}}
    Followed = {FALSE}
INVARIANT BroadcastRestartsAll
