\* A waiter with a timeout beside one without, and a signaler.
SPECIFICATION Spec
CONSTANTS
    NoThread = NoThread
    Threads = {w1, w2, s1}
    Waiters = {w1, w2}
    TimedThreads = {w1}
    Signalers = {s1}
    SignalUnlocked = TRUE
PROPERTY TimedWaitReturns
\* The deadlock found is judged by the property, not reported before it.
CHECK_DEADLOCK FALSE
