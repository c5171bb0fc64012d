\* Three waiters of which one also signals, with a signaler; or one waiter
\* whose wait may expire, with two signalers.
SPECIFICATION CSpec
CONSTANTS
    NoThread = NoThread
    Threads = {w1, w2, ws, wt, s1, s2}
    Waiters = {w1, w2, ws, wt}
    TimedThreads = {wt}
    Signalers = {ws, s1, s2}
    SignalUnlocked = TRUE
    Teams = {{w1, w2, ws, s1}, {wt, s1, s2}}
    Seats = {{w1, wt}, {w2, s2}, {ws}, {s1}}
    Followed = {TRUE}
INVARIANTS TypeOK TokenBalance HandshakeBalance WokenFindsSignal BroadcastRestartsAll
PROPERTIES ImplementsCondVar SignalReturns WokenReturns TimedWaitReturns
