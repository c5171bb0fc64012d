\* Three threads that post and wait, one with a timeout, at a low limit.
SPECIFICATION Spec
CONSTANTS
    Threads = {a, b, c}
    TimedThreads = {c}
    InitialValue = 1
    MaxCount = 2
INVARIANTS TypeOK ValueBalance NoUseAfterFree
