\* Two threads that log through several rotations, one or two files reserved.
SPECIFICATION Spec
CONSTANTS
    Threads = {a, b}
    Reserves = {0, 1, 2}
    Sizes = {0, 1}
    MaxSeconds = 3
    MaxMessages = 4
INVARIANTS TypeOK LinesKept SizeTracked
PROPERTIES RemovesOldest MessageReturns
