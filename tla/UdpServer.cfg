\* Two calls of Start at one address, at any port or at both in turn, sockets
\* that queue one datagram, and a system buffer of three slots, which datagrams
\* of three bytes never fit.
SPECIFICATION Spec
CONSTANTS
    AnyPort = "any"
    Addresses = {"here", "any"}
    MaxStarts = 2
    MaxInbox = 1
    BufferSize = 3
    PacketSizes = {1, 2, 3}
INVARIANTS TypeOK NoUseAfterDestroy
PROPERTIES StopIsHeeded StopReturns
\* The owner may have destroyed the object and the thread returned.
CHECK_DEADLOCK FALSE
