\* Streams that wrap around, frames of NAL units, every call with every name on
\* every small tree of files, a byte array filled from a file and moved, and
\* deadlines around a carry.
SPECIFICATION SeqSpec
CONSTANTS
    Several = 3
    WrapUnit = 8
    WrapAt = 16
    Starts = {6, 12, 13, 15}
    Reorder = 2
    MaxGap = 3
    MaxFrames = 6
    MaxHeld = 2
    Frames <- SmallFrames
    Labels <- SmallLabels
    Cwd <- CurrentDir
    Names <- SmallNames
    Trees <- SmallTrees
    MaxCalls = 1
    ArraySize = 4
    FileLength = 7
INVARIANTS FollowsStreamFromNearWrap CreatesWhatIsNamed RemovesOnlyWhatIsNamed PeelsWholeUnits KeyFrameStartsWithIDR UnreadIsTheFile DeadlinesMeetTimeouts
CHECK_DEADLOCK FALSE
