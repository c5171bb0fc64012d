\* A stream that starts long before its timestamps wrap around.
SPECIFICATION TsSpec
CONSTANTS
    Several = 4
    WrapUnit = 16
    WrapAt = 16
    Starts = {10}
    Reorder = 2
    MaxGap = 3
    MaxFrames = 6
    MaxHeld = 2
INVARIANT FollowsStream
CHECK_DEADLOCK FALSE
