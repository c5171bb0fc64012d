\* The decoder takes a frame once the next one has been started.
SPECIFICATION Spec
CONSTANTS
    Size = 5
    MaxFrames = 4
    MaxLength = 2
    MaxBytes = 7
    WaitForNext = TRUE
INVARIANTS TypeOK FramesApart MoveIsDisjoint HeldFrameIntact
PROPERTY ImplementsQueue
