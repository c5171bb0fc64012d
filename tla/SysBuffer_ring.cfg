\* The input file does not end.
SPECIFICATION Spec
CONSTANTS
    Size = 5
    MaxLength = 4
    MaxBytes = 11
    ShortReads = FALSE
INVARIANTS TypeOK InBounds NoOverwrite ReadsOnlyData HoldsStream DeliversInOrder
PROPERTY ImplementsFifo
