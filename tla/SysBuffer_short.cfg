\* An input file whose last fread is short.
SPECIFICATION Spec
CONSTANTS
    Size = 5
    MaxLength = 4
    MaxBytes = 11
    ShortReads = TRUE
INVARIANT HoldsStream
