\* Index updates compiled to the two stores of the source.
SPECIFICATION TornSpec
CONSTANTS
    Size = 5
    MaxLength = 4
    MaxBytes = 11
    ShortReads = FALSE
INVARIANT InBounds
