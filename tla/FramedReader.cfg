SPECIFICATION Spec
CONSTANTS
    BufLimit = 9
    MaxNumber = 30
    Scripts <- Pairs
    MaxChunk = 80
INVARIANTS
    Framing
    StallsOnlyOnMalformed
    ErrorsOnlyOnBadInput
    PanicsOnlyOnHeaders
\* The stream ends.
CHECK_DEADLOCK FALSE
