SPECIFICATION Spec
CONSTANTS
    BufLimit = 9
    MaxNumber = 30
    Scripts <- Pairs
    MaxChunk = 80
INVARIANT ShortFramesWait
CHECK_DEADLOCK FALSE
