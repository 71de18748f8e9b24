CONSTANTS
    Streams <- SomeStreams
SPECIFICATION RelaySpec
INVARIANTS
    ErrorFrameRecognised
CHECK_DEADLOCK FALSE
