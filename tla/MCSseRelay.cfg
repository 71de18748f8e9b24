CONSTANTS
    Streams <- SomeStreams
SPECIFICATION RelaySpec
INVARIANTS
    RelayTypeOK
    ChunkingInvisible
    VerdictFollowsStream
    LossIsLocal
CHECK_DEADLOCK FALSE
