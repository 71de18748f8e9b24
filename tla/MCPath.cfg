CONSTANTS
    Leases = {r1, r2, r3}
    b1 = b1
    b2 = b2
    Backends = {b1, b2}
    NoBackend = none
    Prompts = {1, 2}
    Estimates = {1}
    Batches = {1}
    KvModel = "PromptPlusOutput"
    RechargeStep = 2
    MaxSeen = 2
    Healthy <- TwoBackends
    Workers = 2
    MaxSeqs <- OneFewSlots
    KvCapacity <- OneLittleKv
    Sigma <- SigmaHigh
    Theta <- ThetaHalf
    Penalty <- PenaltyNegative
SYMMETRY Symmetric
SPECIFICATION PathSpec
INVARIANTS
    PathTypeOK
    ChargedWhileServed
    RecordedOnce
    SlotOvershoot
    KvOvershoot
    NeverRefuses
PROPERTIES
    ImplementsLease
