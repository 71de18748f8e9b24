CONSTANTS
    Leases = {r1, r2}
    b1 = b1
    b2 = b2
    Backends = {b1}
    NoBackend = none
    Prompts = {1}
    Estimates = {1}
    Batches = {1}
    KvModel = "PromptPlusOutput"
    RechargeStep = 2
    MaxSeen = 2
    Healthy <- OneBackend
    Workers = 1
    MaxSeqs <- TwoSlots
    KvCapacity <- OneLittleKv
    Sigma <- SigmaOne
    Theta <- ThetaHalf
    Penalty <- PenaltyNaN
SYMMETRY Symmetric
SPECIFICATION PathSpec
INVARIANTS
    NeverRefuses
