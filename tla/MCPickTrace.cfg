CONSTANTS
    Leases = {r1, r2}
    b1 = b1
    b2 = b2
    Backends = {b1, b2}
    NoBackend = none
    Prompts = {1, 6}
    Estimates = {1}
    Batches = {1}
    KvModel = "PromptPlusOutput"
    RechargeStep = 2
    MaxSeen = 1
    Healthy <- TwoBackends
    Workers = 2
    MaxSeqs <- UnequalSlots
    KvCapacity <- UnequalKv
    Sigma <- SigmaHigh
    Theta <- ThetaHalf
    Penalty <- PenaltyTen
SYMMETRY Symmetric
SPECIFICATION TraceSpec
INVARIANTS
    TraceExplains
