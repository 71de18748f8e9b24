CONSTANTS
    Leases = {r1, r2, r3}
    b1 = b1
    b2 = b2
    Backends = {b1}
    NoBackend = none
    Prompts = {1}
    Estimates = {1}
    Batches = {1}
    KvModel = "PromptPlusOutput"
    RechargeStep = 2
    MaxSeen = 2
    Healthy <- OneBackend
    Workers = 1
    MaxSeqs <- TwoSlots
    KvCapacity <- UnequalKv
    Sigma <- SigmaHigh
    Theta <- ThetaHalf
    Penalty <- PenaltyNaN
SPECIFICATION FairPathSpec
PROPERTIES
    CapacityReturned
