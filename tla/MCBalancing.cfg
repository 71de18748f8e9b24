CONSTANTS
    Leases = {r1, r2}
    Backends = {b1, b2, b3}
    NoBackend = none
    Prompts = {1}
    Estimates = {1}
    Batches = {1}
    KvModel = "PromptPlusOutput"
    RechargeStep = 2
    MaxSeen = 1
    b1 = b1
    b2 = b2
    b3 = b3
    Strategies = {"least_requests", "least_kvts", "p2c", "round_robin"}
    Healthy <- ThreeBackends
    KvCapacity <- UnequalKv
    Width = 4
    Many = 6
    Sampled <- OneBackend
    Caps <- TwoSlots
    Sigma <- Ceiling
    SamplerTask = sampler
SPECIFICATION BalancingSpec
INVARIANTS
    StalenessIsAll
    TurnsAreEven
    CeilingWasReached
PROPERTIES
    GaugesCatchUpInPart
