CONSTANTS
    Leases = {l1, l2}
    Backends = {b1, b2}
    NoBackend = none
    Prompts = {1, 3}
    Estimates = {1, 2}
    Batches = {1, 2}
    KvModel = "PromptPlusOutput"
    RechargeStep = 2
    MaxSeen = 5
SYMMETRY Symmetric
SPECIFICATION LeaseSpec
INVARIANTS
    LeaseTypeOK
    SettledCountersAgree
    ChargeCoversOutput
    RechargeIsBounded
PROPERTIES
    ImplementsSlotLedger
    ImplementsKvLedger
