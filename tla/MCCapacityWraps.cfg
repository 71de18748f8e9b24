CONSTANTS
    Files <- SomeFiles
    Capacities <- WrappingCapacities
    Connections = {c1, c2}
    Width = 16
    NaN = nan
    Inf = inf
    None = none
    Pool <- TwoBackends
    Reporters = {t1, t2}
    EjectAfter = 2
    MaxFailures = 3
    MaxEpoch = 1
    b1 = b1
    b2 = b2
    Backends = {b1, b2}
    Interval = 3
    Timeout = 2
    MaxMisses = 2
    NoReading = noReading
    Callers = {c1, c2}
    Ratios = {0, 1000, 2000}
    MinSamples = 2
    Low = 900
    High = 1100
    MaxSamples = 4
    Texts <- SomeTexts
    Projections <- SomeProjections
    MaxQueries = 2
    U32 = 4
    U64 = 6
    NotANumber = notANumber
    Absent = absent
SPECIFICATION OperationsSpec
CHECK_DEADLOCK FALSE
INVARIANT MismatchRefused
