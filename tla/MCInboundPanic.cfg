CONSTANTS
    Bodies = {b1, b2}
    Routes <- ModelRoutes
    Lengths = {1, 6}
    MaxTokens = {0, 9}
    Width = 8
    Decay <- Halving
    Default = 3
    MaxTime = 2
    None = none
    Requests <- AllRequests
    MaxBody = 8
    CounterKinds = {"Whitespace", "CharsPerToken"}
    CharsPerToken = 4
    BucketCap = 2
SYMMETRY Symmetric
SPECIFICATION InboundSpec

INVARIANT StreamOptionsIsObject
