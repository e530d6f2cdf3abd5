SPECIFICATION AppSpec
CONSTANTS
    a = a
    b = b
    None = None
    Shown <- ThreeShown
    Rtts = {1, 2, 8}
    CastMod = 3
    PerMs = 2
    Window = 3
    LossUnit = 10
    LossLimit = 400
    LossEpsilon = 1000
    RttLimit = 2
    DnsResults = {r1, r2}
    DnsKept = 3
    DnsRows = 2
    Base = 2
    Heights = {1, 4, 5, 8, 10, 11, 13, 14}
    Widths = {83, 84, 85}
    MaxSamples = 5
    MaxDns = 4
INVARIANTS
    MeanOfReceived
CHECK_DEADLOCK FALSE
