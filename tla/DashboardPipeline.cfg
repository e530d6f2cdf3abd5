SPECIFICATION FairSpec
CONSTANTS
    a = a
    b = b
    d1 = d1
    d2 = d2
    None = None
    Shown <- TwoShown
    Domains <- TwoDomains
    Rtts = {2, 4}
    CastMod = 3
    PerMs = 2
    Window = 2
    LossUnit = 10
    LossLimit = 400
    LossEpsilon = 1000
    RttLimit = 0
    DnsResults = {d1, d2}
    DnsKept = 2
    MaxSamples = 2
    MaxDns = 2
INVARIANTS
    TypeOK
    NothingLost
    Exported
    StatsAgree
    MeanBetweenExtremes
PROPERTIES
    EverySampleShown
    DnsEnds
CHECK_DEADLOCK FALSE
