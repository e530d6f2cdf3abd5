SPECIFICATION FairSpec
CONSTANTS
    Hosts = {h1, h2}
    SeqMod = 4
    Timeout = 3
    IcmpCap = 2
    Interval = 1
    ReplyLife = 1
    MaxProbes = 1
INVARIANTS
    WaitBounded
PROPERTIES
    EveryProbeReported
