SPECIFICATION FairSpec
CONSTANTS
    Hosts = {h1}
    SeqMod = 4
    Timeout = 0
    IcmpCap = 2
    Interval = 2
    ReplyLife = 1
    MaxProbes = 2
PROPERTIES
    EveryProbeReported
