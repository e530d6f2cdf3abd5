SPECIFICATION Spec
CONSTANTS
    Hosts = {h1, h2}
    SeqMod = 4
    Timeout = 1
    IcmpCap = 1
    Interval = 1
    ReplyLife = 1
    MaxProbes = 6
INVARIANTS
    OwnReply
    OwnReplyWithinWrap
    CodecAgrees
SYMMETRY HostSymmetry
