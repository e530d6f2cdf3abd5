SPECIFICATION Spec
CONSTANTS
    None = None
    tcp1 = tcp1
    tcp2 = tcp2
    udp1 = udp1
    Recorders = {t1}
    Readers = {}
    BlockingReaders = {}
    Tuples = {tcp1, tcp2, udp1}
    Lens = {1}
    ProtocolOf <- MCProtocolOf
    FLOW_MAX_ENTRIES = 2
    FLOW_IDLE_SECS = 2
    FLOW_SWEEP_INTERVAL_SECS = 1
    MaxClock = 8
    MaxFrames = 4
INVARIANTS
    TypeOK
    OverfullIsFresh
    SpreadBounded
PROPERTIES
    ActiveKept
CHECK_DEADLOCK FALSE
SYMMETRY FlowSymmetry
