SPECIFICATION Spec
CONSTANTS
    None = None
    tcp1 = tcp1
    tcp2 = tcp2
    udp1 = udp1
    Recorders = {t1, t2}
    Readers = {}
    BlockingReaders = {}
    Tuples = {tcp1, udp1}
    Lens = {1}
    ProtocolOf <- MCProtocolOf
    FLOW_MAX_ENTRIES = 1
    FLOW_IDLE_SECS = 1
    FLOW_SWEEP_INTERVAL_SECS = 1
    MaxClock = 5
    MaxFrames = 3
INVARIANTS
    Conservation
PROPERTIES
    SweepsApart
    TableSpec
CHECK_DEADLOCK FALSE
