SPECIFICATION RenderSpec
CONSTANTS
    None = None
    tcp1 = tcp1
    tcp2 = tcp2
    udp1 = udp1
    Recorders = {t1}
    Readers = {tui, cmd}
    BlockingReaders = {cmd}
    Tuples = {tcp1}
    Lens = {1}
    ProtocolOf <- MCProtocolOf
    FLOW_MAX_ENTRIES = 1
    FLOW_IDLE_SECS = 1
    FLOW_SWEEP_INTERVAL_SECS = 1
    MaxClock = 1
    MaxFrames = 2
PROPERTY
    NobodyWaits
