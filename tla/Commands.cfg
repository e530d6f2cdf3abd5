SPECIFICATION FairSpec
CONSTANTS
    None = None
    Tables <- MCTables
    Specs <- MCSpecs
    Frames <- MCFrames
    Cuts = {14, 17, 33, 34, 53, 54}
    MaxFrames = 2
    DnsTimeout = 2
    MaxAttempts = 2
    DnsDomains = 2
    Late = 1
    MaxLookups = 2
    MaxElapsed = 9
    Pingers = {p1, p2}
    Workers = 1
    ResolveTime = 3
    ProbeTime = 2
    MaxQueued = 2
    Numeral <- MCNumeral
    Dashboards = {d1, d2}
    Arrivals <- MCArrivals
    Ages = {0, 1}
    Clock = {0, 1}
    MaxTorn = 1
INVARIANTS
    CommandsTypeOK
    StartsApart
    ReportTrue
    TagsInvisible
    ZoneRespected
    LookupClassified
    LostOnlyToResults
    LeavesInOrder
    HeaderOnce
    ExportFaithful
PROPERTY
    CommandsEnd
CHECK_DEADLOCK FALSE
