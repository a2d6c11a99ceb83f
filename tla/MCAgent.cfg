SPECIFICATION FairSpec
CONSTANTS
    f1 = f1
    f2 = f2
    ip1 = ip1
    Flow <- const_Flow
    Dst <- const_Dst
    MaxEntries = 1
    RingSize = 1
    MaxRTT = 1
    Word = 3
    maxSamples = 2
    MaxClock = 3
    MaxRecords = 3
INVARIANTS
    RTTsAreReal
    SamplesAreTheLatest
    StatsWithinSamples
    ReleasedOnReturn
PROPERTIES
    RecordsGetRead
    ReaderReturns
