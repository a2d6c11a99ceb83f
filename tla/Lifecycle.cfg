SPECIFICATION FairSpec
CONSTANTS
    pol1 = pol1
    pol2 = pol2
    svc1 = svc1
    svc2 = svc2
    p1 = p1
    p2 = p2
    NoOne = NoOne
    Policies <- const_TwoPolicies
    Services <- const_OneService
    PodIP <- const_OnePod
    FirstIPs <- const_AllAddressed
    Behind <- const_BehindOne
    Latency <- const_OneLatency
    Specs <- const_PlainSpecs
    Source = "probe"
    Retarget = FALSE
    MaxEvents = 4
    MaxFaults = 1
INVARIANTS
    TypeOK
    SliceHasPolicy
    MemoryHasPolicy
PROPERTIES
    DroppedOnlyWithoutService
    DeletionCompletes
    ImplementsLifecycle
    Converges
