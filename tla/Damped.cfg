SPECIFICATION FairSpec
CONSTANTS
    pol1 = pol1
    pol2 = pol2
    svc1 = svc1
    svc2 = svc2
    p1 = p1
    p2 = p2
    NoOne = NoOne
    Policies <- const_OnePolicy
    Services <- const_OneService
    PodIP <- const_TwoPods
    FirstIPs <- const_NoneOrAllAddressed
    Behind <- const_BehindTwo
    Latency <- const_TwoLatencies
    Specs <- const_DampedSpecs
    Source = "ebpf"
    Retarget = FALSE
    MaxEvents = 3
    MaxFaults = 1
INVARIANTS
    DampenerKnowsSlice
