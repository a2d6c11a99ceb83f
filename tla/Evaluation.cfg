SPECIFICATION Spec
CONSTANTS
    p1 = p1
    p2 = p2
    p3 = p3
    PodIP <- const_PodIP
    Latency <- const_Latency
    Specs <- const_Specs
    dampening <- const_dampening
INVARIANTS
    NoFasterPodLeftOut
    KeepsTheRightNumber
    CounterIsPersistence
PROPERTIES
    ImprovedPodStays
    ReplacedOnlyAfterPersistence
