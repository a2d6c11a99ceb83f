SPECIFICATION FairSpec
CONSTANTS
    p1 = p1
    p2 = p2
    PodIP <- const_PodIP
    Latency <- const_Latency
    cfg <- const_cfg
    selection <- const_selection
    maxSamples = 2
PROPERTIES
    ReadmittedAfterRecovery
