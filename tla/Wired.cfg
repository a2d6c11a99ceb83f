SPECIFICATION WiredSpec
CONSTANTS
    a1 = a1
    a2 = a2
    p1 = p1
    p2 = p2
    Agent <- const_Agent
    PodIP <- const_PodIP
    Reading <- const_Reading
    Latency <- const_Latency
    unreachableLatency = 9
PROPERTIES
    AgentsAreRead
