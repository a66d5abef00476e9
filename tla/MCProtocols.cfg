CONSTANTS
    \* ReliableUdp: two sessions of blocks of two, a window of two blocks.
    K = 2
    Sizes = {1}
    MaxSessions = 2
    MaxUdpItems = 3
    FlowWindow = 2
    WindowCap = 2
    NakBatch = 1
    MaxFeedback = 1
    Plans <- PlanSets
    \* EpochBarrier: three peers, of which two may die, by count and by quorum.
    Peers = {"a", "b", "c"}
    Quorums = {0, 2}
    MaxEpoch = 1
    MaxTimeouts = 1
    MaxPeerDeaths = 2
    \* SharedOnceCell: one process may die anywhere; one process reclaims.
    Procs = {p1, p2, p3}
    Reclaimers = {p1}
    MaxDeaths = 1
    NoPid = NoPid
    NoValue = NoValue
SPECIFICATION ProtocolsSpec
INVARIANTS
    DeliveredAsSent
    HeldUntilPassed
    WindowNeverRefuses
    OneProducer
PROPERTIES
    AllAcked
    OpensWhenAllArrivedAndStay
    SurvivorsPass
    AllServed
CHECK_DEADLOCK FALSE
