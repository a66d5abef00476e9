\* A producer may die anywhere; live producers publish within a scan interval.
CONSTANTS
    Producers = {p1, p2}
    Consumers = {c1}
    Capacity = 2
    MaxPos = 2
    MaxCrashes = 1
    Kinds = {"mpsc"}
    Grace = 0
    SlowPublish = FALSE
SPECIFICATION FFairSpec
INVARIANTS
    WatchdogKeepsContract
PROPERTIES
    ClaimsAreDelivered
