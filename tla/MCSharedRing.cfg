\* Two producers, of which one may die, and two consumers; two cells.
CONSTANTS
    Producers = {p1, p2}
    Consumers = {c1, c2}
    Capacity = 2
    MaxPos = 3
    MaxCrashes = 1
    Kinds = {"mpmc", "mpsc", "spsc"}
SPECIFICATION FairSpec
INVARIANTS
    NoCellRace
    PoppedOnceAsPushed
PROPERTIES
    ClaimsAreDelivered
