\* One process may die; two processes reclaim.
CONSTANTS
    Procs = {p1, p2, p3}
    Reclaimers = {p1, p2}
    MaxDeaths = 1
    NoPid = NoPid
    NoValue = NoValue
SPECIFICATION OSpec
INVARIANTS
    OneProducer
CHECK_DEADLOCK FALSE
