\* A sender on an old state while a morph prunes the stale backings.
CONSTANTS
    Senders = {"p"}
    Receiver = "c"
    Morphers = {"m"}
    Pinners = {}
    Prewarmer = "w"
    Teams <- TeamSets
    Capacities = {2, 4}
    MaxBackings = 3
SPECIFICATION CrSpec
INVARIANTS
    NoItemStranded
CHECK_DEADLOCK FALSE
