CONSTANTS
    \* SpscRing: two payloads, a ring of two cells lapped more than twice.
    Payload = {a, b}
    Zeroed = zeroed
    Capacity = 2
    MaxPushes = 5
    PopWhilePeeked = FALSE
    \* SharedDeque: an owner and two thieves on two cells.
    Thieves = {"s", "u"}
    DequeCapacity = 2
    MaxBatch = 2
    DequeItems = 5
    \* SharedTreiberStack: two slots used twice each.
    Stackers = {"a", "b"}
    StackSlots = 2
    StackPushes = 4
    CounterWrap = 16
    \* SharedBroadcastRing: two entries, two slots written twice each.
    Listeners = {"u", "v"}
    Entries = 2
    RingSlots = 2
    MaxMessages = 4
    \* SwapCell: a thread that only loads and one that loads and stores.
    Loaders = {"r", "w"}
    Writers = {"w"}
    SwapCells = {"x"}
    OptionCells = {"x"}
    Addresses = {1, 2}
    MaxGuards <- GuardLimits
    MaxValues = 2
    \* CapacityRing: five teams, up to two morphs of capacity.
    Senders = {"p", "q"}
    Receiver = "c"
    Morphers = {"m", "n"}
    Pinners = {"k"}
    Prewarmer = "w"
    Teams <- TeamSets
    Capacities = {2, 4}
    MaxBackings = 3
    \* OwnerLease: two processes, one with a beater; one may die.
    Claimants = {"a", "b", "bb"}
    Beaters = {"bb"}
    Guarded = {"b"}
    Pid <- PidOf
    Grace = 0
    MaxCrashes = 2
    TermWrap = 2
    LeaderTicks = FALSE
    MaxWrites = 2
SPECIFICATION StructuresSpec
INVARIANTS
    NoCopyRace
    EachItemOnce
    SlotsAccountedFor
    ReceivesInSequence
    GuardKeepsValue
    CountsExact
    OrderAcrossMorphs
    PruneKeepsItems
    IdsStayValid
    ValidPinIsActive
    ExclusiveUntilTaken
PROPERTIES
    ImplementsFifo
    ImplementsStack
CHECK_DEADLOCK FALSE
