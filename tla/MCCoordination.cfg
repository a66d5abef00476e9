CONSTANTS
    \* LeaderElection: three processes, of which two may die.
    a = a
    b = b
    c = c
    Claimants = {a, b, c}
    Pid <- PidOf
    Grace = 0
    MaxCrashes = 2
    TermWrap = 2
    LeaderTicks = FALSE
    \* HeartbeatTable: two processes take turns at one slot; one may die
    \* anywhere.
    BeatProcs = {p1, p2}
    TableSlots = 1
    BeatGrace = 1
    MaxRegs = 3
    MaxGone = 1
    EMPTY_PID = EMPTY_PID
SPECIFICATION CoordinationSpec
INVARIANTS
    TermCountsHandovers
    SlotHasOneOwner
    ReportsOwnWork
    ErasesOnlyDeadWork
PROPERTIES
    DeadLeaderReplaced
    DeadWorkReassigned
