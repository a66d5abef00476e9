\* Two parkers, one timed, and a waker on two slots; scans over all the slots (capacity > 64).
CONSTANTS
    Parkers = {p1, p2}
    Wakers = {w1}
    Capacity = 2
    Masked = FALSE
    Timed = {p1}
    Scans = {"upto", "one", "all"}
    MaxSeq = 2
SPECIFICATION FairSpec
INVARIANTS
    OneHolder
    NoLostWakeup
PROPERTIES
    PublishedIsTaken
CHECK_DEADLOCK FALSE
