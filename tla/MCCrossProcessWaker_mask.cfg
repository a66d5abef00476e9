\* Two parkers, one waker, scans by the mask (capacity <= 64, the default 32).
CONSTANTS
    Parkers = {p1, p2}
    Wakers = {w1}
    Capacity = 1
    Masked = TRUE
    Timed = {}
    Scans = {"upto"}
    MaxSeq = 2
SPECIFICATION Spec
INVARIANTS
    NoLostWakeup
