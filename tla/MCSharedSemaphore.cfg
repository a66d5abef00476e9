\* Three threads on one permit of two; the second bare release is one too many.
CONSTANTS
    Threads = {t1, t2, t3}
    InitPermits = 1
    MaxPermits = 2
    MaxBare = 2
    CountMod = 8
    MaxCalls = 2
SPECIFICATION Spec
SYMMETRY Symmetry
INVARIANTS
    PermitsAccountedFor
    AtMostMaxPermits
CHECK_DEADLOCK FALSE
