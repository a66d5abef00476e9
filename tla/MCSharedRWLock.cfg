\* Three threads, each a reader and a writer in turn; one may give up.
CONSTANTS
    Threads = {t1, t2, t3}
    Readers = {t1, t2, t3}
    Writers = {t1, t2, t3}
    Deadline = {t3}
SPECIFICATION FairSpec
INVARIANTS
    Exclusion
PROPERTIES
    WriterPriority
    WriterNotStarved
