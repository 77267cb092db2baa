\* Two dispatchers, or one whose batches are slow and whose posts are refused.
SPECIFICATION FairSpec
CONSTANTS
    RowBound = 3
    StreamOf <- TwoThreads
    Unroutable = {3}
    Detailed = {2}
    DispatcherBound = 2
    BatchLimit = 2
    MaxTries = 2
    CrashBound = 1
    FaultSets <- TwoCrews
INVARIANTS
    ClaimExclusive
    DuplicatesArePaid
    AtLeastOnce
    HeldBehindUnsettled
PROPERTIES
    EventuallySettled
CHECK_DEADLOCK FALSE
