\* One sponsor message at a time, with the daemon and recovery beside it.
SPECIFICATION FairSpec
CONSTANTS
    h1 = h1
    f1 = f1
    Handlers = {h1}
    Findings = {f1}
    RunBound = 2
    JobBound = 2
    MessageBound = 3
    MaxCycles = 2
    MaxRecurrence = 1
INVARIANTS
    CompletedIsDelivered
    EscalationIsEarned
    RecurrenceBounded
PROPERTIES
    KeepsContract
    FailureLeavesNextAction
    OutstandingSettles
CHECK_DEADLOCK FALSE
