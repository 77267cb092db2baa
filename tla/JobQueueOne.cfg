SPECIFICATION Spec
CONSTANTS
    j1 = j1
    j2 = j2
    w1 = w1
    w2 = w2
    w3 = w3
    tree = tree
    Jobs = {j1}
    Workers = {w1, w2}
    Dispatcher = Dispatcher
    Recovery = Recovery
    NoJob = NoJob
    NoWorktree = NoWorktree
    MaxAttempts = 2
    MaxParallel = 2
    LeaseBound = 2
    LeaseOutlivesRun = FALSE
    Commands = {"worker", "drop", "queued", "cancel", "reclaim", "revalidate", "invalidate", "salvage"}
    DependsOn <- NoDependencies
    AssuranceOf <- NoDependencies
    Worktree <- NoWorktrees
SYMMETRY WorkerSymmetry
INVARIANTS
    TypeOK
    ActiveJobHasLease
PROPERTIES
    OutcomeSticks
CHECK_DEADLOCK FALSE
