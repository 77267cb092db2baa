SPECIFICATION Spec
CONSTANTS
    j1 = j1
    j2 = j2
    w1 = w1
    w2 = w2
    w3 = w3
    tree = tree
    Jobs = {j1}
    Workers = {w1, w2, w3}
    Dispatcher = Dispatcher
    Recovery = Recovery
    NoJob = NoJob
    NoWorktree = NoWorktree
    MaxAttempts = 3
    MaxParallel = 2
    LeaseBound = 3
    LeaseOutlivesRun = TRUE
    Commands = {"worker", "drop", "revalidate"}
    DependsOn <- NoDependencies
    AssuranceOf <- NoDependencies
    Worktree <- NoWorktrees
SYMMETRY WorkerSymmetry
INVARIANTS
    SafeOneExecutor
    ExecutorHoldsLease
    AttemptsPaidFor
CHECK_DEADLOCK FALSE
