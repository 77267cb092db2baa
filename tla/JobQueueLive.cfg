SPECIFICATION FairSpec
CONSTANTS
    j1 = j1
    j2 = j2
    w1 = w1
    w2 = w2
    w3 = w3
    tree = tree
    Jobs = {j1}
    Workers = {w1, w2}
    Dispatcher = Dispatcher
    Recovery = Recovery
    NoJob = NoJob
    NoWorktree = NoWorktree
    MaxAttempts = 2
    MaxParallel = 1
    LeaseBound = 2
    LeaseOutlivesRun = FALSE
    Commands = {"drop", "cancel"}
    DependsOn <- NoDependencies
    AssuranceOf <- NoDependencies
    Worktree <- NoWorktrees
PROPERTIES
    RunningIsResolved
CHECK_DEADLOCK FALSE
