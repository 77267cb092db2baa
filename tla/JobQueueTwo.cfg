SPECIFICATION Spec
CONSTANTS
    j1 = j1
    j2 = j2
    w1 = w1
    w2 = w2
    w3 = w3
    tree = tree
    Jobs = {j1, j2}
    Workers = {w1, w2}
    Dispatcher = Dispatcher
    Recovery = Recovery
    NoJob = NoJob
    NoWorktree = NoWorktree
    MaxAttempts = 1
    MaxParallel = 2
    LeaseBound = 1
    LeaseOutlivesRun = FALSE
    Commands = {"pause", "drift", "invalidate"}
    DependsOn <- NoDependencies
    AssuranceOf <- J2ChecksJ1
    Worktree <- OneWorktree
SYMMETRY WorkerSymmetry
INVARIANTS
    WorktreeExclusive
CHECK_DEADLOCK FALSE
