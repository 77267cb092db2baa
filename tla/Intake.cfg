\* Two messages of any kind, one of them in two envelopes, and an operator.
SPECIFICATION FairSpec
CONSTANTS
    MessageBound = 2
    Twice = {1}
    Plans <- SomePairs
    IdBound = 5
    FaultBound = 1
    OperatorBound = 1
    OperatorIds = {1}
    FirstId = 2
INVARIANTS
    EffectsPaidFor
    SilenceIsPaid
    IdsUsedOnce
    CreatedKeepsRepo
    ExecutedWasShown
PROPERTIES
    EventuallyHandled
CHECK_DEADLOCK FALSE
