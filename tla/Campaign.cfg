\* Rehearsals, then paid executions, killed anywhere.
SPECIFICATION FairSpec
CONSTANTS
    Attempts <- WithReplicate
    Planned <- TwoPacks
    Requests <- AnyRequest
    Broken <- SomeBroken
    LateRehearsal = FALSE
    MaxExecutions = 3
INVARIANTS TypeOK  PaidOnRecord RowsArePaid StatusHonest
PROPERTY ExecutionEnds
CHECK_DEADLOCK FALSE
