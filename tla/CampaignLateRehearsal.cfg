\* A rehearsal over the run root of a paid execution.
SPECIFICATION Spec
CONSTANTS
    Attempts <- TwoPacks
    Planned <- TwoPacks
    Requests <- AllOrFirst
    Broken <- NoneBroken
    LateRehearsal = TRUE
    MaxExecutions = 3
INVARIANT RowsArePaid
CHECK_DEADLOCK FALSE
