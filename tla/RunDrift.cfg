\* A provider that loses a fact during a checkpoint's queries, with a snapshot that
\* hashes the adapter's list.
SPECIFICATION Spec
CONSTANTS
    Events <- ThreeEvents
    NoEvent = 0
    Inputs <- ListHashed
    Queries <- ThreeQueries
    CheckpointOf <- TwoAtFirst
    Checkpoints = 2
    AsOf <- FractionAsOf
    Resolution = 2
    MaxDrifts = 1
INVARIANT RetrievedAtBaseline
CHECK_DEADLOCK FALSE
