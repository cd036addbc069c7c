\* Every corpus of three events over providers that are reset, extended or cannot
\* delete, and that may lose a fact.
SPECIFICATION FairSpec
CONSTANTS
    Events <- ThreeEvents
    NoEvent = 0
    Inputs <- AllInputs
    Queries <- TwoQueries
    CheckpointOf <- OneEach
    Checkpoints = 2
    AsOf <- FractionAsOf
    Resolution = 2
    MaxDrifts = 1
INVARIANTS TypeOK StateIsReplay DeletionsRemembered NeverFaked ResultsBehindManifest
PROPERTIES FaithfulRunSpec RunEnds
CHECK_DEADLOCK FALSE
