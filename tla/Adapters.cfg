\* Every product, its calls failing up to twice, two objects on one directory.
SPECIFICATION Spec
CONSTANTS
    early = early  late = late
    Events <- MCEvents
    Queries <- MCQueries
    Visible <- MCVisible
    Available <- MCAvailable
    Gold <- MCGold
    TooLong <- MCTooLong
    Products <- AllProducts
    TopK = 1
    SampleSize = 1
    MaxIds = 6
    MaxFaults = 2
    MaxLives = 2
INVARIANTS TypeOK ListMirrorsCalls AnswersAreCurrent DeletedNotFound
PROPERTIES StaysInStep ResetHeals PartialHomeRecovered
CHECK_DEADLOCK FALSE
