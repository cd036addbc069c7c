\* Objects built one after the other on one directory, nothing failing.
SPECIFICATION Spec
CONSTANTS
    early = early  late = late
    Events <- MCEvents
    Queries <- MCQueries
    Visible <- MCVisible
    Available <- MCAvailable
    Gold <- MCGold
    TooLong <- MCTooLong
    Products <- AllProducts
    TopK = 1
    SampleSize = 1
    MaxIds = 6
    MaxFaults = 0
    MaxLives = 2
PROPERTY ResetIsFresh
CHECK_DEADLOCK FALSE
