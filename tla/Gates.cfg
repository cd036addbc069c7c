\* Every gate with every product, sound or flawed, one call failing.
SPECIFICATION Spec
CONSTANTS
    current = current  future = future  other = other  unknown = unknown
    Asked = 1  Future = 2  Other = 3  Doomed = 4  Missing = 5
    Events <- MCEvents
    Queries <- MCQueries
    Visible <- MCVisible
    Available <- MCAvailable
    Gold <- MCGold
    TooLong = {}
    Products <- AllProducts
    TopK = 10
    SampleSize = 10
    MaxIds = 40
    MaxFaults = 1
INVARIANTS FlawsCaught SoundPass PassedIsComplete
CHECK_DEADLOCK FALSE
