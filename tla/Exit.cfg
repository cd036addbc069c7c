\* Both scripts over the three products, their calls failing up to twice each.
SPECIFICATION Spec
CONSTANTS
    all = all
    Events <- MCEvents
    Queries <- MCQueries
    Visible <- MCVisible
    Available <- MCVisible
    Gold <- MCVisible
    TooLong = {}
    Products = {"gbrain-ollama", "mem0-native", "hindsight"}
    TopK = 1
    SampleSize = 1
    MaxIds = 12
    MaxFaults = 2
    Scripts = {"v1", "correction"}
    Selected <- MCSelected
    Operations <- MCOperations
    MaxBreakdowns = 2
INVARIANTS ExitKeepsMemory NothingLeftRunning
CHECK_DEADLOCK FALSE
