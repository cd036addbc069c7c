\* The first script, over the same products and corpus.
SPECIFICATION Spec
CONSTANTS
    all = all
    Events <- MCEvents
    Queries <- MCQueries
    Visible <- MCVisible
    Available <- MCVisible
    Gold <- MCVisible
    TooLong = {}
    Products = {"gbrain-ollama", "mem0-native", "hindsight"}
    TopK = 1
    SampleSize = 1
    MaxIds = 12
    MaxFaults = 2
    Scripts = {"v1"}
    Selected <- MCSelected
    Operations <- MCOperations
    MaxBreakdowns = 2
INVARIANT RuntimeRecovered
CHECK_DEADLOCK FALSE
