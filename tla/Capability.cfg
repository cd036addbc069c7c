\* Two executions at a time, three in all, killed anywhere.
SPECIFICATION Spec
CONSTANTS
    p1 = p1  p2 = p2
    Slots = {p1, p2}
    Providers = {"gbrain", "hindsight"}
    PackCount = 2
    Properties <- MCProperties
    Replicates = 1
    Ceiling = 2
    PerRun = 1
    MaxCost = 2
    MaxExecutions = 3
SYMMETRY Symmetry
INVARIANTS TypeOK CompletedIsWhole SpendBounded
PROPERTY AttemptsPreserved
CHECK_DEADLOCK FALSE
