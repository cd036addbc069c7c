\* One reader call with client, parse and proxy retries, time-outs and a restart:
\* how many upstream calls it can cause, and that it always ends.
SPECIFICATION FairSpec
CONSTANTS
    c1 = c1  c2 = c2  r1 = r1  r2 = r2
    Clients <- OneClient
    Runs <- OneRun
    RunOf <- AllOnOneRun
    Kinds = {"valid"}
    ClientRetries = 1
    ProxyRetries = 1
    RunCeiling <- Roomy
    GlobalCeiling <- Roomy
    EnforceBudget = TRUE
    RequireIdentity = TRUE
    Strict = TRUE
    EstIn = 1
    EstOut = 0
    PriceIn = 1
    PriceOut = 2
    OutTokens = {1}
    MaxCrashes = 1
    Global = Global
    NoOne = NoOne
INVARIANT CallsBounded
PROPERTY CallEnds
CHECK_DEADLOCK FALSE
