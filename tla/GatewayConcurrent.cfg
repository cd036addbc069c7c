\* Two concurrent requests and a restart, no client retries: locks, ceilings,
\* the ledger chain, record before response, no lock kept for good.
SPECIFICATION FairSpec
CONSTANTS
    c1 = c1  c2 = c2  r1 = r1  r2 = r2
    Clients <- TwoClients
    Runs <- TwoRuns
    RunOf <- OneOnItsOwnRun
    Kinds = {"valid", "malformed", "bad_policy"}
    ClientRetries = 0
    ProxyRetries = 1
    RunCeiling <- TightRun
    GlobalCeiling <- TightGlobal
    EnforceBudget = TRUE
    RequireIdentity = TRUE
    Strict = FALSE
    EstIn = 1
    EstOut = 0
    PriceIn = 1
    PriceOut = 2
    OutTokens = {1}
    MaxCrashes = 1
    Global = Global
    NoOne = NoOne
INVARIANTS TypeOK ChainIntact WithinCeilings ChargesAccounted RefusalsAreFree
PROPERTIES LedgeredServiceSpec HandlerEnds
CHECK_DEADLOCK FALSE
