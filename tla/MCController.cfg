SPECIFICATION Spec
CONSTANTS
    Hold = {h1, h2}
    AllowOnTimeout = {h1}
    Admin = {a1}
    MaxHist = 1
    EventType = {"tool.denied", "budget.check", "budget.denied", "hold.created", "sidecar.registered"}
    Tool = {"pay"}
    Identity = {"alice"}
    Session = {"s1"}
    Size = 2
    HasWebhook = TRUE
    DedupeWindow = 2
    MaxPerMin = 1
    Minute = 1
    Hour = 1
    Day = 2
    Year = 365
    MaxCallsPerHour = 1
    MaxCallsPerDay = 2
    MaxTokensPerDay = 1
    Pod = {p1}
    TTL = 1
    Handler = {c1, c2}
    Workload <- MCWorkload
    Reported <- MCReported
    Caller <- MCCaller
    Tokens = {0, 1}
INVARIANTS
    TypeOK
    AdminSeesRecent
    AlertDiscipline
    BudgetKept
    NobodyBlocks
PROPERTIES
    ContractSpec
    EveryRpcReturns
CHECK_DEADLOCK FALSE
