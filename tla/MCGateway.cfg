SPECIFICATION Spec
CONSTANTS
    Deployments <- MCDeployments
    NoRules = NoRules
    NoToken = NoToken
    PrefixesOf <- MCPrefixesOf
    Session = {"s1"}
    NoSession = ""
    MaxCalls = 2
    MaxDuration = 1
    MaxTime = 3
    Caller = {c1, c2}
    Call <- MCCall
    Rule <- MCRule
    Subject <- MCSubject
    NoSubject = ""
    Registered = {"db_read", "db_write", "mail"}
    NoTool = ""
    ToolPerMin <- MCToolPerMin
    HasBreaker = TRUE
    HasBudgets = TRUE
    HasVelocity = TRUE
    Threshold = 1
    AlertDeny = TRUE
    Minute = 1
    Hour = 2
    Day = 2
    MaxVelocity = 0
    Fold <- MCFold
    NoIdentity = NoIdentity
    Checker = {c1, c2}
    Request <- MCRequest
    BindToSession = TRUE
    DetectReplay = TRUE
    ReplayMaxAge = 1
    Fetcher = {c1, c2}
    Ref = {"kv/db"}
    Credential <- MCCredential
    Environment = {"HOME"}
    Vault = TRUE
    VaultAuths <- MCVaultAuths
    CredentialTTL = 1
    MaxVersion = 2
SYMMETRY Workers
INVARIANTS
    SessionIntegrity
    ForwardedVetted
    InjectedIsFresh
CHECK_DEADLOCK FALSE
