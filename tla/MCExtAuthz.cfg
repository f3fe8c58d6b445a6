SPECIFICATION Spec
CONSTANTS
    MaxTime = 2
    Session = {"run1", "run2"}
    NoSession = ""
    MaxCalls = 1
    MaxDuration = 0
    Caller = {c1, c2}
    Call <- MCCall
    Rule <- MCRule
    Rules <- MCRules
    Subject = {"wl1", "wl2"}
    NoSubject = ""
    Registered = {"read"}
    NoTool = ""
    ToolPerMin <- MCToolPerMin
    HasBreaker = TRUE
    HasBudgets = FALSE
    HasVelocity = TRUE
    Threshold = 1
    AlertDeny = FALSE
    Minute = 1
    Hour = 1
    Day = 1
    MaxVelocity = 4
    Fold <- MCFold
    NoIdentity = NoIdentity
    Verifier = {c1, c2}
    Token <- MCToken
    NoToken = NoToken
    Kid = {"k1", "k2", "k3", "k4"}
    Unsupported = {"k3"}
    CacheTTL = 1
    Issuer = "ctl"
    Algorithms = {"RS256", "ES256"}
    Type = "txntoken+jwt"
    Audiences = {"td"}
    MaxLifetime = 2
    ClockSkew = 0
    Sink = {"kube", "hook"}
    KubeSink = {"kube"}
    Selected = {"circuit.tripped", "anomaly.velocity"}
    QueueSize = 1
    Retries = 1
    Spiffe = {"wl1", "wl2"}
    OpMap <- MCOpMap
    Unescape <- MCUnescape
    Slashed = {"x%2fy"}
    FoldMethod <- MCFoldMethod
    HasRunTokens = TRUE
    Resolver <- MCResolver
    Script <- MCScript
INVARIANTS
    TypeOK
    OkMeansVetted
    TripsReported
    KeysFollowIssuer
PROPERTIES
    ArbiterLive
CHECK_DEADLOCK FALSE
