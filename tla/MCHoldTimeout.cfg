SPECIFICATION Spec
CONSTANTS
    Session = {"s1"}
    NoSession = ""
    MaxCalls = 1
    MaxDuration = 0
    MaxTime = 0
    Caller = {c1, c2}
    Call <- MCCall
    Rule <- MCRule
    Rules <- MCRules
    Subject = {"alice"}
    NoSubject = ""
    Registered = {"pay", "read"}
    NoTool = ""
    ToolPerMin <- MCToolPerMin
    HasBreaker = TRUE
    HasBudgets = FALSE
    HasVelocity = FALSE
    Threshold = 0
    AlertDeny = FALSE
    Minute = 1
    Hour = 1
    Day = 1
    MaxVelocity = 0
    Fold <- MCFold
    NoIdentity = NoIdentity
    HasHolds = TRUE
    Hold = {h1, h2}
    Admin = {a1}
    Approver = {"admin-api"}
    MaxHist = 2
PROPERTY
    TimeoutAllows
