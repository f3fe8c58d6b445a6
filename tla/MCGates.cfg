SPECIFICATION GatesSpec
CONSTANTS
    Session = {"s1"}
    NoSession = ""
    MaxCalls = 2
    MaxDuration = 1
    MaxTime = 3
    Caller = {c1, c2}
    Call <- MCCall
    Rule <- MCRule
    Subject = {"alice"}
    NoSubject = ""
    Registered = {"pay"}
    NoTool = ""
    ToolPerMin <- MCToolPerMin
    HasBreaker = TRUE
    HasBudgets = TRUE
    HasVelocity = TRUE
    Threshold = 1
    AlertDeny = TRUE
    Minute = 1
    Hour = 2
    Day = 3
    MaxVelocity = 3
SYMMETRY MCSymmetry
INVARIANTS
    GatesTypeOK
    CallsBounded
    TripsBounded
    RateWindow
    BudgetWindow
    VelocityBounded
PROPERTIES
    RefusalSticks
    RefusedTakesNothing
