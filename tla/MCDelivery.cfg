SPECIFICATION DeliverySpec
CONSTANTS
    Content <- MCContent
    Valid = {"plain", "budgeted"}
    Declares <- MCDeclares
    ControllerMode = FALSE
    MaxEdits = 4
    Mounted = {"budgeted"}
    Fold <- MCFold
    NoIdentity = NoIdentity
    Resource <- MCResource
    Start <- MCStart
    Versions <- MCVersions
    HandEdits <- MCHandEdits
    SpecOf <- MCSpecOf
    DocOf <- MCDocOf
    Gone = Gone
    Requests <- MCRequests
    Budget <- MCBudget
INVARIANTS
    TypeOK
    LastGoodPolicy
    StaleOnlyIfTorn
    PublishedIsValid
    StatusHonest
PROPERTIES
    ChangeTakesEffect
    ActivePolicyEnforced
CHECK_DEADLOCK FALSE
