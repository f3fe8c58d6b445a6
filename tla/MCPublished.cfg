SPECIFICATION DeliverySpec
CONSTANTS
    Content <- MCContent
    Valid = {"plain", "budgeted"}
    Declares <- MCDeclares
    ControllerMode = FALSE
    MaxEdits = 4
    Mounted = {"budgeted"}
    Fold <- MCFold
    NoIdentity = NoIdentity
    Resource <- MCResource
    Start <- MCStart
    Versions <- MCVersions
    HandEdits <- MCHandEdits
    SpecOf <- MCSpecOf
    DocOf <- MCDocOf
    Gone = Gone
    Requests <- MCRequests
    Budget <- MCBudget
INVARIANT
    PublishedIsAccepted
CHECK_DEADLOCK FALSE
