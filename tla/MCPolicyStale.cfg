SPECIFICATION Spec
CONSTANTS
    Content = {"plain", "budgeted", "broken"}
    Valid = {"plain", "budgeted"}
    Declares <- MCDeclares
    ControllerMode = FALSE
    MaxEdits = 1
PROPERTY
    DiskPolicyInForce
CHECK_DEADLOCK FALSE
