SPECIFICATION Spec
CONSTANTS
    Content = {"plain", "budgeted", "broken"}
    Valid = {"plain", "budgeted"}
    Declares <- MCDeclares
    ControllerMode = FALSE
    MaxEdits = 1
INVARIANT
    BudgetsAreCounted
CHECK_DEADLOCK FALSE
