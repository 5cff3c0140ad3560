CONSTANTS
    Uuid = {"u1", "u2"}
    Fresh = {"f1"}
    Good = Good
    Bad = Bad
    Missing = Missing
    Requests <- Asked
SPECIFICATION Spec
INVARIANTS
    ServicesAgree
    NoRouteHidden
    PathAndHeaderRule
    TracedByOneId
CHECK_DEADLOCK FALSE
