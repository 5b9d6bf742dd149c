SPECIFICATION Spec
CONSTANTS
    UIDs = {u1, u2, u3, u4}
    NoUID = NoUID
    AccessLists = {all, office}
    FirstAccess = all
    NoScheme = NoScheme
    NoService = NoService
    Platform = "AWS"
    Edits = {"disable", "access", "delete"}
    MaxEdits = 2
    MaxDrift = 1
    MaxFaults = 1
INVARIANTS TypeOK
PROPERTIES EndpointServed ReadyTruthful
CHECK_DEADLOCK FALSE
