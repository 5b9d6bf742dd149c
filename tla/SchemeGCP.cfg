SPECIFICATION Spec
CONSTANTS
    UIDs = {u1, u2, u3, u4}
    NoUID = NoUID
    AccessLists = {all, office}
    FirstAccess = all
    NoScheme = NoScheme
    NoService = NoService
    Platform = "GCP"
    Edits = {"access", "delete"}
    MaxEdits = 1
    MaxDrift = 1
    MaxFaults = 1
INVARIANTS DNSRemoved
PROPERTIES EndpointServed DeletionCompletes
CHECK_DEADLOCK FALSE
