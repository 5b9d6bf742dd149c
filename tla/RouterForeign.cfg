CONSTANTS
    Services = {router, app}
    IngressNS = {router}
    NoService = NoService
    NoReconcile = NoReconcile
    FirstMinor = 10
    LastMinor = 10
    ClusterValue = "other"
    MaxWrites = 2
    MaxFaults = 0
SPECIFICATION Spec
PROPERTIES ForeignUntouched
CHECK_DEADLOCK FALSE
