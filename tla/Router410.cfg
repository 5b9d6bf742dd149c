CONSTANTS
    Services = {router, app}
    IngressNS = {router}
    NoService = NoService
    NoReconcile = NoReconcile
    FirstMinor = 10
    LastMinor = 11
    ClusterValue = "other"
    MaxWrites = 3
    MaxFaults = 1
SPECIFICATION Spec
INVARIANTS TypeOK NoneForgotten
PROPERTIES OnlyAnnotation AnnotationSettles
CHECK_DEADLOCK FALSE
