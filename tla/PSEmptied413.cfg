CONSTANTS
    Names <- MCNames
    Domains <- MCDomains
    IngressName <- MCIngressName
    BaseDomain <- MCBaseDomain
    ClusterDomain = "apps"
    Certificates = {"c1", "c2"}
    Selectors = {"none", "empty", "pods"}
    ClusterSelector = "pods"
    Strategies <- EmptiedStrategies
    NoStrategy = NoStrategy
    NoIC = NoIC
    Minor = 13
    Platform = "AWS"
    MaxEdits = 1
    MaxDrift = 0
    MaxFaults = 0
    MaxTroubles = 0
SPECIFICATION LiveSpec
PROPERTIES RemainingDeleted
