CONSTANTS
    Names <- MCNames
    Domains <- MCDomains
    IngressName <- MCIngressName
    BaseDomain <- MCBaseDomain
    ClusterDomain = "apps"
    Certificates = {"c1", "c2"}
    Selectors = {"none", "empty", "pods"}
    ClusterSelector = "pods"
    Strategies <- UpdateStrategies
    NoStrategy = NoStrategy
    NoIC = NoIC
    Minor = 12
    Platform = "AWS"
    MaxEdits = 1
    MaxDrift = 1
    MaxFaults = 1
    MaxTroubles = 1
SPECIFICATION LiveSpec
INVARIANTS HandshakeArmed
PROPERTIES UnownedUntouched Converges
