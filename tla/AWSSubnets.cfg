CONSTANTS
    Subnets = {s1, s2, s3}
    NoSubnet = NoSubnet
    MaxTables = 3
    PageSize = 2
    MaxTurns = 1
    MaxDrift = 1
SPECIFICATION Spec
INVARIANTS SelectionRight
PROPERTIES Returns
CHECK_DEADLOCK FALSE
