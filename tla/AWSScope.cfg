SPECIFICATION Spec
CONSTANTS
    Arns = {int, a1, a2, a3}
    IntArn = int
    ExtArn = a1
    ServiceArn = a2
    NoNLB = NoNLB
    Masters = {m1}
    NoCPMS = NoCPMS
    Goroutines = {g1, g2}
    NoGoroutine = NoGoroutine
    MaxRetries = 1
    HasCPMS = TRUE
    MaxEdits = 2
    MaxDrift = 1
    MaxLate = 1
    MaxFaults = 1
    MaxTroubles = 1
INVARIANTS TypeOK OneGoroutine MachinesSettled
PROPERTIES OthersKept ImplementsScope PrivateServed PublicServed CPMSBack GoroutineDelivers ReactivatedClean
