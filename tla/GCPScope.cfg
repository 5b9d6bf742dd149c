CONSTANTS
    IPs = {ip1, ip2}
    IntIP = IntIP
    NoAddress = NoAddress
    Masters = {m1}
    NoCPMS = NoCPMS
    Goroutines = {g1, g2}
    NoGoroutine = NoGoroutine
    MaxRetries = 1
    HasCPMS = TRUE
    MaxEdits = 2
    MaxFaults = 1
SPECIFICATION Spec
INVARIANTS TypeOK RecordReserved OneGoroutine MachinesSettled
PROPERTIES ImplementsScope PrivateServed PublicServed CPMSBack GoroutineDelivers ReactivatedClean
