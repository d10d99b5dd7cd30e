\* Expected to fail: a waiting peer dies as it is granted.
SPECIFICATION Spec
CONSTANTS
    c1 = c1
    c2 = c2
    c3 = c3
    site1 = site1
    site2 = site2
    Connections <- MCConnections
    Clients <- MCClients
    ClientOf <- MCClientOf
    None = None
    MaxCapacity = 2
SYMMETRY Symmetry
INVARIANTS
    EveryLeaseHasItsConnection
CHECK_DEADLOCK FALSE
