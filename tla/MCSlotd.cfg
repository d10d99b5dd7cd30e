\* Connections come, wait, are served and die in every order.
SPECIFICATION Spec
CONSTANTS
    c1 = c1
    c2 = c2
    c3 = c3
    site1 = site1
    site2 = site2
    Connections <- MCConnections
    Clients <- MCClients
    ClientOf <- MCClientOf
    None = None
    MaxCapacity = 2
SYMMETRY Symmetry
INVARIANTS
    TypeOK
    ServingHoldsLease
    PatientPeersLeakNothing
PROPERTIES
    GrantsWithinCapacity
    FirstComeFirstServed
    NobodyIsGrantedLate
CHECK_DEADLOCK FALSE
