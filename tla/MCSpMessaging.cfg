CONSTANTS
    c1 = c1
    c2 = c2
    a = a
    b = b
    d = d
    SP_ID_INVALID = SP_ID_INVALID
    Clients <- MCClients
    SPs <- MCSPs
    Entries <- MCEntries
    Callees <- MCCallees
    ClientBits <- MCClientBits
    AppBits <- MCAppBits
    MaxRequests <- MCRequests
    MaxFaults = 2
SPECIFICATION Spec
INVARIANTS Correlated Chained
PROPERTIES Answered 
CHECK_DEADLOCK FALSE
