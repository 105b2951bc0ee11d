\* Three overlapping requests for the seats of two flights, at most one failure.
SPECIFICATION FairSpec
CONSTANTS
    f1 = f1
    f2 = f2
    k1 = k1
    k2 = k2
    k3 = k3
    c1 = c1
    c2 = c2
    Flights = {f1, f2}
    Clients = {k1, k2, k3}
    Party <- MCParty
    Capacity <- MCOffered
    Offered <- MCOffered
    Outbound <- MCOutbound
    Return <- MCReturn
    NoFlight = NoFlight
    Creation = creation
    Requests = {creation, c1, c2}
    Later <- MCLater
    MaxFaults = 1
INVARIANTS
    TypeOK
    SeatsInRange
    LedgerExact
    LiveOwnsSeats
    
    RestoredAtRest
PROPERTY RequestsEnd
\* When all requests have ended nothing happens any more.
CHECK_DEADLOCK FALSE
