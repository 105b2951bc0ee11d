\* No failure at all: the unlocked read-modify-write of the increment is enough.
SPECIFICATION Spec
CONSTANTS
    f1 = f1
    f2 = f2
    k1 = k1
    k2 = k2
    k3 = k3
    c1 = c1
    c2 = c2
    Flights = {f1, f2}
    Clients = {k1, k2, k3}
    Party <- MCParty
    Capacity <- MCOffered
    Offered <- MCOffered
    Outbound <- MCOutbound
    Return <- MCReturn
    NoFlight = NoFlight
    Creation = creation
    Requests = {creation, c1, c2}
    Later <- MCOnce
    MaxFaults = 0
INVARIANT NoOversell
\* When all requests have ended nothing happens any more.
CHECK_DEADLOCK FALSE
