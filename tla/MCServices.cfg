SPECIFICATION ServicesSpec
CONSTANTS
    \* Notifications: a confirmed booking, a registration, a departure, two runs.
    e1 = e1
    e2 = e2
    w1 = w1
    w2 = w2
    Loads <- MCLoads
    Events = {e1, e2}
    Key <- MCKey
    NeedsBooking = {e1}
    Legs = {l1}
    Runs = {w1, w2}
    Nothing = Nothing
    \* ConnectionPool
    p1 = p1
    p2 = p2
    p3 = p3
    o1 = o1
    Payments = {p1, p2, p3}
    Others = {o1}
    Of <- MCOf
    Unpaid = Unpaid
    Size = 2
    \* Departures: a round trip or a single flight, one change, one hour without a run.
    Flights = {f1, f2}
    Bookings = {b1}
    Day = 2
    Times <- MCTimes
    Durations = {5}
    Horizon = 2
    MaxPatches = 1
    MaxMissed = 1
    None = None
INVARIANTS
    ServicesTypeOK
    RecordsAreTrue
    NoSpareMail
    ShortageIsContained
    RemindedInTime
    OnlyChangesMislead
PROPERTIES
    WorkEnds
    EveryoneAnswered
\* Work comes to an end.
CHECK_DEADLOCK FALSE
