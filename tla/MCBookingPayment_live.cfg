\* Liveness: two requests and two overlapping runs of the expiry job.
SPECIFICATION FairSpec
CONSTANTS
    Bookings = {b1}
    Handlers = {h1, h2}
    Sweeps = {s1, s2}
    GatewayAnswers = {TRUE, FALSE}
    MaxFaults = 1
    None = None
PROPERTIES
    InitiatedEnds
    PaymentEnds
    RefundIsRecorded
CHECK_DEADLOCK FALSE
