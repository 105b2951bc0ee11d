\* Two refund requests overlap.
SPECIFICATION Spec
CONSTANTS
    Bookings = {b1}
    Handlers = {h1, h2}
    Sweeps = {s1}
    GatewayAnswers = {TRUE}
    MaxFaults = 0
    None = None
PROPERTY RefundsOnlyConfirmed
CHECK_DEADLOCK FALSE
