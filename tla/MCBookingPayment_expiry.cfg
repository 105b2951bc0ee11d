\* One booking expires, nothing fails.
SPECIFICATION Spec
CONSTANTS
    Bookings = {b1}
    Handlers = {h1, h2}
    Sweeps = {s1}
    GatewayAnswers = {TRUE}
    MaxFaults = 0
    None = None
INVARIANT ExpiredSeatsReturn
CHECK_DEADLOCK FALSE
