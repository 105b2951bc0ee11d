\* A pre-payment cancel overlaps the payment.
SPECIFICATION Spec
CONSTANTS
    Bookings = {b1}
    Handlers = {h1, h2}
    Sweeps = {s1}
    GatewayAnswers = {TRUE}
    MaxFaults = 0
    None = None
INVARIANT ConfirmedKeepsSeats
CHECK_DEADLOCK FALSE
