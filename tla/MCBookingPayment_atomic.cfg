\* One fault between the payment INSERT and the COMMIT.
SPECIFICATION Spec
CONSTANTS
    Bookings = {b1}
    Handlers = {h1, h2}
    Sweeps = {s1}
    GatewayAnswers = {TRUE}
    MaxFaults = 1
    None = None
INVARIANT PaymentStartIsAtomic
CHECK_DEADLOCK FALSE
