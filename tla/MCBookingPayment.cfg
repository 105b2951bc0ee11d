\* Three overlapping requests about one booking, one run of the expiry job,
\* a gateway that may decline, and one fault.
SPECIFICATION Spec
CONSTANTS
    Bookings = {b1}
    Handlers = {h1, h2, h3}
    Sweeps = {s1}
    GatewayAnswers = {TRUE, FALSE}
    MaxFaults = 1
    None = None
SYMMETRY Symmetry
INVARIANTS
    TypeOK
    ChargedAtMostOnce
    ConfirmedIsPaid
    RefundedIsOver
    CancelledSeatsComeBack
    EventsAreTrue
PROPERTY KeepsContract
\* A booking that is over and aged allows no further step.
CHECK_DEADLOCK FALSE
