\* Two devices logged in at the start, the limit of two sessions.
SPECIFICATION Spec
CONSTANTS
    r1 = r1
    r2 = r2
    r3 = r3
    d1 = d1
    d2 = d2
    Requests = {r1, r2, r3}
    Prior = Prior
    Nobody = Nobody
    NoUser = NoUser
    MaxAttempts = 2
    Limit = 2
    Devices <- MCDevices
    Starts <- MCStarts
    Mixes <- MCMixes
    MaxFaults = 1
INVARIANTS
    TypeOK
    SessionLimit
    OldPasswordEndsSessions
    AccountStaysUsable
    CodesAreGuarded
PROPERTY RevokedStaysRevoked
\* When all requests have ended nothing happens any more.
CHECK_DEADLOCK FALSE
