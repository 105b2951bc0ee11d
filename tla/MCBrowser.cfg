SPECIFICATION BrowserSpec
CONSTANTS
    login = login
    google = google
    c1 = c1
    c2 = c2
    c3 = c3
    Users = {anna, bert}
    SignIns = {login, google}
    Calls = {c1, c2, c3}
    Logouts = {c3}
    Deletions = {c2}
    NoOne = NoOne
    Ended = Ended
    MaxTokens = 2
    Loads <- MCLoads
    Ids = {1, 2}
    Capacities = {1, 2}
    Seeded = 1
    MaxSales = 2
    MaxWrites = 2
    Plans <- MCPlans
    Cities = {delhi, goa}
    NoCity = NoCity
    Bookings = {1, 2}
    Others = {other}
    Emails = {anna, bert}
    NoEmail = NoEmail
INVARIANTS
    BrowserTypeOK
    TokenMatchesUser
    AdminSavesWhatItShows
    PagesTellTheTruth
PROPERTY CallsSettle
CHECK_DEADLOCK FALSE
