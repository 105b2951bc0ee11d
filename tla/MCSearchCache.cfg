\* A search, two writers, one write of each route and one fault.
SPECIFICATION FairSpec
CONSTANTS
    out = out
    back = back
    oneway = oneway
    round = round
    Routes = {out, back}
    Keys = {oneway, round}
    Reads <- MCReads
    Searches = {s1}
    Writers = {w1, w2}
    NoKey = NoKey
    MaxVersion = 1
    MaxFaults = 1
INVARIANTS
    TypeOK
    StaleIsExplained
PROPERTIES
    SearchesAnswered
    ClearsEnd
