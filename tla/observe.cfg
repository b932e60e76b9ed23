SPECIFICATION FairSpec
CONSTANTS
    w1 = w1
    c1 = c1
    c2 = c2
    h1 = h1
    Followers = {w1}
    Callers = {c1, c2}
    Readers = {h1}
    Audiences <- Separately
    MaxEvents = 3
    MaxPage = 2
    MaxWire = 1
    MaxQueue = 1
    MaxLosses = 1
INVARIANTS
    ReplayIsExact
    AnswersNeverRegress
    HistoryJoinsUp
PROPERTIES
    EndsFullyTold
    ReadersReachTheEnd
