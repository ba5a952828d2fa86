SPECIFICATION WorkersSpec
CONSTANTS
    NumUsers = 3
    Base = Base
    Quote = Quote
    MaxOrders = 5
    SCALE = 1
    Takers <- Commands
    ClaimBatch = 2
    CommandTries = 2
    SnapshotEvery = 2
    ReplayPage = 1
    MaxCancels = 2
    MatcherFaults = 1
    ReloadFaults = 1
    Sessions = {s1, s2}
    Resting <- AskOrders
    Pending <- CrossingOrders
    MaxBegun = 2
    MaxFailures = 1
INVARIANTS
    BookStaysUncrossed
CHECK_DEADLOCK FALSE
