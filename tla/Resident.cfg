SPECIFICATION MCSpec
CONSTANTS
    NumUsers = 3
    Base = Base
    Quote = Quote
    MaxOrders = 5
    SCALE = 1
    Takers <- Commands
    ClaimBatch = 2
    CommandTries = 2
    SnapshotEvery = 2
    ReplayPage = 1
    MaxCancels = 2
    MatcherFaults = 1
    ReloadFaults = 1
    Sessions = {s1, s2}
    Resting <- AskOrders
    Pending <- NewOrders
    MaxBegun = 3
    MaxFailures = 1
INVARIANTS
    BookIsActive
    FilledIsTraded
    TablesAgree
PROPERTIES
    OverIsOver
    CommandsEnd
    CommandsAreAQueue
    TransactionsEnd
CHECK_DEADLOCK FALSE
