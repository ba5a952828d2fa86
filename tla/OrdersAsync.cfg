SPECIFICATION Spec
CONSTANTS
    NumUsers = 2
    Base = Base
    Quote = Quote
    MaxOrders = 5
    SCALE = 1
    Requests <- AsyncRequests
    TriggerPrices = {3}
    Mode = "async"
    BandBps = 5000
    MinActive = 2
    CandidateLimit = 2
    Opening = 24
INVARIANTS
    LevelsMatchActive
    FundsFollowOrders
CHECK_DEADLOCK FALSE
