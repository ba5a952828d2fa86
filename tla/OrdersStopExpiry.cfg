SPECIFICATION Spec
CONSTANTS
    NumUsers = 2
    Base = Base
    Quote = Quote
    MaxOrders = 2
    SCALE = 1
    Requests <- StopMeetsOwnBid
    TriggerPrices = {1}
    Mode = "sync"
    BandBps = 0
    MinActive = 1
    CandidateLimit = 500
    Opening = 6
INVARIANTS
    ExpiredHoldsNothing
CHECK_DEADLOCK FALSE
