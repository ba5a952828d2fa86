SPECIFICATION Spec
CONSTANTS
    NumUsers = 2
    Base = Base
    Quote = Quote
    MaxOrders = 3
    SCALE = 1
    Requests <- StopDuringTrade
    TriggerPrices = {}
    Mode = "async"
    BandBps = 0
    MinActive = 1
    CandidateLimit = 500
    Opening = 6
INVARIANTS
    NoStopLeftBehind
CHECK_DEADLOCK FALSE
