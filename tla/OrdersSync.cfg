SPECIFICATION Spec
CONSTANTS
    NumUsers = 2
    Base = Base
    Quote = Quote
    MaxOrders = 5
    SCALE = 1
    Requests <- SyncRequests
    TriggerPrices = {1, 2}
    Mode = "sync"
    BandBps = 0
    MinActive = 1
    CandidateLimit = 1
    Opening = 4
INVARIANTS
    SerialBookUncrossed
    OneOrderPerClient
PROPERTIES
    PriceTimePriority
CHECK_DEADLOCK FALSE
