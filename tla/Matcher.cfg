SPECIFICATION MCSpec
CONSTANTS
    NumJobs = 2
    Workers = {w1, w2}
    BatchSize = 2
    MaxAttempts = 2
    MaxFaults = 1
    NumUsers = 3
    Base = Base
    Quote = Quote
    MaxOrders = 6
    SCALE = 4
    Takers <- Commands
INVARIANTS
    OneWorkerPerJob
    BookConsistent
    AgreesWithEngine
    ReplayRebuilds
PROPERTIES
    JobsEnd
    JobsAreAQueue
CHECK_DEADLOCK FALSE
