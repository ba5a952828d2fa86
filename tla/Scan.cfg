SPECIFICATION Spec
CONSTANTS
    Scanners = {"s1", "s2"}
    Settings <- SomeSettings
    ScanBatch = 1
    MaxBlock = 2
    ScanFaults = 1
    SolanaVenues = {"orca", "orca_configs", "raydium", "meteora", "unsupported"}
    Accounts <- SomeAccounts
    Balances <- SomeBalances
    Unknown <- NotAnswered
    KeysPerCall = 2
    Mints <- SomeMints
    ShardFanout = 2
    MaxShardDepth = 3
    JobsCap = 6
    ShardWorkers = {w1, w2}
    ScanLimit = 1
    SolanaFaults = 1
    NumEndpoints = 2
    Callers = {k1, k2}
    CallsEach = 1
INVARIANTS
    LeasesHold
    ClosedWhenIdle
    AccountsHandedOn
    GivesUpAfterAll
PROPERTIES
    RowsCatchUp
    ScanEnds
CHECK_DEADLOCK FALSE
