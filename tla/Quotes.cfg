SPECIFICATION Spec
CONSTANTS
    Registry <- SomeRegistry
    PoolTable <- SomePools
    ScannedRows <- SomeRows
    Unit = 100
    SqrtUnit = 2
    MaxSaves = 2
    Venues <- SomeVenues
    Deployments <- SomeDeployments
    SwapPools <- SomeSwapPools
    PoolStates <- SomeStates
    Requests <- SomeRequests
    MaxMoves = 1
INVARIANTS
    PricesAreRight
    ClientsCatchUp
    QuoteExactAtFee
    SwapAsQuoted
CHECK_DEADLOCK FALSE
