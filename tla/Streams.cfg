SPECIFICATION Spec
CONSTANTS
    Backends = {"postgres", "redis", "nats", "kafka"}
    Topics = {"price_updates", "exchange_updates"}
    NumEvents = 2
    Publishers = {p1, p2}
    OutboxBatch = 2
    OutboxAttempts = 2
    OutboxFaults = 1
    Clients = {c1, c2}
    MaxMessages = 2
    TradePrices <- Prices
    TradeMinutes <- OpenTimes
    Projectors = {m1, m2}
    CandleBatch = 2
    StatsWindow = 3
    ListMax = 2
    ListDefault = 1
    CandleFaults = 1
INVARIANTS
    OnceUnlessDisturbed
    ClientsSeeOneStream
    CandlesAreRight
PROPERTIES
    ImplementsQueue
    EventsEnd
    ClientsAreServed
    TradesGetCounted
CHECK_DEADLOCK FALSE
