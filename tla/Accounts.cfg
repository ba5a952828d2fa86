SPECIFICATION MCSpec
CONSTANTS
    NumUsers = 2
    Base = Base
    Quote = Quote
    MaxOrders = 3
    SCALE = 2
    MaxRefs = 2
    MaxWithdrawals = 2
    Deliveries <- GatewayDeliveries
    Prices = {1, 3}
    Amounts = {1, 2}
    Opening = 3
    MaxManual = 2
INVARIANTS
    TypeOK
    LockedIsReserved
    ReservationBalanced
    SupplyConserved
    PendingBacked
CHECK_DEADLOCK FALSE
