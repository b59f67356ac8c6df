SPECIFICATION FairPageSpec
CONSTANTS
    a1 = a1
    a2 = a2
    b1 = b1
    pp = pp
    xero = xero
    Snapshot = snapshot
    Nobody = nobody
    Requests = {r1}
    Accounts <- MCAccounts
    Providers <- MCProviders
    ProviderOf <- MCProviderOf
    Values <- MCValues
    NoValue <- MCNoValue
    DeliveryChoices <- MCDeliveryChoices
    PortfolioAccounts <- MCPortfolio
    UsdAccounts <- MCPortfolio
    TicksPerDay = 1
    MaxTime = 1
    MaxDeliveries = 2
    MaxFaults = 1
INVARIANTS
    TypeOK
    ProviderWhole
    DeliveryDayAgrees
    LastDayComplete
    PortfolioTrue
    QuotedTotalWasTrue
PROPERTIES
    PastDaysFrozen
    DayCovered
CHECK_DEADLOCK FALSE
