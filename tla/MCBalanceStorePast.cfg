SPECIFICATION Spec
CONSTANTS
    a1 = a1
    a2 = a2
    b1 = b1
    pp = pp
    xero = xero
    r1 = r1
    r2 = r2
    Snapshot = snapshot
    Nobody = nobody
    Requests <- MCRequests
    Accounts <- MCAccounts
    Providers <- MCProviders
    ProviderOf <- MCProviderOf
    Values <- MCValues
    NoValue <- MCNoValue
    DeliveryChoices <- MCDeliveryChoices
    TicksPerDay = 2
    MaxTime = 2
    MaxDeliveries = 3
    MaxFaults = 1
PROPERTY
    PastDaysNeverDeleted
CHECK_DEADLOCK FALSE
