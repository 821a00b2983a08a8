SPECIFICATION Spec
CONSTANTS
    k1 = k1
    k2 = k2
    pk = pk
    fresh = fresh
    stale = stale
    a = a
    b = b
    c1 = c1
    c2 = c2
    Clients = {c1, c2}
    Reaper = reaper
    Keys = {k1, k2}
    PKs = {pk}
    PartOf <- MCPartOf
    Values = {fresh, stale}
    Expired = {stale}
    IndexKeys = {a, b}
    IndexKey <- MCOwnIndexKey
    Requests <- MCRequests
    Transactions <- MCTransactions
    Loads <- MCOneLoad
    MaxCalls = 2
    NoItem = NoItem
    NoIndex = NoIndex
    Nobody = Nobody
INVARIANT WritesStick
CHECK_DEADLOCK FALSE
