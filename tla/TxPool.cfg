SPECIFICATION Spec
CONSTANTS
    A = A
    B = B
    a0 = a0
    a1 = a1
    a1r = a1r
    a1s = a1s
    a2 = a2
    b0 = b0
    b1 = b1
    Own = {A}
    from <- MCfrom
    nonce <- MCnonce
    price <- MCprice
    cost <- MCcost
    costAll <- MCcostAll
    Accounts <- MCAccounts
    Txs <- MCTxs
    Heads <- MCHeads
    Genesis <- MCGenesis
    Prices = {1, 2}
    PriceLimit = 1
    PriceBump = 10
    AccountSlots = 1
    GlobalSlots = 2
    AccountQueue = 1
    GlobalQueue = 1
INVARIANTS Accounted FrontExecutable PoolBound
PROPERTIES OrderlyUntilReorg LocalsKept
