SPECIFICATION Spec
CONSTANTS
    b1 = b1
    b2 = b2
    b2f = b2f
    b3 = b3
    t1 = t1
    t2 = t2
    t3 = t3
    m1 = m1
    m2 = m2
    m3 = m3
    NoTx = NoTx
    NoWallet = NoWallet
    Txs = {b1, b2, b2f, b3, t1, t2, t3, m1, m2}
    Voidable = {b1, b2, b2f, b3, t1, t3, m1, m2}
    RewardLock = 1
    MaxTime = 2
    Tx <- MCTx
    Out <- MCOut
    Outputs <- MCOutputs
    Addresses <- MCAddresses
    Wallets <- MCWallets
    Tokens <- MCTokens
    Owner <- MCOwner
INVARIANTS OutputsFollowTxs BalancesAreUtxos WalletsAreAddresses HistorySums TransactionCounts AuthoritiesMatch NeverOutOfRange
PROPERTY UnlockedByBlock
