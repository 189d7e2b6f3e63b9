SPECIFICATION Spec
CONSTANTS
    b1 = b1
    b2 = b2
    b2f = b2f
    b3 = b3
    t1 = t1
    t2 = t2
    t3 = t3
    m1 = m1
    m2 = m2
    m3 = m3
    NoTx = NoTx
    NoWallet = NoWallet
    Txs = {m1, m3}
    Voidable = {m1, m3}
    RewardLock = 1
    MaxTime = 1
    Tx <- MCTx
    Out <- MCOut
    Outputs <- MCOutputs
    Addresses <- MCAddresses
    Wallets <- MCWallets
    Tokens <- MCTokens
    Owner <- MCOwner
INVARIANT AuthoritiesMatch
