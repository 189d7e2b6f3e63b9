SPECIFICATION FairSpec
CONSTANTS
    c1 = c1
    c2 = c2
    p1 = p1
    p2 = p2
    u1 = u1
    u2 = u2
    w1 = w1
    Calls = {c1, c2}
    Proposals = {p1, p2}
    Utxos = {u1}
    TxIds = {u1}
    Wallets = {w1}
    NoProposal = NoProposal
    NoTx = NoTx
    TxIdOf <- MCTxIdOf
    Owner <- MCOwner
    Requests <- One
    Faults = {"timeout", "dbError", "lostResponse", "void"}
CHECK_DEADLOCK FALSE
INVARIANTS MarksAreHeld
PROPERTIES UnsentAreReleased
