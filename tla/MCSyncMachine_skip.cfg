\* The connection closes while the event of a reorg is being handled.
SPECIFICATION Spec
CONSTANTS
  t1 = t1
  t2 = t2
  b1 = b1
  b2 = b2
  Txs = {t1, t2}
  Blocks = {b1, b2}
  NoBlock = NoBlock
  NoConn = NoConn
  NoHash = NoHash
  Conns = {1}
  Logs <- MCNanoLogs
  Faults = {"dropBusy"}
  MaxFaults = 1
INVARIANT NanoTokensDeleted
