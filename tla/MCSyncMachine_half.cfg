\* The process ends between the two changes of one event.
SPECIFICATION Spec
CONSTANTS
  t1 = t1
  t2 = t2
  b1 = b1
  b2 = b2
  Txs = {t1, t2}
  Blocks = {b1, b2}
  NoBlock = NoBlock
  NoConn = NoConn
  NoHash = NoHash
  Conns = {1}
  Logs <- MCNanoLogs
  Faults = {"crash"}
  MaxFaults = 1
INVARIANT FirstBlockUpdated
