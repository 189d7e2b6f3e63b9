\* A connection closes under the service of a vertex, the next vertex is stored, and the
\* first one is removed: the removal throws for ever. Violated.
SPECIFICATION FairSpec
CONSTANTS
  t1 = t1
  t2 = t2
  b1 = b1
  b2 = b2
  Txs = {t1, t2}
  Blocks = {b1, b2}
  NoBlock = NoBlock
  NoConn = NoConn
  NoHash = NoHash
  Conns = {1}
  Logs <- MCRemovalLogs
  Faults = {"dropBusy"}
  MaxFaults = 1
PROPERTIES Drains
