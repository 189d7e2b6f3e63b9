\* Abandoned connections that still speak, and every other closed connection, in streams
\* that remove no vertex: MCSyncMachine_removed shows what a removal does here.
SPECIFICATION FairSpec
CONSTANTS
  t1 = t1
  t2 = t2
  b1 = b1
  b2 = b2
  Txs = {t1, t2}
  Blocks = {b1, b2}
  NoBlock = NoBlock
  NoConn = NoConn
  NoHash = NoHash
  Conns = {1, 2, 3}
  Logs <- MCStaleLogs
  Faults = {"drop", "dropBusy", "stale"}
  MaxFaults = 2
PROPERTIES Drains
