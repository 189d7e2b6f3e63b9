\* Crashes, failing services, lost events, connections closed between services.
SPECIFICATION FairSpec
CONSTANTS
  t1 = t1
  t2 = t2
  b1 = b1
  b2 = b2
  Txs = {t1, t2}
  Blocks = {b1, b2}
  NoBlock = NoBlock
  NoConn = NoConn
  NoHash = NoHash
  Conns = {1}
  Logs <- MCLogs
  Faults = {"crash", "fail", "loss", "drop"}
  MaxFaults = 3
INVARIANTS Snapshot RestartLosesNothing NothingResent
PROPERTIES InOrder Drains Implements
