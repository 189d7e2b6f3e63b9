\* Loads that overlap, or follow a load that succeeded, when the first windows hold
\* all that is paid.  Workers that fail and crash, two requests at a time, vertices accepted and voided.
SPECIFICATION Spec
CONSTANTS
  r1 = r1
  r2 = r2
  l1 = l1
  l2 = l2
  legacyTx = legacyTx
  shieldedTx = shieldedTx
  deepTx = deepTx
  keys = keys
  Requests = {r1, r2}
  Loads = {l1, l2}
  Vertices = {legacyTx, shieldedTx}
  KeySets = {keys}
  NoKeys = NoKeys
  NoVertex = NoVertex
  Gap = 1
  LastIndex = 1
  Pays <- MCPays
  Voidable = {shieldedTx}
  MaxRetries = 2
  Allowed = {"crash", "dbError", "invokeFails", "again"}
SYMMETRY Interchangeable
CHECK_DEADLOCK FALSE
INVARIANTS TypeOK ReadyIsSummed NothingUnowned NoLoadLost
PROPERTIES NeverGoesBack
