\* Workers that fail and crash, two requests at a time, vertices accepted and voided;
\* a load starts when no other is under way and the wallet is not loaded yet.
SPECIFICATION Spec
CONSTANTS
  r1 = r1
  r2 = r2
  l1 = l1
  l2 = l2
  legacyTx = legacyTx
  shieldedTx = shieldedTx
  deepTx = deepTx
  keys = keys
  Requests = {r1, r2}
  Loads = {l1, l2}
  Vertices = {legacyTx, shieldedTx, deepTx}
  KeySets = {keys}
  NoKeys = NoKeys
  NoVertex = NoVertex
  Gap = 1
  LastIndex = 1
  Pays <- MCPays
  Voidable = {shieldedTx}
  MaxRetries = 2
  Allowed = {"crash", "dbError", "invokeFails"}
SYMMETRY Interchangeable
CHECK_DEADLOCK FALSE
INVARIANTS TypeOK ReadyIsSummed NothingUnowned NoLoadLost
PROPERTIES NeverGoesBack
