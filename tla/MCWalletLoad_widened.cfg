\* Loads that overlap, or follow a load that succeeded, when a later one claims more.
SPECIFICATION Spec
CONSTANTS
  r1 = r1
  r2 = r2
  l1 = l1
  l2 = l2
  legacyTx = legacyTx
  shieldedTx = shieldedTx
  deepTx = deepTx
  keys = keys
  Requests = {r1, r2}
  Loads = {l1, l2}
  Vertices = {shieldedTx, deepTx}
  KeySets = {keys}
  NoKeys = NoKeys
  NoVertex = NoVertex
  Gap = 1
  LastIndex = 1
  Pays <- MCPays
  Voidable = {}
  MaxRetries = 2
  Allowed = {"crash", "dbError", "invokeFails", "again"}
SYMMETRY Interchangeable
CHECK_DEADLOCK FALSE
INVARIANTS NothingUnowned
