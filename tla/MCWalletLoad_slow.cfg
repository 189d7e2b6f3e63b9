\* The instance of MCWalletLoad_load with an ingest that read before the claim and
\* outlasts the second sweep. Violated.
SPECIFICATION Spec
CONSTANTS
  r1 = r1
  r2 = r2
  l1 = l1
  l2 = l2
  legacyTx = legacyTx
  shieldedTx = shieldedTx
  deepTx = deepTx
  keys = keys
  Requests = {r1, r2}
  Loads = {l1, l2}
  Vertices = {legacyTx, shieldedTx, deepTx}
  KeySets = {keys}
  NoKeys = NoKeys
  NoVertex = NoVertex
  Gap = 1
  LastIndex = 1
  Pays <- MCPays
  Voidable = {shieldedTx}
  MaxRetries = 2
  Allowed = {"crash", "dbError", "invokeFails", "slowIngest"}
SYMMETRY Interchangeable
CHECK_DEADLOCK FALSE
INVARIANTS NothingUnowned
