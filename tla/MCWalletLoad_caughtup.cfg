\* No failure at all; a vertex may be voided while shielded keys are being loaded.
SPECIFICATION Spec
CONSTANTS
  r1 = r1
  r2 = r2
  l1 = l1
  l2 = l2
  legacyTx = legacyTx
  shieldedTx = shieldedTx
  deepTx = deepTx
  keys = keys
  Requests = {r1, r2}
  Loads = {l1, l2}
  Vertices = {legacyTx, shieldedTx}
  KeySets = {keys}
  NoKeys = NoKeys
  NoVertex = NoVertex
  Gap = 1
  LastIndex = 1
  Pays <- MCPays
  Voidable = {legacyTx, shieldedTx}
  MaxRetries = 2
  Allowed = {"voidInUpgrade"}
SYMMETRY Interchangeable
CHECK_DEADLOCK FALSE
INVARIANTS VoidsSucceed

