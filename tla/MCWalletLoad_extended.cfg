\* No failure at all; while the wallet is loaded its first address is paid, the daemon
\* adds the next one, which is not in the load's list, and a vertex pays that.
SPECIFICATION Spec
CONSTANTS
  r1 = r1
  r2 = r2
  l1 = l1
  l2 = l2
  legacyTx = legacyTx
  shieldedTx = shieldedTx
  deepTx = deepTx
  keys = keys
  Requests = {r1}
  Loads = {l1}
  Vertices = {legacyTx, deepTx}
  KeySets = {}
  NoKeys = NoKeys
  NoVertex = NoVertex
  Gap = 1
  LastIndex = 2
  Pays <- ExtendedPays
  Voidable = {}
  MaxRetries = 2
  Allowed = {}
CHECK_DEADLOCK FALSE
INVARIANTS ReadyIsSummed
