\* No failure at all; an address beyond the window, but in its block, whose only
\* vertex was voided is paid again while the wallet is loaded.
SPECIFICATION Spec
CONSTANTS
  r1 = r1
  r2 = r2
  l1 = l1
  l2 = l2
  legacyTx = legacyTx
  shieldedTx = shieldedTx
  deepTx = deepTx
  keys = keys
  Requests = {r1}
  Loads = {l1}
  Vertices = {legacyTx, shieldedTx, deepTx}
  KeySets = {keys}
  NoKeys = NoKeys
  NoVertex = NoVertex
  Gap = 2
  LastIndex = 4
  Pays <- BlockPays
  Voidable = {shieldedTx}
  MaxRetries = 2
  Allowed = {}
CHECK_DEADLOCK FALSE
INVARIANTS ReadyIsSummed
