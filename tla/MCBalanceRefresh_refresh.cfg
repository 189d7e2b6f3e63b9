\* Two requests at a time, one failure, blocks, arrivals and spendings.
SPECIFICATION Spec
CONSTANTS
  A1 = A1
  A2 = A2
  coin = coin
  mint = mint
  reward = reward
  r1 = r1
  r2 = r2
  Requests = {r1, r2}
  Outputs = {coin, mint, reward}
  Addresses = {A1, A2}
  Out <- MCOut
  None = None
  MaxTime = 2
  MaxHeight = 1
  MaxFailures = 1
SYMMETRY Interchangeable
CHECK_DEADLOCK FALSE
INVARIANTS TypeOK Conserved ExpiryIsAnnounced ExactUnlessCrossed
