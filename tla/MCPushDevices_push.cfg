\* Registrations, updates and notifications that cross each other.
SPECIFICATION PushFairSpec
CONSTANTS
  Devices = {d1}
  Wallets = {w1, w2}
  Requests = {r1}
  None = None
  MaxFailures = 1
  MaxInFlight = 1
INVARIANTS OwnSettings
PROPERTIES LiveStayRegistered DeadForgotten
