\* Joins, announcements and disconnections side by side, with failures.
SPECIFICATION FairSpec
CONSTANTS
  Conns = {c1}
  Wallets = {w1, w2}
  Messages = {m1}
  Lambdas = {l1, l2}
  None = None
  MaxFailures = 1
INVARIANTS LiveStaySubscribed
PROPERTIES PostedToSubscribers OrphansReaped
