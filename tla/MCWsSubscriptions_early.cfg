\* A cleanup that starts before the connection is open.  It ends in a violation.
SPECIFICATION Spec
CONSTANTS
  Conns = {c1}
  Wallets = {w1, w2}
  Messages = {m1}
  Lambdas = {l1, l2}
  None = None
  MaxFailures = 1
INVARIANTS ListeningStaySubscribed
