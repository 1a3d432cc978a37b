SPECIFICATION GatewayAndHealth
INVARIANTS OneProbe
PROPERTIES ImplementsOneAnswer RejectedStaysOut EveryoneReturns
CONSTANTS
  None = None
  g1 = g1
  g2 = g2
  k1 = k1
  k2 = k2
  k3 = k3
  m1 = m1
  Conns = {g1, g2}
  Keys = {k1, k2, k3}
  Models = {m1}
  Threads = {t1}
  Testers = {t2}
  Callers = {c1, c2, c3}
  MaxResets = 4
  PoolOf <- Pools
  Serves <- ServedByBoth
  Bedrock = {g2}
  MaxRetries = 1
CHECK_DEADLOCK FALSE
