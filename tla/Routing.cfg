SPECIFICATION RoutingSpec
PROPERTIES RevokedStaysOut RowsNameTheirKey FailsWhenExhausted
SYMMETRY Symmetric
CONSTANTS
  None = None
  p1 = p1
  m1 = m1
  m2 = m2
  k1 = k1
  k2 = k2
  t1 = t1
  t2 = t2
  Providers = {p1}
  Targets = {m1, m2}
  Keys = {k1, k2}
  Threads = {t1}
  Testers = {t2}
  Owner <- OneProvider
  MaxRetries = 1
  MaxCorrections = 1
  Conns = {p1}
  Models = {m1, m2}
  PoolOf <- OneProvider
  Serves = {}
  Bedrock = {}
