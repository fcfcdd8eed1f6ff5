SPECIFICATION Spec
CONSTANTS
  k1 = k1
  k2 = k2
  c1 = c1
  c2 = c2
  c3 = c3
  t1 = t1
  t2 = t2
  w1 = w1
  w2 = w2
  Containers = {k1, k2}
  Compartments = {c1, c2, c3}
  Threads = {t1, t2}
  Workdirs = {w1, w2}
  Workdir <- MCWorkdir
  Permissions <- MCPermissions
  Inbound <- MCInbound
  Outbound <- MCOutbound
  BlockNetwork = TRUE
  Watched <- MCWatched
  Setups <- MCSetups
  Contents = {0, 1}
  Original = 0
  MaxEdges = 1
  NoTree = NoTree
  Damaged = Damaged
  NoEntry = NoEntry
INVARIANTS MessagesArrive PoliciesInForce
PROPERTIES BoxesConfine FailureIsRolledBack
CHECK_DEADLOCK FALSE
