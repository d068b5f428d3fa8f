SPECIFICATION FairSpec
CONSTANTS
  c1 = c1 c2 = c2 bd1 = bd1 rt1 = rt1 n1 = n1 n2 = n2
  Vpcs = {c1}
  Workers = {w1}
  BridgeDomains = {bd1}
  RoutingTables = {}
  Nodes = {n1}
  SrlNodes = {n1}
  Selects <- MCSelects
  NoVpc = NoVpc
  Nil = Nil
  Idle = Idle
  Unread = Unread
  MaxEnv = 2
  MaxFaults = 1
  MaxPasses = 1
PROPERTIES Converges DeletionCompletes BackoffSettles ImplementsIntent
CHECK_DEADLOCK FALSE
