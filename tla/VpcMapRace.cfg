SPECIFICATION MCBusySpec
CONSTANTS
  c1 = c1 c2 = c2 bd1 = bd1 rt1 = rt1 n1 = n1 n2 = n2
  Vpcs = {c1, c2}
  Workers = {w1, w2}
  BridgeDomains = {bd1}
  RoutingTables = {}
  Nodes = {n1}
  SrlNodes = {n1}
  Selects <- MCSelects
  NoVpc = NoVpc
  Nil = Nil
  MaxEnv = 0
  MaxFaults = 0
  MaxPasses = 1
INVARIANT NoMapRace
CHECK_DEADLOCK FALSE
