SPECIFICATION Spec
CONSTANTS
  c1 = c1 c2 = c2 bd1 = bd1 rt1 = rt1 n1 = n1 n2 = n2
  Vpcs = {c1}
  Workers = {w1}
  BridgeDomains = {bd1}
  RoutingTables = {rt1}
  Nodes = {n1, n2}
  SrlNodes = {n1, n2}
  Selects <- MCSelects
  NoVpc = NoVpc
  Nil = Nil
  MaxEnv = 2
  MaxFaults = 1
  MaxPasses = 1
INVARIANTS TypeOK IntentIsOwn NoStaleConfig UpdateComplete IndexBeforeWrite NoSpeedyLeak DestroyComplete
CHECK_DEADLOCK FALSE
