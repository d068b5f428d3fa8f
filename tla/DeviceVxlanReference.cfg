SPECIFICATION Spec
CONSTANTS
  b1 = b1 b2 = b2 r1 = r1 r2 = r2 l1 = l1 l2 = l2
  p4 = p4 p6 = p6 q4 = q4 q6 = q6 bad = bad
  BridgeDomains = {b1, b2}
  RoutingTables = {r1, r2}
  Links = {l1, l2}
  Prefixes4 = {p4, q4, bad}
  Prefixes6 = {p6, q6}
  BadPrefixes = {bad}
  UnknownDomain = UnknownDomain
  Specs <- MCMpls
INVARIANT VxlanReferenceResolves
CHECK_DEADLOCK FALSE
