SPECIFICATION Spec
CONSTANTS
  Devices = {d1}
  Itfces = {i1, i2}
  NiNames = {ni1, ni2}
  Indexes = {1}
  GoodPrefixes = {p1, p2}
  NoGateway = {host}
  Unparsable = {bad}
  MaxPrefixes = 2
  Panic = Panic
INVARIANT ReferenceResolves
PROPERTY LossConfined
CHECK_DEADLOCK FALSE
