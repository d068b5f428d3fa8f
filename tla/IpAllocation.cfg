SPECIFICATION Spec
CONSTANTS
  Bits4 = 6
  Bits6 = 10
  ByteBits = 2
  CapBits = 3
INVARIANTS GatewayInSubnet FailsOnlyFor LastOfRange SchemaAgrees
CHECK_DEADLOCK FALSE
