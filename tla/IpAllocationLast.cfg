SPECIFICATION Spec
CONSTANTS
  Bits4 = 6
  Bits6 = 10
  ByteBits = 2
  CapBits = 3
INVARIANT LastOfSubnet
CHECK_DEADLOCK FALSE
