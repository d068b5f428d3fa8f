SPECIFICATION FairSpec
CONSTANTS
  Vpcs = {c1, c2}
  Nis = {bd1}
  Indexes = {i1}
  None = None
  Pending = Pending
  MaxEnv = 5
  MaxFaults = 1
  MaxLag = 3
INVARIANTS TypeOK IndexHeld IndexExclusive IndexKept
PROPERTIES DeletionEnds ImplementsLease
CHECK_DEADLOCK FALSE
