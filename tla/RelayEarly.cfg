CONSTANTS
  BufSize = 2
  MaxBytes = 2
  EarlyLimit = 2
  CounterMod = 4
SPECIFICATION Spec
INVARIANTS
  ClosedByPeers
