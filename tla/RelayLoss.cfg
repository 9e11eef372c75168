CONSTANTS
  BufSize = 2
  MaxBytes = 2
  EarlyLimit = 0
  CounterMod = 4
SPECIFICATION Spec
INVARIANTS
  NothingLeftToCopy
