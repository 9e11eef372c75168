CONSTANTS
  BufSize = 1
  Fds = {3, 4}
  Structs = {s1}
  NoStruct = NoStruct
  MaxPool = 1
  MaxAddrs = 2
  MaxUsers = 0
  CounterMod = 2
  Faults = {"retry"}
SPECIFICATION Spec
INVARIANTS
  DocumentedInterests
