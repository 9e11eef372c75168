CONSTANTS
  BufSize = 3
  Fds = {3, 4, 5}
  Structs = {s1, s2}
  NoStruct = NoStruct
  MaxPool = 1
  MaxAddrs = 2
  MaxUsers = 0
  CounterMod = 2
  Faults = {}
SPECIFICATION FairSpec
INVARIANTS
  DocumentedInterests
  OneReply
PROPERTIES
  RequestAnswered
