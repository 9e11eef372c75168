CONSTANTS
  BufSize = 1
  Fds = {3, 4, 5, 6}
  Structs = {s1, s2}
  NoStruct = NoStruct
  MaxPool = 1
  MaxAddrs = 2
  MaxUsers = 1
  CounterMod = 2
  Faults = {"retry", "thread", "notify"}
SPECIFICATION Spec
SYMMETRY StructSymmetry
INVARIANTS
  TypeOK
  RefCounts
  DescriptorsAccounted
  HandlersReady
  ResolverTargetsLive
  AddressListLive
  CurrentExact
  LoggedUserKnown
  AllFreed
PROPERTIES
  Isolation
