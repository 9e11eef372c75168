CONSTANTS
  BufSize = 3
  MaxBytes = 4
  EarlyLimit = 3
  CounterMod = 4
SPECIFICATION FairSpec
INVARIANTS
  TypeOK
  Conservation
  BytesCounted
  NoStall
  EndsAgree
  CloseHasCause
PROPERTIES
  ImplementsTunnel
  QueuedGoesOut
  EndPropagates
