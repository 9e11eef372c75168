CONSTANTS
  Ipv4Len = 1
  Ipv6Len = 2
  BufSize = 9
  MaxUsers = 2
  Hellos <- MCHellos
  Auths <- MCAuths
  Requests <- MCRequests
  Accounts <- MCAccounts
  MaxChanges = 2
SPECIFICATION FairSpec
CHECK_DEADLOCK FALSE
INVARIANTS
  ParsedAsSent
  RequestNeedsUser
  PoliteNotDropped
  LoggedNameRight
PROPERTIES
  MessageAnswered
