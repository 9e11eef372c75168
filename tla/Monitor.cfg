SPECIFICATION FairSpec
CONSTANTS
  c1 = c1
  c2 = c2
  Clients = {c1, c2}
  NoRequest = NoRequest
  Requests <- MCRequests
  MaxRequests <- MCMaxRequests
  Cuts = {5, 8, 9}
  Pieces = {3}
  Mortal = {c2}
  TokenSize = 1
  RootName <- MCRootName
  RootToken <- MCRootToken
  StartUsers <- MCStartUsers
  MaxUsers = 2
  MaxAdmins = 2
  Radix = 4
  Stats = {7}
  MaxPool = 1
INVARIANTS ReportTrue StructsAccounted
PROPERTIES ImplementsRegistry RequestServed
CHECK_DEADLOCK FALSE
