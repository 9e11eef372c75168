SPECIFICATION Spec
CONSTANTS
  c1 = c1
  c2 = c2
  Clients = {c1, c2}
  NoRequest = NoRequest
  Requests <- MCOnlyAdds
  MaxRequests <- MCMaxRequests
  Cuts = {5, 8, 9}
  Pieces = {}
  Mortal = {}
  TokenSize = 1
  RootName <- MCRootName
  RootToken <- MCRootToken
  StartUsers <- MCStartUsers
  MaxUsers = 3
  MaxAdmins = 1
  Radix = 4
  Stats = {7}
  MaxPool = 1
INVARIANT TableAsAsked
CHECK_DEADLOCK FALSE
