CONSTANTS
  PhLen = 2
  ScrubCap = 3
  Requests <- MCRequests
  Policies <- MCPolicies
  Addresses <- MCAddresses
  Symbols = {0, 1, 2, 3}
  HeadSize = 2
  MaxPiece = 2
  MaxRequest = 4
  MaxResponse = 4
  MaxTries = 2
  MaxCache = 1
  MaxConns = 2
SPECIFICATION Spec
CHECK_DEADLOCK FALSE
INVARIANTS
  SecretsGoHome
  WholeRequestSent
  NoSecretToGuest
  ChunksMakeTheWhole
PROPERTY ThreadReturns
