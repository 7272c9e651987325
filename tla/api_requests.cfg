SPECIFICATION Spec
CONSTANTS
  Docs <- MCDocs
  Contracts = {"sc"}
  Addresses = {"alice", "bob", "sc", "dao"}
  Marketplace = TRUE
  Exchange = TRUE
  Segments <- MCSegments
  Values <- MCValues
  None = None
  Failed = Failed
INVARIANTS TypeOK RoutesAreReached  MissingIsNotFound  InterfacesAgree
\* A request is answered once.
CHECK_DEADLOCK FALSE
