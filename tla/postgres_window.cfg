SPECIFICATION Spec
CONSTANTS
  Docs <- MCDocs
  Calls <- MCCalls
  Contracts = {"b"}
  None = None
  Failed = Failed
INVARIANT WindowHolds
\* A call is served once.
CHECK_DEADLOCK FALSE
