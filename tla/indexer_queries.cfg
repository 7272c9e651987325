SPECIFICATION Spec
CONSTANTS
  Docs <- MCDocs
  Calls <- MCCalls
  Contracts = {"b"}
  None = None
  Failed = Failed
INVARIANTS TypeOK CountMatchesList FiltersAreIndependent EnginesAgree
\* A call is served once.
CHECK_DEADLOCK FALSE
