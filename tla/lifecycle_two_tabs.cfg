SPECIFICATION Spec
CONSTANTS
  NoDoc = NoDoc
  NoRef = NoRef
  Lossy = TRUE
  Requests = {q1, q2}
  Kinds = {"question", "declaration", "deletedView"}
  Refs = {r1, r2}
  Fields = {f1}
  GasStatuses = {"APPLICATION_AMEND", "APPLICATION_WITHDRAWN"}
  Rules <- MCRules
SYMMETRY Symmetry
INVARIANTS SubmittedIsAccepted PredecessorIsAccepted ClearedStartsAfresh
PROPERTY ImplementsLedger
