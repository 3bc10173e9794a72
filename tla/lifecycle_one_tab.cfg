SPECIFICATION FairSpec
CONSTANTS
  NoDoc = NoDoc
  NoRef = NoRef
  Lossy = TRUE
  Requests = {q1}
  Kinds = {"view", "confirmation", "question", "declaration", "deletedView", "deletedPost"}
  Refs = {r1, r2}
  Fields = {f1}
  GasStatuses = {"RECEIVED", "APPLICATION_AMEND", "APPLICATION_WITHDRAWN", "STATUS_AWAITING_CLAIM"}
  Rules <- MCClaimRules
INVARIANT ResubmissionIsLinked
PROPERTY EveryRequestEnds
