SPECIFICATION Spec
CONSTANTS
  NoDoc = NoDoc
  Lossy = TRUE
  Requests = {q1, q2}
  Amounts = {a1, a2}
  NoAmount = NoAmount
  MaxClaims = 2
SYMMETRY Symmetry
INVARIANTS OneCurrentClaim SubmittedClaimIsAccepted ClaimsInOrder
PROPERTY ImplementsClaimLedger
