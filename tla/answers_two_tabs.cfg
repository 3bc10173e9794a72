SPECIFICATION DASpec
CONSTANTS
  NoDoc = NoDoc
  Lossy = TRUE
  Requests = {r1, r2}
  Parcels = {p1, p2}
  Nothing = Nothing
  Invalidates = {"hectares", "payment"}
  SfdEnabled = TRUE
  Total <- MCTotal
  Minimum = 1
  Hectares = {1, 2}
SYMMETRY Symmetry
INVARIANTS DependentsFollow HectaresWithinArea
