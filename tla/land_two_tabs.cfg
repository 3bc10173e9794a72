SPECIFICATION Spec
CONSTANTS
  NoDoc = NoDoc
  Lossy = TRUE
  Requests = {r1, r2}
  Parcels = {p1, p2}
  Actions = {a1}
  NoLand = NoLand
  NoPayment = NoPayment
  SingleParcel = FALSE
  FormsOpen = TRUE
  Steady = {p1}
  MaxAccepted = 1
SYMMETRY Symmetry
INVARIANTS NoEmptyParcel NoPaymentWithoutParcels SubmittedIsValidated SubmittedIsKept
CHECK_DEADLOCK FALSE
