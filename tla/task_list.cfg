SPECIFICATION Spec
CONSTANTS
  Tabs = {t1, t2}
  N = 5
  A = A
  B = B
  Sections = {A, B}
  Forms <- MCForms
INVARIANTS Onward CompleteWhenWalked ModesAgree
SYMMETRY TabSymmetry
