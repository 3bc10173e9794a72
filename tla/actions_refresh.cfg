SPECIFICATION Spec
CONSTANTS
  N = 3
  Quantity = {1}
  Cover <- MCCover
  Area = 2
  MaxFollowUps = 1
  MaxInFlight = 2
  Typed = {0, 1, 3}
  Documents <- MCDocuments
  Answers <- MCAnswers
CHECK_DEADLOCK FALSE
INVARIANTS TypeOK NothingStuck ShowsWhatIsLeft
PROPERTIES GrowthFits KeptUntouched SavedAsShown SettlesOnceLeftAlone
