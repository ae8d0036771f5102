CONSTANTS
  N = 2
  MaxMarks = 1
  NoFile = NoFile
  Harmed = Harmed
  DefaultGroups = {2}
  Signals = TRUE
  Crashes = TRUE
  LinkMayFail = TRUE
SPECIFICATION Spec
INVARIANTS
  NothingTorn
  SavedOrTold
PROPERTIES
  StoreSpec
  ExitEnds
CHECK_DEADLOCK FALSE
