CONSTANTS
  N = 2
  MaxMarks = 1
  NoFile = NoFile
  Harmed = Harmed
  DefaultGroups = {2}
  Signals = TRUE
  Crashes = FALSE
  LinkMayFail = FALSE
SPECIFICATION Spec
PROPERTY NewsrcSurvives
CHECK_DEADLOCK FALSE
