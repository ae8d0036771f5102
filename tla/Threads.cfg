SPECIFICATION Spec
CONSTANTS
  ma = ma
  mb = mb
  mx = mx
  MsgIds = {ma, mb, mx}
  None = None
  NoMsg = None
  Top = 3
  SortAscend = TRUE
  RefLists <- FewRefLists
  KillLevel = "KILL_READ"
  Subjects = {"topic", "other"}
  SubjectOf <- TwoSubjects
  SortByScore = TRUE
  MaxKilled = 1
  MaxRethreads = 1
INVARIANTS Forest ThreadsSound
CHECK_DEADLOCK FALSE
