SPECIFICATION Spec
CONSTANTS
  m0 = m0
  m1 = m1
  m2 = m2
  NoMsg = NoMsg
  Arts = {0, 1, 2}
  SubjectOf <- Distinct
  RefOf <- Ids
  Tree <- ATree
  Method = "THREAD_BOTH"
  PosFirstUnread = TRUE
  NOTESLINES = 2
  SCROLL = 1
  OnlyUnread = TRUE
  OtherMethods = {"THREAD_NONE"}
  PagerOptions = TRUE
  MaxChanges = 1
  KillLevel = "KILL_READ"
INVARIANT CursorValid
PROPERTIES TabLeavesNothing BackToThread
CHECK_DEADLOCK FALSE
