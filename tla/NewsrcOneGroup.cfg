CONSTANTS
  g1 = g1
  g2 = g2
  Groups = {g1}
  NoGroup = NoGroup
  MaxArt = 3
  NBITS = 2
  Xref <- NoCrossPosts
  StripNewsrc = FALSE
  GroupMayFail = FALSE
  ShowOnlyUnread = FALSE
SPECIFICATION Spec
INVARIANTS TypeOK BitmapsSafe SavedAsMarked CountsTrue
PROPERTY MarksFollowUser
