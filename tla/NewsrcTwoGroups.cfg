CONSTANTS
  g1 = g1
  g2 = g2
  Groups = {g1, g2}
  NoGroup = NoGroup
  MaxArt = 2
  NBITS = 2
  Xref <- Shifted
  StripNewsrc = FALSE
  ShowOnlyUnread = FALSE
  GroupMayFail = FALSE
SPECIFICATION ReadingSpec
INVARIANT CountsSuffice
PROPERTY CrosspostsOnly
