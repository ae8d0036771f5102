SPECIFICATION MCSpec
CONSTANTS
  MaxArt = 4
  Headers <- MCHeaders
  Lines <- MCLines
  Known = {"a", "c", "e", "f"}
  Window = 3
  Modes <- MCModes
  GetartLimits <- MCLimits
  MaxCuts = 1
  MaxLost = 3
  Announced = {"new", "auto", "gone"}
  FirstActive <- MCActive
  FirstNewsrc <- MCNewsrc
  FirstUnread = {"a"}
  AutoSubscribe = {"auto"}
  AutoUnsubscribe = {}
  StripBogus = "ask"
  Patterns = {{"a", "new"}}
  MaxGroups = 3
INVARIANTS IndexIsGroup AnswersMatched GroupsListed CursorFollows
