SPECIFICATION FilterSpec
CONSTANTS
  Groups <- MCGroups
  Articles <- MCArticles
  ArtsOf <- MCArtsOf
  Art <- MCArt
  HandFiles <- MCHandFiles
  Day = 2
  FilterDays = 1
  KillRead = FALSE
  Quick <- MCQuick
  Answers <- MCAnswers
  ScopesOf <- MCScopesOf
  AddPosted = TRUE
  Subjects <- MCSubjects
  Now = 10
  MaxTime = 12
  MaxRules = 2
INVARIANTS FileIsRules RulesInForce
CHECK_DEADLOCK FALSE
