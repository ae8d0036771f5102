SPECIFICATION Spec
CONSTANTS
  Groups = {g1, g2}
  NoGroup = NoGroup
  None = None
  Setups <- MCSetups
  Posting = TRUE
  Ops = 3
  Troubles = 2
INVARIANTS EveryAnswerOwn InStep RightGroup Posted
 
CHECK_DEADLOCK FALSE
