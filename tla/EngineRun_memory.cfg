SPECIFICATION Spec
CONSTANTS
  q1 = q1
  q2 = q2
  plan = plan
  Nothing = Nothing
  Sub = Sub
  Asks <- MCTalk
  Light = {}
  Threads <- MCThreads
  Engines <- MCCodex
  MaxRecover = 1
  MaxPieces = 1
  MayOverlap = FALSE
  MayClear = FALSE
  MayLose = FALSE
INVARIANTS
  ReplyIsRemembered
CHECK_DEADLOCK FALSE
