SPECIFICATION Spec
CONSTANTS
  q1 = q1
  q2 = q2
  plan = plan
  Nothing = Nothing
  Sub = Sub
  Asks <- MCAsks
  Light <- MCLight
  Threads <- MCThreads
  Engines <- MCEngines
  MaxRecover = 1
  MaxPieces = 1
  MayOverlap = TRUE
  MayClear = TRUE
  MayLose = TRUE
INVARIANTS
  TypeOK
  SessionIsOurs
  ShownIsSaved
  RepeatsOnlySilent
PROPERTIES
  AskEnds
ACTION_CONSTRAINT MCNarrow
CHECK_DEADLOCK FALSE
