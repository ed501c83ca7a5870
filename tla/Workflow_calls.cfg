\* A reviewed run under three calls of any kind, with restarts, under fair scheduling.
CONSTANTS
  d1 = d1 d2 = d2 d3 = d3 o1 = o1 o2 = o2 o3 = o3
  Loop = Loop Nobody = Nobody
  Drivers <- MCTwoDrivers
  Ops <- MCThreeOps
  OpKinds <- MCAllKinds
  Retried <- MCRetryEnd
  MayRestart = TRUE
  Order <- MCReviewOrder
  Edges <- MCReviewEdges
  Kind <- MCKind
  WaitFor <- MCNoWaitFor
  RejectTarget <- MCRejectEdge
SPECIFICATION FairSpec
INVARIANTS TypeOK EntryIsLive 
PROPERTIES  RecoveryEnds
