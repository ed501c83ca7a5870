\* A rejection leads back past a node that had succeeded.
CONSTANTS
  d1 = d1 d2 = d2 d3 = d3 o1 = o1 o2 = o2 o3 = o3
  Loop = Loop Nobody = Nobody
  Drivers <- MCTwoDrivers
  Ops <- MCTwoOps
  OpKinds <- MCReviewKinds
  Retried <- MCNoRetry
  MayRestart = FALSE
  Order <- MCChainOrder
  Edges <- MCChainEdges
  Kind <- MCKind
  WaitFor <- MCNoWaitFor
  RejectTarget <- MCRejectEdge
SPECIFICATION Spec
INVARIANT RejectedIsNotSuccess
\* The calls and goroutines are used up: the run rests.
CHECK_DEADLOCK FALSE
