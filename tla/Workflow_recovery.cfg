\* Two branches, a merge and a condition, with a restart at any point.
CONSTANTS
  d1 = d1 d2 = d2 d3 = d3 o1 = o1 o2 = o2 o3 = o3
  Loop = Loop Nobody = Nobody
  Drivers <- MCTwoDrivers
  Ops <- MCOneOp
  OpKinds <- MCOnlyStart
  Retried <- MCNoRetry
  MayRestart = TRUE
  Order <- MCUnevenOrder
  Edges <- MCUnevenEdges
  Kind <- MCKind
  WaitFor <- MCNoWaitFor
  RejectTarget <- MCRejectEdge
SPECIFICATION Spec
INVARIANTS MergeHasInputs SuccessReachedEnd
