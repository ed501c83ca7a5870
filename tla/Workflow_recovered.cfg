\* Two restarts, of which the second undoes what the first resume had set aside.
CONSTANTS
  d1 = d1 d2 = d2 d3 = d3 o1 = o1 o2 = o2 o3 = o3
  Loop = Loop Nobody = Nobody
  Drivers <- MCThreeDrivers
  Ops <- MCOneOp
  OpKinds <- MCOnlyStart
  Retried <- MCNoRetry
  MayRestart = TRUE
  Order <- MCForkOrder
  Edges <- MCForkEdges
  Kind <- MCKind
  WaitFor <- MCNoWaitFor
  RejectTarget <- MCRejectEdge
SPECIFICATION Spec
INVARIANT SuccessIsFresh
