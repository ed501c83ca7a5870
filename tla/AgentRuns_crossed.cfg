\* Two nodes that may wait for each other, or a third call of any sort and a stop; restarts.
CONSTANTS
  a1 = a1 a2 = a2 r1 = r1 r2 = r2 r3 = r3 r4 = r4 k1 = k1
  Nobody = Nobody
  Agents <- MCAgents
  Requests <- MCFourRequests
  Stops <- MCStops
  Sources <- MCTwoSources
  MayRestart = TRUE
SPECIFICATION MCCrossedSpec
ACTION_CONSTRAINT MCNarrow
INVARIANTS SlotIsRegistered NoLeakedOccupancy
PROPERTY CancelledEnds
\* Every request and every stop is used once: the system comes to rest.
CHECK_DEADLOCK FALSE
