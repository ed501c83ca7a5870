\* Two asks that mention each other's agents wait for each other.
CONSTANTS
  a1 = a1 a2 = a2 r1 = r1 r2 = r2 r3 = r3 r4 = r4 k1 = k1
  Nobody = Nobody
  Agents <- MCAgents
  Requests <- MCFourRequests
  Stops <- MCNoStop
  Sources <- MCChat
  MayRestart = FALSE
SYMMETRY MCSymmetry
SPECIFICATION Spec
INVARIANT NoMutualWait
\* Every request and every stop is used once: the system comes to rest.
CHECK_DEADLOCK FALSE
