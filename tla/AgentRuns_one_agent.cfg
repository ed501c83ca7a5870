\* Three calls and a stop that compete for one agent.
CONSTANTS
  a1 = a1 a2 = a2 r1 = r1 r2 = r2 r3 = r3 r4 = r4 k1 = k1
  Nobody = Nobody
  Agents <- MCOneAgent
  Requests <- MCRequests
  Stops <- MCStops
  Sources <- MCAllSources
  MayRestart = FALSE
SYMMETRY MCSymmetry
SPECIFICATION Spec
INVARIANTS TypeOK OneLiveRun RunningIsAnswered
\* Every request and every stop is used once: the system comes to rest.
CHECK_DEADLOCK FALSE
