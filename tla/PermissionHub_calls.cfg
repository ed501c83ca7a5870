\* Three calls, a map of two places, a click and a sweep, under fair scheduling.
\* The third call and the sweep do not come in one behaviour.
CONSTANTS
  q1 = q1 q2 = q2 q3 = q3 k1 = k1 p1 = p1 c1 = c1
  Nothing = Nothing
  Calls <- MCCalls
  Clicks <- MCOneClick
  Sweeps <- MCSweeps
  Conversations <- MCOneConversation
  MaxPending = 2
SPECIFICATION FairSpec
ACTION_CONSTRAINT MCNarrow
INVARIANTS TypeOK ReturnedIsGone ToldIsGone
PROPERTIES WaitReturns StoredIsTold FailsSafe
\* Every call, click and sweep is used once: the system comes to rest.
CHECK_DEADLOCK FALSE
