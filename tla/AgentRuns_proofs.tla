--------------------------- MODULE AgentRuns_proofs ---------------------------
(* Theorems about AgentRuns, for any agents, requests and stops.           *)
EXTENDS AgentRuns, TLAPS

(***************************************************************************)
(* The invariants of AgentRuns are not inductive by themselves.  IInv adds *)
(* what they rest on.                                                      *)
(***************************************************************************)

\* A request that has arrived wants an agent, and a StopManaged about to cancel
\* has a slot in hand.
TypeInv ==
  /\ TypeOK
  /\ \A r \in Requests : pc[r] # "new" => agent[r] \in Agents
  /\ \A k \in Stops : stopPc[k] # "new" => stopAgent[k] \in Agents
  /\ \A k \in Stops : stopPc[k] = "cancel" => stopSlot[k] \in Requests

\* Before it registers, and while it releases, a request is not a delegation.
NoDelegationHolds ==
  \A r \in Requests :
    pc[r] \in {"sched", "schedOcc", "check", "clear", "acquire", "register", "release"}
      => kind[r] # "INVOKE"

\* A registered request with a live context is in the map, unless a StopManaged
\* has just taken it out.  OneLiveRun is what this says of two requests.
LiveIsInMap ==
  \A r \in Requests :
    pc[r] \in Registered /\ r \notin cancelled => runs[agent[r]] = r \/ BeingStopped(r)

IInv ==
  /\ TypeInv
  /\ NoDelegationHolds
  /\ SlotIsRegistered
  /\ LiveIsInMap
  /\ NoLeakedOccupancy

-------------------------------------------------------------------------------
\* Every action keeps the types; a request that arrives gets an agent, a stop that
\* goes on to cancel has a slot.
LEMMA TypeStep == TypeInv /\ [Next]_vars => TypeInv'
<1> SUFFICES ASSUME TypeInv, [Next]_vars PROVE TypeInv'
  OBVIOUS
<1> USE NobodyAssumption, SourcesAssumption
<1> USE DEF TypeInv, TypeOK, Kinds, Statuses, Places, StopPlaces, reqVars, stopVars,
            Goto, WriteStatus, StopGoto, StopKeeps
<1>1. ASSUME NEW r \in Requests, TakeOccupancy(r) PROVE TypeInv'
  BY <1>1 DEF TakeOccupancy, SchedStatus, SchedOccupancy, CheckOccupancy,
              ClearOccupancy, Acquire, AcquireFails, LeaveUnregistered
<1>2. ASSUME NEW r \in Requests, Queue(r) PROVE TypeInv'
  BY <1>2 DEF Queue, TakeFreeSlot, SlotBusy, AnnounceWaiting, LeaveQueue
<1>3. ASSUME NEW r \in Requests, RunEngine(r) PROVE TypeInv'
  <2>1. CASE Register(r)
    BY <2>1 DEF Register, Active
  <2>2. CASE Begin(r) \/ BeginFails(r)
    BY <2>2 DEF Begin, BeginFails
  <2>3. CASE StartEngine(r) \/ EngineEnds(r)
    BY <2>3 DEF StartEngine, EngineEnds
  <2>4. ASSUME NEW s \in {"idle", "error"}, Finish(r, s) PROVE TypeInv'
    BY <2>4 DEF Finish
  <2>5. CASE Unregister(r) \/ Release(r)
    BY <2>5 DEF Unregister, Release, FreedBy
  <2>6. QED
    BY <1>3, <2>1, <2>2, <2>3, <2>4, <2>5 DEF RunEngine
<1>4. ASSUME NEW r \in Requests, Disconnect(r) PROVE TypeInv'
  BY <1>4 DEF Disconnect
<1>5. ASSUME NEW r \in Requests, NEW k \in Sources, NEW g \in Agents, Arrive(r, k, g)
      PROVE  TypeInv'
  BY <1>5 DEF Arrive, FirstPlace
<1>6. ASSUME NEW r \in Requests, NEW i \in Requests, NEW g \in Agents, Mention(r, i, g)
      PROVE  TypeInv'
  BY <1>6 DEF Mention
<1>7. ASSUME NEW k \in Stops, StopStep(k) PROVE TypeInv'
  <2>1. CASE StopCancel(k)
    BY <2>1 DEF StopCancel
  <2>2. CASE StopIdle(k)
    BY <2>2 DEF StopIdle
  <2>3. CASE StopRelease(k)
    BY <2>3 DEF StopRelease
  <2>4. CASE StopClear(k)
    BY <2>4 DEF StopClear
  <2>5. QED
    BY <1>7, <2>1, <2>2, <2>3, <2>4 DEF StopStep
<1>8. ASSUME NEW k \in Stops, NEW g \in Agents, NEW force \in BOOLEAN, StopTake(k, g, force)
      PROVE  TypeInv'
  BY <1>8 DEF StopTake
<1>9. CASE Restart
  BY <1>9 DEF Restart, Active
<1>10. CASE UNCHANGED vars
  BY <1>10 DEF vars
<1>11. QED
  BY <1>1, <1>2, <1>3, <1>4, <1>5, <1>6, <1>7, <1>8, <1>9, <1>10 DEF Next, Step

-------------------------------------------------------------------------------
\* Only Arrive and Mention choose a kind; Mention sends its request to poll.
LEMMA DelegationStep == TypeInv /\ NoDelegationHolds /\ [Next]_vars => NoDelegationHolds'
<1> SUFFICES ASSUME TypeInv, NoDelegationHolds, [Next]_vars PROVE NoDelegationHolds'
  OBVIOUS
<1> USE NobodyAssumption, SourcesAssumption
<1> USE DEF TypeInv, TypeOK, reqVars, stopVars, Goto, WriteStatus, StopGoto, StopKeeps,
            NoDelegationHolds
<1>1. ASSUME NEW r \in Requests, SchedStatus(r) \/ SchedOccupancy(r) \/ CheckOccupancy(r)
      PROVE  NoDelegationHolds'
  BY <1>1 DEF SchedStatus, SchedOccupancy, CheckOccupancy
<1>2. ASSUME NEW r \in Requests, ClearOccupancy(r)
      PROVE  NoDelegationHolds'
  BY <1>2 DEF ClearOccupancy
<1>3. ASSUME NEW r \in Requests, Acquire(r)
      PROVE  NoDelegationHolds'
  BY <1>3 DEF Acquire
<1>4. ASSUME NEW r \in Requests, AcquireFails(r) \/ LeaveUnregistered(r)
      PROVE  NoDelegationHolds'
  BY <1>4 DEF AcquireFails, LeaveUnregistered
<1>5. ASSUME NEW r \in Requests, TakeFreeSlot(r)
      PROVE  NoDelegationHolds'
  BY <1>5 DEF TakeFreeSlot
<1>6. ASSUME NEW r \in Requests, SlotBusy(r) \/ AnnounceWaiting(r) \/ LeaveQueue(r)
      PROVE  NoDelegationHolds'
  BY <1>6 DEF SlotBusy, AnnounceWaiting, LeaveQueue
<1>7. ASSUME NEW r \in Requests, Register(r)
      PROVE  NoDelegationHolds'
  BY <1>7 DEF Register
<1>8. ASSUME NEW r \in Requests, Begin(r) \/ BeginFails(r)
      PROVE  NoDelegationHolds'
  BY <1>8 DEF Begin, BeginFails
<1>9. ASSUME NEW r \in Requests, StartEngine(r) \/ EngineEnds(r)
      PROVE  NoDelegationHolds'
  BY <1>9 DEF StartEngine, EngineEnds
<1>10. ASSUME NEW r \in Requests, NEW s \in {"idle", "error"}, Finish(r, s)
      PROVE  NoDelegationHolds'
  BY <1>10 DEF Finish
<1>11. ASSUME NEW r \in Requests, Unregister(r)
      PROVE  NoDelegationHolds'
  BY <1>11 DEF Unregister, FreedBy
<1>12. ASSUME NEW r \in Requests, Release(r)
      PROVE  NoDelegationHolds'
  BY <1>12 DEF Release
<1>13. ASSUME NEW r \in Requests, Disconnect(r)
      PROVE  NoDelegationHolds'
  BY <1>13 DEF Disconnect
<1>14. ASSUME NEW r \in Requests, NEW k \in Sources, NEW g \in Agents, Arrive(r, k, g)
      PROVE  NoDelegationHolds'
  BY <1>14 DEF Arrive, FirstPlace
<1>15. ASSUME NEW r \in Requests, NEW i \in Requests, NEW g \in Agents, Mention(r, i, g)
      PROVE  NoDelegationHolds'
  BY <1>15 DEF Mention
<1>16. ASSUME NEW k \in Stops, StopCancel(k)
      PROVE  NoDelegationHolds'
  BY <1>16 DEF StopCancel
<1>17. ASSUME NEW k \in Stops, StopIdle(k) \/ StopRelease(k) \/ StopClear(k)
      PROVE  NoDelegationHolds'
  BY <1>17 DEF StopIdle, StopRelease, StopClear
<1>18. ASSUME NEW k \in Stops, NEW g \in Agents, NEW force \in BOOLEAN, StopTake(k, g, force)
      PROVE  NoDelegationHolds'
  BY <1>18 DEF StopTake
<1>19. CASE Restart
  BY <1>19 DEF Restart, Active
<1>20. CASE UNCHANGED vars
  BY <1>20 DEF vars
<1>21. QED
  BY <1>1, <1>2, <1>3, <1>4, <1>5, <1>6, <1>7, <1>8, <1>9, <1>10, <1>11, <1>12, <1>13, <1>14, <1>15, <1>16, <1>17, <1>18, <1>19, <1>20
  DEF Next, Step, TakeOccupancy, Queue, RunEngine, StopStep

-------------------------------------------------------------------------------
\* A slot enters the map at a registration; it leaves with its own cleanup, with
\* a stop or when another slot takes its place.
LEMMA SlotStep == TypeInv /\ SlotIsRegistered /\ [Next]_vars => SlotIsRegistered'
<1> SUFFICES ASSUME TypeInv, SlotIsRegistered, [Next]_vars PROVE SlotIsRegistered'
  OBVIOUS
<1> USE NobodyAssumption, SourcesAssumption
<1> USE DEF TypeInv, TypeOK, reqVars, stopVars, Goto, WriteStatus, StopGoto, StopKeeps,
            SlotIsRegistered, Registered
<1>1. ASSUME NEW r \in Requests, SchedStatus(r) \/ SchedOccupancy(r) \/ CheckOccupancy(r)
      PROVE  SlotIsRegistered'
  BY <1>1 DEF SchedStatus, SchedOccupancy, CheckOccupancy
<1>2. ASSUME NEW r \in Requests, ClearOccupancy(r)
      PROVE  SlotIsRegistered'
  BY <1>2 DEF ClearOccupancy
<1>3. ASSUME NEW r \in Requests, Acquire(r)
      PROVE  SlotIsRegistered'
  BY <1>3 DEF Acquire
<1>4. ASSUME NEW r \in Requests, AcquireFails(r) \/ LeaveUnregistered(r)
      PROVE  SlotIsRegistered'
  BY <1>4 DEF AcquireFails, LeaveUnregistered
<1>5. ASSUME NEW r \in Requests, TakeFreeSlot(r)
      PROVE  SlotIsRegistered'
  BY <1>5 DEF TakeFreeSlot
<1>6. ASSUME NEW r \in Requests, SlotBusy(r) \/ AnnounceWaiting(r) \/ LeaveQueue(r)
      PROVE  SlotIsRegistered'
  BY <1>6 DEF SlotBusy, AnnounceWaiting, LeaveQueue
<1>7. ASSUME NEW r \in Requests, Register(r)
      PROVE  SlotIsRegistered'
  BY <1>7 DEF Register
<1>8. ASSUME NEW r \in Requests, Begin(r) \/ BeginFails(r)
      PROVE  SlotIsRegistered'
  BY <1>8 DEF Begin, BeginFails
<1>9. ASSUME NEW r \in Requests, StartEngine(r) \/ EngineEnds(r)
      PROVE  SlotIsRegistered'
  BY <1>9 DEF StartEngine, EngineEnds
<1>10. ASSUME NEW r \in Requests, NEW s \in {"idle", "error"}, Finish(r, s)
      PROVE  SlotIsRegistered'
  BY <1>10 DEF Finish
<1>11. ASSUME NEW r \in Requests, Unregister(r)
      PROVE  SlotIsRegistered'
  BY <1>11 DEF Unregister, FreedBy
<1>12. ASSUME NEW r \in Requests, Release(r)
      PROVE  SlotIsRegistered'
  BY <1>12 DEF Release
<1>13. ASSUME NEW r \in Requests, Disconnect(r)
      PROVE  SlotIsRegistered'
  BY <1>13 DEF Disconnect
<1>14. ASSUME NEW r \in Requests, NEW k \in Sources, NEW g \in Agents, Arrive(r, k, g)
      PROVE  SlotIsRegistered'
  BY <1>14 DEF Arrive, FirstPlace
<1>15. ASSUME NEW r \in Requests, NEW i \in Requests, NEW g \in Agents, Mention(r, i, g)
      PROVE  SlotIsRegistered'
  BY <1>15 DEF Mention
<1>16. ASSUME NEW k \in Stops, StopCancel(k)
      PROVE  SlotIsRegistered'
  BY <1>16 DEF StopCancel
<1>17. ASSUME NEW k \in Stops, StopIdle(k) \/ StopRelease(k) \/ StopClear(k)
      PROVE  SlotIsRegistered'
  BY <1>17 DEF StopIdle, StopRelease, StopClear
<1>18. ASSUME NEW k \in Stops, NEW g \in Agents, NEW force \in BOOLEAN, StopTake(k, g, force)
      PROVE  SlotIsRegistered'
  BY <1>18 DEF StopTake
<1>19. CASE Restart
  BY <1>19 DEF Restart, Active
<1>20. CASE UNCHANGED vars
  BY <1>20 DEF vars
<1>21. QED
  BY <1>1, <1>2, <1>3, <1>4, <1>5, <1>6, <1>7, <1>8, <1>9, <1>10, <1>11, <1>12, <1>13, <1>14, <1>15, <1>16, <1>17, <1>18, <1>19, <1>20
  DEF Next, Step, TakeOccupancy, Queue, RunEngine, StopStep

-------------------------------------------------------------------------------
\* A registered request leaves the map cancelled, or in the hands of a stop.
LEMMA LiveStep == TypeInv /\ SlotIsRegistered /\ LiveIsInMap /\ [Next]_vars => LiveIsInMap'
<1> SUFFICES ASSUME TypeInv /\ SlotIsRegistered, LiveIsInMap, [Next]_vars PROVE LiveIsInMap'
  OBVIOUS
<1> USE NobodyAssumption, SourcesAssumption
<1> USE DEF TypeInv, TypeOK, reqVars, stopVars, Goto, WriteStatus, StopGoto, StopKeeps,
            SlotIsRegistered, LiveIsInMap, BeingStopped, Registered
<1>1. ASSUME NEW r \in Requests, SchedStatus(r) \/ SchedOccupancy(r) \/ CheckOccupancy(r)
      PROVE  LiveIsInMap'
  BY <1>1 DEF SchedStatus, SchedOccupancy, CheckOccupancy
<1>2. ASSUME NEW r \in Requests, ClearOccupancy(r)
      PROVE  LiveIsInMap'
  BY <1>2 DEF ClearOccupancy
<1>3. ASSUME NEW r \in Requests, Acquire(r)
      PROVE  LiveIsInMap'
  BY <1>3 DEF Acquire
<1>4. ASSUME NEW r \in Requests, AcquireFails(r) \/ LeaveUnregistered(r)
      PROVE  LiveIsInMap'
  BY <1>4 DEF AcquireFails, LeaveUnregistered
<1>5. ASSUME NEW r \in Requests, TakeFreeSlot(r)
      PROVE  LiveIsInMap'
  BY <1>5 DEF TakeFreeSlot
<1>6. ASSUME NEW r \in Requests, SlotBusy(r) \/ AnnounceWaiting(r) \/ LeaveQueue(r)
      PROVE  LiveIsInMap'
  BY <1>6 DEF SlotBusy, AnnounceWaiting, LeaveQueue
<1>7. ASSUME NEW r \in Requests, Register(r)
      PROVE  LiveIsInMap'
  BY <1>7 DEF Register
<1>8. ASSUME NEW r \in Requests, Begin(r) \/ BeginFails(r)
      PROVE  LiveIsInMap'
  BY <1>8 DEF Begin, BeginFails
<1>9. ASSUME NEW r \in Requests, StartEngine(r) \/ EngineEnds(r)
      PROVE  LiveIsInMap'
  BY <1>9 DEF StartEngine, EngineEnds
<1>10. ASSUME NEW r \in Requests, NEW s \in {"idle", "error"}, Finish(r, s)
      PROVE  LiveIsInMap'
  BY <1>10 DEF Finish
<1>11. ASSUME NEW r \in Requests, Unregister(r)
      PROVE  LiveIsInMap'
  BY <1>11 DEF Unregister, FreedBy
<1>12. ASSUME NEW r \in Requests, Release(r)
      PROVE  LiveIsInMap'
  BY <1>12 DEF Release
<1>13. ASSUME NEW r \in Requests, Disconnect(r)
      PROVE  LiveIsInMap'
  BY <1>13 DEF Disconnect
<1>14. ASSUME NEW r \in Requests, NEW k \in Sources, NEW g \in Agents, Arrive(r, k, g)
      PROVE  LiveIsInMap'
  BY <1>14 DEF Arrive, FirstPlace
<1>15. ASSUME NEW r \in Requests, NEW i \in Requests, NEW g \in Agents, Mention(r, i, g)
      PROVE  LiveIsInMap'
  BY <1>15 DEF Mention
<1>16. ASSUME NEW k \in Stops, StopCancel(k)
      PROVE  LiveIsInMap'
  BY <1>16 DEF StopCancel
<1>17. ASSUME NEW k \in Stops, StopIdle(k) \/ StopRelease(k) \/ StopClear(k)
      PROVE  LiveIsInMap'
  BY <1>17 DEF StopIdle, StopRelease, StopClear
<1>18. ASSUME NEW k \in Stops, NEW g \in Agents, NEW force \in BOOLEAN, StopTake(k, g, force)
      PROVE  LiveIsInMap'
  BY <1>18 DEF StopTake
<1>19. CASE Restart
  BY <1>19 DEF Restart, Active
<1>20. CASE UNCHANGED vars
  BY <1>20 DEF vars
<1>21. QED
  BY <1>1, <1>2, <1>3, <1>4, <1>5, <1>6, <1>7, <1>8, <1>9, <1>10, <1>11, <1>12, <1>13, <1>14, <1>15, <1>16, <1>17, <1>18, <1>19, <1>20
  DEF Next, Step, TakeOccupancy, Queue, RunEngine, StopStep

-------------------------------------------------------------------------------
\* A row is inserted when the request begins to hold it and removed, at the
\* latest, by that request's own release.
LEMMA OccupancyStep == TypeInv /\ NoDelegationHolds /\ NoLeakedOccupancy /\ [Next]_vars => NoLeakedOccupancy'
<1> SUFFICES ASSUME TypeInv /\ NoDelegationHolds, NoLeakedOccupancy, [Next]_vars PROVE NoLeakedOccupancy'
  OBVIOUS
<1> USE NobodyAssumption, SourcesAssumption
<1> USE DEF TypeInv, TypeOK, reqVars, stopVars, Goto, WriteStatus, StopGoto, StopKeeps,
            NoDelegationHolds, NoLeakedOccupancy, Holding, Registered
<1>1. ASSUME NEW r \in Requests, SchedStatus(r) \/ SchedOccupancy(r) \/ CheckOccupancy(r)
      PROVE  NoLeakedOccupancy'
  BY <1>1 DEF SchedStatus, SchedOccupancy, CheckOccupancy
<1>2. ASSUME NEW r \in Requests, ClearOccupancy(r)
      PROVE  NoLeakedOccupancy'
  BY <1>2 DEF ClearOccupancy
<1>3. ASSUME NEW r \in Requests, Acquire(r)
      PROVE  NoLeakedOccupancy'
  BY <1>3 DEF Acquire
<1>4. ASSUME NEW r \in Requests, AcquireFails(r) \/ LeaveUnregistered(r)
      PROVE  NoLeakedOccupancy'
  BY <1>4 DEF AcquireFails, LeaveUnregistered
<1>5. ASSUME NEW r \in Requests, TakeFreeSlot(r)
      PROVE  NoLeakedOccupancy'
  BY <1>5 DEF TakeFreeSlot
<1>6. ASSUME NEW r \in Requests, SlotBusy(r) \/ AnnounceWaiting(r) \/ LeaveQueue(r)
      PROVE  NoLeakedOccupancy'
  BY <1>6 DEF SlotBusy, AnnounceWaiting, LeaveQueue
<1>7. ASSUME NEW r \in Requests, Register(r)
      PROVE  NoLeakedOccupancy'
  BY <1>7 DEF Register
<1>8. ASSUME NEW r \in Requests, Begin(r) \/ BeginFails(r)
      PROVE  NoLeakedOccupancy'
  BY <1>8 DEF Begin, BeginFails
<1>9. ASSUME NEW r \in Requests, StartEngine(r) \/ EngineEnds(r)
      PROVE  NoLeakedOccupancy'
  BY <1>9 DEF StartEngine, EngineEnds
<1>10. ASSUME NEW r \in Requests, NEW s \in {"idle", "error"}, Finish(r, s)
      PROVE  NoLeakedOccupancy'
  BY <1>10 DEF Finish
<1>11. ASSUME NEW r \in Requests, Unregister(r)
      PROVE  NoLeakedOccupancy'
  BY <1>11 DEF Unregister, FreedBy
<1>12. ASSUME NEW r \in Requests, Release(r)
      PROVE  NoLeakedOccupancy'
  BY <1>12 DEF Release
<1>13. ASSUME NEW r \in Requests, Disconnect(r)
      PROVE  NoLeakedOccupancy'
  BY <1>13 DEF Disconnect
<1>14. ASSUME NEW r \in Requests, NEW k \in Sources, NEW g \in Agents, Arrive(r, k, g)
      PROVE  NoLeakedOccupancy'
  BY <1>14 DEF Arrive, FirstPlace
<1>15. ASSUME NEW r \in Requests, NEW i \in Requests, NEW g \in Agents, Mention(r, i, g)
      PROVE  NoLeakedOccupancy'
  BY <1>15 DEF Mention
<1>16. ASSUME NEW k \in Stops, StopCancel(k)
      PROVE  NoLeakedOccupancy'
  BY <1>16 DEF StopCancel
<1>17. ASSUME NEW k \in Stops, StopIdle(k) \/ StopRelease(k) \/ StopClear(k)
      PROVE  NoLeakedOccupancy'
  BY <1>17 DEF StopIdle, StopRelease, StopClear
<1>18. ASSUME NEW k \in Stops, NEW g \in Agents, NEW force \in BOOLEAN, StopTake(k, g, force)
      PROVE  NoLeakedOccupancy'
  BY <1>18 DEF StopTake
<1>19. CASE Restart
  BY <1>19 DEF Restart, Active
<1>20. CASE UNCHANGED vars
  BY <1>20 DEF vars
<1>21. QED
  BY <1>1, <1>2, <1>3, <1>4, <1>5, <1>6, <1>7, <1>8, <1>9, <1>10, <1>11, <1>12, <1>13, <1>14, <1>15, <1>16, <1>17, <1>18, <1>19, <1>20
  DEF Next, Step, TakeOccupancy, Queue, RunEngine, StopStep

-------------------------------------------------------------------------------
\* The status is "running" only between Begin and Finish of a request of the
\* agent, and Finish writes another one whatever happened to the context.
LEMMA RunningStep == TypeInv /\ RunningIsAnswered /\ [Next]_vars => RunningIsAnswered'
<1> SUFFICES ASSUME TypeInv, RunningIsAnswered, [Next]_vars PROVE RunningIsAnswered'
  OBVIOUS
<1> USE NobodyAssumption, SourcesAssumption
<1> USE DEF TypeInv, TypeOK, reqVars, stopVars, Goto, WriteStatus, StopGoto, StopKeeps,
            RunningIsAnswered, Working
<1>1. ASSUME NEW r \in Requests, SchedStatus(r) \/ SchedOccupancy(r) \/ CheckOccupancy(r)
      PROVE  RunningIsAnswered'
  BY <1>1 DEF SchedStatus, SchedOccupancy, CheckOccupancy
<1>2. ASSUME NEW r \in Requests, ClearOccupancy(r)
      PROVE  RunningIsAnswered'
  BY <1>2 DEF ClearOccupancy
<1>3. ASSUME NEW r \in Requests, Acquire(r)
      PROVE  RunningIsAnswered'
  BY <1>3 DEF Acquire
<1>4. ASSUME NEW r \in Requests, AcquireFails(r) \/ LeaveUnregistered(r)
      PROVE  RunningIsAnswered'
  BY <1>4 DEF AcquireFails, LeaveUnregistered
<1>5. ASSUME NEW r \in Requests, TakeFreeSlot(r)
      PROVE  RunningIsAnswered'
  BY <1>5 DEF TakeFreeSlot
<1>6. ASSUME NEW r \in Requests, SlotBusy(r) \/ AnnounceWaiting(r) \/ LeaveQueue(r)
      PROVE  RunningIsAnswered'
  BY <1>6 DEF SlotBusy, AnnounceWaiting, LeaveQueue
<1>7. ASSUME NEW r \in Requests, Register(r)
      PROVE  RunningIsAnswered'
  BY <1>7 DEF Register
<1>8. ASSUME NEW r \in Requests, Begin(r) \/ BeginFails(r)
      PROVE  RunningIsAnswered'
  BY <1>8 DEF Begin, BeginFails
<1>9. ASSUME NEW r \in Requests, StartEngine(r) \/ EngineEnds(r)
      PROVE  RunningIsAnswered'
  BY <1>9 DEF StartEngine, EngineEnds
<1>10. ASSUME NEW r \in Requests, NEW s \in {"idle", "error"}, Finish(r, s)
      PROVE  RunningIsAnswered'
  BY <1>10 DEF Finish
<1>11. ASSUME NEW r \in Requests, Unregister(r)
      PROVE  RunningIsAnswered'
  BY <1>11 DEF Unregister, FreedBy
<1>12. ASSUME NEW r \in Requests, Release(r)
      PROVE  RunningIsAnswered'
  BY <1>12 DEF Release
<1>13. ASSUME NEW r \in Requests, Disconnect(r)
      PROVE  RunningIsAnswered'
  BY <1>13 DEF Disconnect
<1>14. ASSUME NEW r \in Requests, NEW k \in Sources, NEW g \in Agents, Arrive(r, k, g)
      PROVE  RunningIsAnswered'
  BY <1>14 DEF Arrive, FirstPlace
<1>15. ASSUME NEW r \in Requests, NEW i \in Requests, NEW g \in Agents, Mention(r, i, g)
      PROVE  RunningIsAnswered'
  BY <1>15 DEF Mention
<1>16. ASSUME NEW k \in Stops, StopCancel(k)
      PROVE  RunningIsAnswered'
  BY <1>16 DEF StopCancel
<1>17. ASSUME NEW k \in Stops, StopIdle(k) \/ StopRelease(k) \/ StopClear(k)
      PROVE  RunningIsAnswered'
  BY <1>17 DEF StopIdle, StopRelease, StopClear
<1>18. ASSUME NEW k \in Stops, NEW g \in Agents, NEW force \in BOOLEAN, StopTake(k, g, force)
      PROVE  RunningIsAnswered'
  BY <1>18 DEF StopTake
<1>19. CASE Restart
  BY <1>19 DEF Restart, Active
<1>20. CASE UNCHANGED vars
  BY <1>20 DEF vars
<1>21. QED
  BY <1>1, <1>2, <1>3, <1>4, <1>5, <1>6, <1>7, <1>8, <1>9, <1>10, <1>11, <1>12, <1>13, <1>14, <1>15, <1>16, <1>17, <1>18, <1>19, <1>20
  DEF Next, Step, TakeOccupancy, Queue, RunEngine, StopStep

-------------------------------------------------------------------------------
LEMMA InductiveInvariant == Spec => []IInv
<1>1. Init => IInv
  <2> SUFFICES ASSUME Init PROVE IInv
    OBVIOUS
  <2> USE NobodyAssumption DEF Init
  <2>1. TypeInv
    BY DEF TypeInv, TypeOK, Kinds, Statuses, Places, StopPlaces
  <2>2. NoDelegationHolds
    BY DEF NoDelegationHolds
  <2>3. SlotIsRegistered /\ NoLeakedOccupancy
    BY DEF SlotIsRegistered, NoLeakedOccupancy
  <2>4. LiveIsInMap
    BY DEF LiveIsInMap, Registered
  <2>5. QED
    BY <2>1, <2>2, <2>3, <2>4 DEF IInv
<1>2. IInv /\ [Next]_vars => IInv'
  BY TypeStep, DelegationStep, SlotStep, LiveStep, OccupancyStep DEF IInv
<1>3. QED
  BY <1>1, <1>2, PTL DEF Spec

\* Every value stays in its type, whatever the agents, requests and stops.
THEOREM TypeCorrect == Spec => []TypeOK
<1>1. IInv => TypeOK
  BY DEF IInv, TypeInv
<1>2. QED
  BY <1>1, InductiveInvariant, PTL

\* Service.runs only ever holds slots of requests that are still there: no
\* cleanup, stop or delegation leaves an entry behind.
THEOREM SlotsAreRegistered == Spec => []SlotIsRegistered
<1>1. IInv => SlotIsRegistered
  BY DEF IInv
<1>2. QED
  BY <1>1, InductiveInvariant, PTL

\* Two asks of one agent never both run with a live context: both would be the
\* one entry the map has for the agent.
THEOREM OneLiveRunPerAgent == Spec => []OneLiveRun
<1>1. IInv => OneLiveRun
  <2> SUFFICES ASSUME LiveIsInMap,
                      NEW q \in Requests, NEW r \in Requests,
                      agent[q] = agent[r],
                      {pc[q], pc[r]} \subseteq Registered,
                      {q, r} \cap cancelled = {},
                      ~BeingStopped(q), ~BeingStopped(r)
               PROVE  q = r
    BY DEF IInv, OneLiveRun
  <2>1. runs[agent[q]] = q
    BY DEF LiveIsInMap
  <2>2. runs[agent[r]] = r
    BY DEF LiveIsInMap
  <2>3. QED
    BY <2>1, <2>2
<1>2. QED
  BY <1>1, InductiveInvariant, PTL

\* No row of agent_occupancy outlives the task that inserted it.
THEOREM OccupancyNeverLeaks == Spec => []NoLeakedOccupancy
<1>1. IInv => NoLeakedOccupancy
  BY DEF IInv
<1>2. QED
  BY <1>1, InductiveInvariant, PTL

\* While the server lives, "running" is a promise somebody will keep.
THEOREM RunningAlwaysAnswered == Spec => []RunningIsAnswered
<1>1. Init => RunningIsAnswered
  BY DEF Init, RunningIsAnswered
<1>2. TypeInv /\ RunningIsAnswered /\ [Next]_vars => RunningIsAnswered'
  BY RunningStep
<1>3. IInv => TypeInv
  BY DEF IInv
<1>4. QED
  BY <1>1, <1>2, <1>3, InductiveInvariant, PTL DEF Spec

===============================================================================
