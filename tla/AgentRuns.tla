------------------------------ MODULE AgentRuns ------------------------------
(***************************************************************************)
(* Who may run an agent.  Two structures guard an agent (a "managed        *)
(* agent", 数字员工) and the code keeps them in different places:           *)
(*                                                                         *)
(*   runs  the in-memory map Service.runs, agent -> *managedRun, guarded   *)
(*         by runMu; the slot holds the cancel function of the ask that    *)
(*         runs the engine process;                                        *)
(*   occ   the table agent_occupancy, one row at most per agent, written   *)
(*         with INSERT IGNORE and removed by an unconditional DELETE.      *)
(*                                                                         *)
(* A request is one call that wants an agent: a chat message (DIRECT, from *)
(* the admin page or from a front-desk visitor), a cron job (SCHEDULE), a  *)
(* workflow node (WORKFLOW), the summary a clone asks of its source        *)
(* (CLONE_INIT) or an @mention delegated by another request (INVOKE).      *)
(* Every request is a goroutine; its program counter is pc[r].  A request  *)
(* is used once, so a request also names the slot it registers and the     *)
(* occupancy row it inserts.  A stop is one call of StopManaged, alone or  *)
(* inside the forced takeover of a workflow start.                         *)
(***************************************************************************)
CONSTANTS
  Agents,      \* rows of managed_agents that are past their initialisation
  Requests,    \* identities of asks, one per call
  Stops,       \* identities of StopManaged calls
  Sources,     \* the sorts of calls that arrive
  Nobody,      \* no slot, no row, no caller
  MayRestart   \* whether the server process may be restarted

ASSUME NobodyAssumption == Nobody \notin Requests \cup Agents
ASSUME SourcesAssumption ==
  Sources \subseteq {"DIRECT", "SCHEDULE", "WORKFLOW", "CLONE_INIT"}
ASSUME RestartAssumption == MayRestart \in BOOLEAN

VARIABLES
  runs,        \* Service.runs: agent -> the request whose slot is registered
  occ,         \* agent_occupancy: agent -> the request that inserted the row
  status,      \* managed_agents.status
  kind,        \* what called: see Kinds
  agent,       \* the agent a request wants (meaningful once pc # "new")
  caller,      \* the request that delegated an INVOKE
  pc,          \* where the request's goroutine is
  cancelled,   \* requests whose own context has been cancelled
  stopPc,      \* where a StopManaged call is
  stopAgent,   \* the agent it stops
  stopSlot,    \* the slot it took out of the map
  stopForce    \* whether it belongs to a forced takeover

reqVars == <<kind, agent, caller>>
stopVars == <<stopPc, stopAgent, stopSlot, stopForce>>
vars == <<runs, occ, status, kind, agent, caller, pc, cancelled,
          stopPc, stopAgent, stopSlot, stopForce>>

Kinds == {"DIRECT", "SCHEDULE", "WORKFLOW", "CLONE_INIT", "INVOKE"}
Statuses == {"idle", "running", "waiting", "error"}
Places == {"new", "sched", "schedOcc", "check", "clear", "acquire", "register",
           "poll", "announce", "queue", "begin", "plan", "engine", "finish",
           "unregister", "release", "done"}
StopPlaces == {"new", "cancel", "idle", "release", "clear", "done"}

\* The request's slot is in the map, or was until somebody replaced it.
Registered == {"begin", "plan", "engine", "finish", "unregister"}
\* The request has inserted its occupancy row and has not released it yet.
Holding == Registered \cup {"register", "release"}
\* The status "running" has been written and the final status has not.
Working == {"plan", "engine", "finish"}

TypeOK ==
  /\ runs \in [Agents -> Requests \cup {Nobody}]
  /\ occ \in [Agents -> Requests \cup {Nobody}]
  /\ status \in [Agents -> Statuses]
  /\ kind \in [Requests -> Kinds]
  /\ agent \in [Requests -> Agents \cup {Nobody}]
  /\ caller \in [Requests -> Requests \cup {Nobody}]
  /\ pc \in [Requests -> Places]
  /\ cancelled \in SUBSET Requests
  /\ stopPc \in [Stops -> StopPlaces]
  /\ stopAgent \in [Stops -> Agents \cup {Nobody}]
  /\ stopSlot \in [Stops -> Requests \cup {Nobody}]
  /\ stopForce \in [Stops -> BOOLEAN]

Init ==
  /\ runs = [g \in Agents |-> Nobody]
  /\ occ = [g \in Agents |-> Nobody]
  /\ status = [g \in Agents |-> "idle"]
  /\ kind = [r \in Requests |-> "DIRECT"]
  /\ agent = [r \in Requests |-> Nobody]
  /\ caller = [r \in Requests |-> Nobody]
  /\ pc = [r \in Requests |-> "new"]
  /\ cancelled = {}
  /\ stopPc = [k \in Stops |-> "new"]
  /\ stopAgent = [k \in Stops |-> Nobody]
  /\ stopSlot = [k \in Stops |-> Nobody]
  /\ stopForce = [k \in Stops |-> FALSE]

------------------------------------------------------------------------------
(* Helpers.                                                                *)

Active(r) == pc[r] \notin {"new", "done"}

\* ctx.Err() # nil of a request: its own context, or the one it derives from.
Dead(r) == r \in cancelled \/ caller[r] \in cancelled

\* The requests a request has delegated to other agents.
Delegated(r) == {i \in Requests : caller[i] = r}

\* OccupancyBlocksUserChat: a row whose source is not DIRECT.  A scheduled ask
\* goes through AskManaged and inserts a DIRECT row.
BlocksUserChat(g) ==
  occ[g] # Nobody /\ kind[occ[g]] \notin {"DIRECT", "SCHEDULE"}

Goto(r, place) == pc' = [pc EXCEPT ![r] = place]

\* SetManagedAgentStatus through the request's context: dropped once cancelled.
WriteStatus(r, s) ==
  status' = IF Dead(r) THEN status ELSE [status EXCEPT ![agent[r]] = s]

------------------------------------------------------------------------------
(* Arrival of a request.                                                   *)

\* A chat message, a cron tick, a workflow node or a clone's summary.
FirstPlace(k) ==
  IF k = "DIRECT" THEN "check" ELSE IF k = "SCHEDULE" THEN "sched" ELSE "acquire"

Arrive(r, k, g) ==
  /\ pc[r] = "new"
  /\ kind' = [kind EXCEPT ![r] = k]
  /\ agent' = [agent EXCEPT ![r] = g]
  /\ Goto(r, FirstPlace(k))
  /\ UNCHANGED <<runs, occ, status, caller, cancelled, stopVars>>

\* The request's context is cancelled from outside: the browser drops the SSE
\* stream, the workflow run is stopped, the clone job is cancelled.  A cron job
\* runs under context.Background().
Disconnect(r) ==
  /\ Active(r)
  /\ kind[r] \in {"DIRECT", "WORKFLOW", "CLONE_INIT"}
  /\ cancelled' = cancelled \cup {r}
  /\ UNCHANGED <<runs, occ, status, reqVars, pc, stopVars>>

\* Scheduler.runAgent: two separate reads before AskManaged.
SchedStatus(r) ==
  /\ pc[r] = "sched"
  /\ Goto(r, IF status[agent[r]] = "running" THEN "done" ELSE "schedOcc")
  /\ UNCHANGED <<runs, occ, status, reqVars, cancelled, stopVars>>

SchedOccupancy(r) ==
  /\ pc[r] = "schedOcc"
  /\ Goto(r, IF occ[agent[r]] # Nobody THEN "done" ELSE "check")
  /\ UNCHANGED <<runs, occ, status, reqVars, cancelled, stopVars>>

------------------------------------------------------------------------------
(* Taking the occupancy: AskManaged, AskReceptionist (check, clear,        *)
(* acquire), the workflow node and the clone's summary (acquire alone).    *)

\* GetOccupancy; with a dead context the read fails and its error is dropped.
CheckOccupancy(r) ==
  /\ pc[r] = "check"
  /\ Goto(r, IF BlocksUserChat(agent[r]) /\ ~Dead(r) THEN "done" ELSE "clear")
  /\ UNCHANGED <<runs, occ, status, reqVars, cancelled, stopVars>>

\* ClearOccupancy: DELETE ... WHERE agent_id=?, whoever inserted the row.
ClearOccupancy(r) ==
  /\ pc[r] = "clear"
  /\ occ' = IF Dead(r) THEN occ ELSE [occ EXCEPT ![agent[r]] = Nobody]
  /\ Goto(r, "acquire")
  /\ UNCHANGED <<runs, status, reqVars, cancelled, stopVars>>

\* TryAcquireOccupancy: INSERT IGNORE.
Acquire(r) ==
  /\ pc[r] = "acquire"
  /\ ~Dead(r)
  /\ occ[agent[r]] = Nobody
  /\ occ' = [occ EXCEPT ![agent[r]] = r]
  /\ Goto(r, "register")
  /\ UNCHANGED <<runs, status, reqVars, cancelled, stopVars>>

\* The row is there (OccupancyBusyError) or the statement fails.
AcquireFails(r) ==
  /\ pc[r] = "acquire"
  /\ Dead(r) \/ occ[agent[r]] # Nobody
  /\ Goto(r, "done")
  /\ UNCHANGED <<runs, occ, status, reqVars, cancelled, stopVars>>

\* The node has no conversation or its agent became unusable: the deferred
\* release runs.
LeaveUnregistered(r) ==
  /\ pc[r] = "register"
  /\ kind[r] = "WORKFLOW"
  /\ Goto(r, "release")
  /\ UNCHANGED <<runs, occ, status, reqVars, cancelled, stopVars>>

------------------------------------------------------------------------------
(* Running the engine: askManagedCore and, for an @mention, invokeOne.     *)

\* Under runMu: cancel whoever is registered and take the slot.
Register(r) ==
  LET g == agent[r] IN
  /\ pc[r] = "register"
  /\ cancelled' = cancelled \cup ({runs[g]} \ {Nobody})
  /\ runs' = [runs EXCEPT ![g] = r]
  /\ Goto(r, "begin")
  /\ UNCHANGED <<occ, status, reqVars, stopVars>>

\* The status becomes "running" unless the ask is a silent one (holdStatus).
Begin(r) ==
  /\ pc[r] = "begin"
  /\ IF kind[r] = "CLONE_INIT" THEN UNCHANGED status ELSE WriteStatus(r, "running")
  /\ Goto(r, "plan")
  /\ UNCHANGED <<runs, occ, reqVars, cancelled, stopVars>>

\* Mutant: the cleanup is deferred only after the conversation is found.
BeginFailsUncleaned(r) ==
  /\ pc[r] = "begin"
  /\ kind[r] # "WORKFLOW"
  /\ Goto(r, IF kind[r] = "INVOKE" THEN "done" ELSE "release")
  /\ UNCHANGED <<runs, occ, status, reqVars, cancelled, stopVars>>

\* The conversation cannot be created, or the delegated agent is gone.  A
\* workflow node brings its conversation along.
BeginFails(r) ==
  /\ pc[r] = "begin"
  /\ kind[r] # "WORKFLOW"
  /\ Goto(r, "unregister")
  /\ UNCHANGED <<runs, occ, status, reqVars, cancelled, stopVars>>

\* invokeAllParallel starts one goroutine per distinct agent mentioned, itself
\* excluded; a silent ask and a delegated one mention nobody.
Mention(r, i, g) ==
  /\ pc[r] = "plan"
  /\ kind[r] \notin {"CLONE_INIT", "INVOKE"}
  /\ pc[i] = "new"
  /\ g # agent[r]
  /\ \A j \in Delegated(r) : agent[j] # g
  /\ kind' = [kind EXCEPT ![i] = "INVOKE"]
  /\ agent' = [agent EXCEPT ![i] = g]
  /\ caller' = [caller EXCEPT ![i] = r]
  /\ Goto(i, "poll")
  /\ UNCHANGED <<runs, occ, status, cancelled, stopVars>>

\* acquireAgentRun: the slot is taken only when the map has no entry.
TakeFreeSlot(i) ==
  /\ pc[i] \in {"poll", "queue"}
  /\ runs[agent[i]] = Nobody
  /\ runs' = [runs EXCEPT ![agent[i]] = i]
  /\ Goto(i, "begin")
  /\ UNCHANGED <<occ, status, reqVars, cancelled, stopVars>>

SlotBusy(i) ==
  /\ pc[i] = "poll"
  /\ runs[agent[i]] # Nobody
  /\ Goto(i, "announce")
  /\ UNCHANGED <<runs, occ, status, reqVars, cancelled, stopVars>>

\* onWaiting, once: the delegated agent is shown as "waiting", whatever it does.
AnnounceWaiting(i) ==
  /\ pc[i] = "announce"
  /\ status' = [status EXCEPT ![agent[i]] = "waiting"]
  /\ Goto(i, "queue")
  /\ UNCHANGED <<runs, occ, reqVars, cancelled, stopVars>>

\* Mutant: the wait does not derive its context from the caller's.
LeaveQueueOwnContext(i) ==
  /\ pc[i] = "queue"
  /\ i \in cancelled
  /\ Goto(i, "done")
  /\ UNCHANGED <<runs, occ, status, reqVars, cancelled, stopVars>>

\* select { <-ctx.Done() ... }: the wait ends with an error.
LeaveQueue(i) ==
  /\ pc[i] = "queue"
  /\ Dead(i)
  /\ Goto(i, "done")
  /\ UNCHANGED <<runs, occ, status, reqVars, cancelled, stopVars>>

\* wg.Wait() for every delegated request, then the engine process.
StartEngine(r) ==
  /\ pc[r] = "plan"
  /\ \A i \in Delegated(r) : pc[i] = "done"
  /\ Goto(r, "engine")
  /\ UNCHANGED <<runs, occ, status, reqVars, cancelled, stopVars>>

\* The process exits by itself, at its timeout, or because its context died.
EngineEnds(r) ==
  /\ pc[r] = "engine"
  /\ Goto(r, "finish")
  /\ UNCHANGED <<runs, occ, status, reqVars, cancelled, stopVars>>

\* Mutant: the final status is written through the ask's own context.
FinishInContext(r, s) ==
  /\ pc[r] = "finish"
  /\ s \in {"idle", "error"}
  /\ IF kind[r] = "CLONE_INIT" THEN UNCHANGED status ELSE WriteStatus(r, s)
  /\ Goto(r, "unregister")
  /\ UNCHANGED <<runs, occ, reqVars, cancelled, stopVars>>

\* finishManagedAsk, and the end of invokeOne: a cancelled ask counts as ended
\* without an error (applyCancelledAskOutput), a cancelled delegation does not.
Finish(r, s) ==
  /\ pc[r] = "finish"
  /\ s \in {"idle", "error"}
  /\ kind[r] # "INVOKE" /\ Dead(r) => s = "idle"
  /\ status' = IF kind[r] = "CLONE_INIT" THEN status
                                         ELSE [status EXCEPT ![agent[r]] = s]
  /\ Goto(r, "unregister")
  /\ UNCHANGED <<runs, occ, reqVars, cancelled, stopVars>>

\* Mutant: the entry is removed without asking whose it is.
FreedByAnyone(r) == [runs EXCEPT ![agent[r]] = Nobody]

\* The deferred cleanup (releaseAgentRun for a delegation): the entry is removed
\* only if it is still this request's, then the request's own context ends.
FreedBy(r) == [runs EXCEPT ![agent[r]] = IF @ = r THEN Nobody ELSE @]

Unregister(r) ==
  /\ pc[r] = "unregister"
  /\ runs' = FreedBy(r)
  /\ cancelled' = cancelled \cup {r}
  /\ Goto(r, IF kind[r] = "INVOKE" THEN "done" ELSE "release")
  /\ UNCHANGED <<occ, status, reqVars, stopVars>>

\* Mutant: the release goes through the cancelled context of the ask.
ReleaseInContext(r) ==
  /\ pc[r] = "release"
  /\ occ' = IF Dead(r) THEN occ ELSE [occ EXCEPT ![agent[r]] = Nobody]
  /\ Goto(r, "done")
  /\ UNCHANGED <<runs, status, reqVars, cancelled, stopVars>>

\* ReleaseOccupancy under context.WithoutCancel: an unconditional DELETE.
Release(r) ==
  /\ pc[r] = "release"
  /\ occ' = [occ EXCEPT ![agent[r]] = Nobody]
  /\ Goto(r, "done")
  /\ UNCHANGED <<runs, status, reqVars, cancelled, stopVars>>

------------------------------------------------------------------------------
(* StopManaged(g), and the takeover of a conflicting agent by a workflow   *)
(* start (force): the same call followed by one more ClearOccupancy.       *)

StopGoto(k, place) == stopPc' = [stopPc EXCEPT ![k] = place]
StopKeeps == UNCHANGED <<stopAgent, stopSlot, stopForce>>

\* Mutant: no early return when the map has no entry.
StopTakeAny(k, g, force) ==
  /\ stopPc[k] = "new"
  /\ stopAgent' = [stopAgent EXCEPT ![k] = g]
  /\ stopSlot' = [stopSlot EXCEPT ![k] = runs[g]]
  /\ stopForce' = [stopForce EXCEPT ![k] = force]
  /\ StopGoto(k, "cancel")
  /\ runs' = [runs EXCEPT ![g] = Nobody]
  /\ UNCHANGED <<occ, status, reqVars, pc, cancelled>>

\* Under runMu: take the slot out of the map; without one nothing is stopped.
StopTake(k, g, force) ==
  /\ stopPc[k] = "new"
  /\ stopAgent' = [stopAgent EXCEPT ![k] = g]
  /\ stopSlot' = [stopSlot EXCEPT ![k] = runs[g]]
  /\ stopForce' = [stopForce EXCEPT ![k] = force]
  /\ StopGoto(k, IF runs[g] # Nobody THEN "cancel" ELSE IF force THEN "clear" ELSE "done")
  /\ runs' = [runs EXCEPT ![g] = Nobody]
  /\ UNCHANGED <<occ, status, reqVars, pc, cancelled>>

StopCancel(k) ==
  /\ stopPc[k] = "cancel"
  /\ cancelled' = cancelled \cup {stopSlot[k]}
  /\ StopGoto(k, "idle")
  /\ StopKeeps
  /\ UNCHANGED <<runs, occ, status, reqVars, pc>>

StopIdle(k) ==
  /\ stopPc[k] = "idle"
  /\ status' = [status EXCEPT ![stopAgent[k]] = "idle"]
  /\ StopGoto(k, "release")
  /\ StopKeeps
  /\ UNCHANGED <<runs, occ, reqVars, pc, cancelled>>

StopRelease(k) ==
  /\ stopPc[k] = "release"
  /\ occ' = [occ EXCEPT ![stopAgent[k]] = Nobody]
  /\ StopGoto(k, IF stopForce[k] THEN "clear" ELSE "done")
  /\ StopKeeps
  /\ UNCHANGED <<runs, status, reqVars, pc, cancelled>>

StopClear(k) ==
  /\ stopPc[k] = "clear"
  /\ occ' = [occ EXCEPT ![stopAgent[k]] = Nobody]
  /\ StopGoto(k, "done")
  /\ StopKeeps
  /\ UNCHANGED <<runs, status, reqVars, pc, cancelled>>

------------------------------------------------------------------------------
(* The process dies and starts again: goroutines and the map are gone,     *)
(* service.New clears agent_occupancy, managed_agents keeps its status.    *)

Restart ==
  /\ MayRestart
  /\ \E r \in Requests : Active(r)
  /\ runs' = [g \in Agents |-> Nobody]
  /\ occ' = [g \in Agents |-> Nobody]
  /\ pc' = [r \in Requests |-> IF Active(r) THEN "done" ELSE pc[r]]
  /\ stopPc' = [k \in Stops |-> IF stopPc[k] = "new" THEN "new" ELSE "done"]
  /\ StopKeeps
  /\ UNCHANGED <<status, reqVars, cancelled>>

------------------------------------------------------------------------------
\* What a request's goroutine does by itself once it has arrived.
TakeOccupancy(r) ==
  \/ SchedStatus(r) \/ SchedOccupancy(r) \/ CheckOccupancy(r) \/ ClearOccupancy(r)
  \/ Acquire(r) \/ AcquireFails(r) \/ LeaveUnregistered(r)

Queue(r) == TakeFreeSlot(r) \/ SlotBusy(r) \/ AnnounceWaiting(r) \/ LeaveQueue(r)

RunEngine(r) ==
  \/ Register(r) \/ Begin(r) \/ BeginFails(r) \/ StartEngine(r) \/ EngineEnds(r)
  \/ \E s \in {"idle", "error"} : Finish(r, s)
  \/ Unregister(r) \/ Release(r)

Step(r) == TakeOccupancy(r) \/ Queue(r) \/ RunEngine(r)

StopStep(k) == StopCancel(k) \/ StopIdle(k) \/ StopRelease(k) \/ StopClear(k)

Next ==
  \/ \E r \in Requests :
       \/ Step(r)
       \/ Disconnect(r)
       \/ \E k \in Sources, g \in Agents : Arrive(r, k, g)
       \/ \E i \in Requests, g \in Agents : Mention(r, i, g)
  \/ \E k \in Stops :
       \/ StopStep(k)
       \/ \E g \in Agents, force \in BOOLEAN : StopTake(k, g, force)
  \/ Restart

Spec == Init /\ [][Next]_vars

\* Goroutines are scheduled, polls repeat, an engine process ends (by itself, at
\* its timeout or killed by its context).  Nobody is bound to send a request, to
\* mention somebody, to drop a connection or to call stop.
Fairness ==
  /\ \A r \in Requests : WF_vars(Step(r))
  /\ \A k \in Stops : WF_vars(StopStep(k))

FairSpec == Spec /\ Fairness

------------------------------------------------------------------------------
(* Properties.                                                             *)

\* An entry of Service.runs is the slot of a request that is between its
\* registration and its deferred cleanup, for that very agent: a cleanup, a stop
\* or a delegation never leaves the slot of somebody who is gone, which would
\* make every later @mention of the agent wait for ever.
SlotIsRegistered ==
  \A g \in Agents : runs[g] # Nobody =>
    agent[runs[g]] = g /\ pc[runs[g]] \in Registered

\* Somebody in StopManaged holds the request's slot and is about to cancel it.
BeingStopped(r) == \E k \in Stops : stopPc[k] = "cancel" /\ stopSlot[k] = r

\* Two asks of one agent never both run uncancelled: of the requests registered
\* for an agent at most one has a live context, apart from those a StopManaged
\* has taken out of the map and is about to cancel (askManagedCore cancels the
\* old slot, acquireAgentRun waits, a cleanup removes its own slot only).
OneLiveRun ==
  \A q, r \in Requests :
    /\ agent[q] = agent[r]
    /\ {pc[q], pc[r]} \subseteq Registered
    /\ {q, r} \cap cancelled = {}
    /\ ~BeingStopped(q) /\ ~BeingStopped(r)
    => q = r

\* A row of agent_occupancy belongs to a request that has not passed its
\* deferred release, for that agent: whatever is cancelled, stopped or failing,
\* no row outlives its task and blocks the agent for good.
NoLeakedOccupancy ==
  \A g \in Agents : occ[g] # Nobody =>
    agent[occ[g]] = g /\ pc[occ[g]] \in Holding /\ kind[occ[g]] # "INVOKE"

\* As long as the process lives, an agent shown as "running" has a request that
\* is going to write its final status: the scheduler and the clone, which wait
\* for another status, are not held off by an ask that is over.
RunningIsAnswered ==
  ~MayRestart => \A g \in Agents : status[g] = "running" =>
    \E r \in Requests : agent[r] = g /\ pc[r] \in Working /\ kind[r] # "CLONE_INIT"

\* A cancelled request comes to its end, wherever it is: waiting for a busy
\* agent, waiting for the agents it mentioned, or in the engine.
CancelledEnds ==
  \A r \in Requests : (Active(r) /\ Dead(r)) ~> ~Active(r)

------------------------------------------------------------------------------
(* What the documents say and the code does not do.                        *)

\* docs/plan v0.2.25: AskManaged clears a row of its own sort before acquiring,
\* never a WORKFLOW one.
AskSparesWorkflow ==
  [][\A r \in Requests : pc[r] = "clear" /\ pc'[r] = "acquire" /\ occ' # occ =>
       kind[occ[agent[r]]] # "WORKFLOW"]_vars

\* Design v0.2.7, section 4: while an ask holds the run slot of its agent, the
\* agent is occupied.
OccupancyCoversRun ==
  \A g \in Agents : runs[g] # Nobody /\ kind[runs[g]] = "DIRECT"
                    /\ pc[runs[g]] = "engine" => occ[g] # Nobody

\* Design v0.2.2: "waiting" is shown for an agent that is queued for.  It is written over the
\* status of the ask under way, and a request that leaves the queue does not take it back.
WaitingIsQueued ==
  \A g \in Agents : status[g] = "waiting" =>
    \E r \in Requests : agent[r] = g /\ pc[r] \in {"queue", "begin"} \cup Working

\* Plan v0.2.2: a busy agent that is mentioned is queued for, and in the end all
\* delegations complete.  Two asks that mention each other's agents never do:
\* each keeps its own slot while it waits for the other's.
QueuedOn(q, r) == \E i \in Delegated(q) : agent[i] = agent[r] /\ pc[i] = "queue"

NoMutualWait ==
  \A q, r \in Requests :
    /\ {agent[q], agent[r]} \subseteq Agents
    /\ runs[agent[q]] = q
    /\ runs[agent[r]] = r
    => ~(QueuedOn(q, r) /\ QueuedOn(r, q))

==============================================================================
