---------------------------- MODULE WorkflowEngine ----------------------------
(***************************************************************************)
(* One run of a workflow: the goroutines that drive it through the graph   *)
(* wave by wave, the tasks of a wave, the calls of the administrator that  *)
(* stop, review, retry and resume it, and the restart of the process       *)
(* (service/workflow_engine.go, workflow_recover.go, store/workflow.go).   *)
(*                                                                         *)
(* A driver is one goroutine of runQueueWaves with its context. The engine *)
(* keeps the cancel function of one driver per run (WF.runs); nothing      *)
(* keeps a run from having several drivers. An attempt of a node is a row; *)
(* rows are listed in the order of their insertion.                        *)
(*                                                                         *)
(* A statement through the context of a cancelled driver has no effect. A  *)
(* call's own context is never cancelled here.                             *)
(***************************************************************************)
EXTENDS ResumePlan

CONSTANTS
  Drivers,        \* the goroutines that drive the run, each used once
  Ops,            \* the calls of the administrator, each used once
  Loop,           \* the recovery window's loop, which makes calls of its own
  OpKinds,        \* the calls that are made
  Retried,        \* the nodes the administrator retries
  Nobody,         \* no driver
  MayRestart      \* whether the process may restart

Callers == Ops \cup {Loop}

ASSUME EngineAssumption ==
  /\ Nobody \notin Drivers
  /\ Loop \notin Ops
  /\ OpKinds \subseteq {"start", "stop", "approve", "reject", "abort", "retry", "resume"}
  /\ Retried \subseteq Node
  /\ MayRestart \in BOOLEAN

VARIABLES
  run,            \* the row of workflow_runs: [status, fail], fail the fail_node_id
  rows,           \* the rows of node_executions
  entry,          \* WF.runs[runID]: the driver whose cancel function is registered
  cancelled,      \* the drivers whose context is cancelled
  driver,         \* what each goroutine knows and where it is
  op,             \* what each call knows and where it is
  recovering      \* whether the recovery window is open

vars == <<run, rows, entry, cancelled, driver, op, recovering>>

------------------------------------------------------------------------------
Active == {"pending", "running", "waiting"}

Statuses == Active \cup {"none", "success", "failed", "stopped", "waiting_recovery", "interrupted"}

RowStatuses == {"running", "waiting", "success", "failed", "stopped", "interrupted"}

Attempts == [node : Node, status : RowStatuses, out : Outputs]

Places == {"unused", "start", "started", "load", "seeded", "queue", "announce", "wave",
           "leaving", "done"}

Tasks == {"idle", "new", "inserted", "asking", "done", "true", "false", "error", "waiting"}

Steps == {"new", "create", "look", "cancel", "list", "mark", "read", "write", "status", "find",
          "answer", "decide", "abort_row", "abort_run", "again", "busy", "plan", "close", "reopen",
          "spawn", "done"}

Reviews == {"approve", "reject", "abort"}

NewDriver ==
  [place |-> "unused", queue |-> <<>>, visited |-> {}, wave |-> <<>>,
   task |-> [n \in Node |-> "idle"], row |-> [n \in Node |-> 0]]

GoneDriver == [NewDriver EXCEPT !.place = "done"]

\* found are the rows a call has listed, row the review it answers; starts and seed are
\* what it hands to the goroutine it starts.
NewOp ==
  [kind |-> "none", pc |-> "new", target |-> Nobody, found |-> {}, row |-> 0,
   starts |-> <<>>, seed |-> {}]

GoneOp == [NewOp EXCEPT !.pc = "done"]

Init ==
  /\ run = [status |-> "none", fail |-> ""]
  /\ rows = <<>>
  /\ entry = Nobody
  /\ cancelled = {}
  /\ driver = [d \in Drivers |-> NewDriver]
  /\ op = [o \in Callers |-> NewOp]
  /\ recovering = FALSE

------------------------------------------------------------------------------
(* The tables.                                                             *)

\* The latest attempt of a node: the last row, for attempts are numbered as they come.
Latest(n) == SelectLastInSeq(rows, LAMBDA r : r.node = n)

Snapshot(n) ==
  IF Latest(n) = 0 THEN [status |-> "none", out |-> ""]
  ELSE [status |-> rows[Latest(n)].status, out |-> rows[Latest(n)].out]

Succeeded(n) == Snapshot(n).status = "success"

\* UpdateWorkflowRunStatus, whatever the status was.
SetRun(status, fail) == run' = [status |-> status, fail |-> fail]

\* UpdateNodeExecution, whatever the status was.
SetRow(i, status, out) == rows' = [rows EXCEPT ![i].status = status, ![i].out = out]

\* The same statements through the context of a driver.
DriverSetsRun(d, status, fail) == IF d \in cancelled THEN UNCHANGED run ELSE SetRun(status, fail)

DriverSetsRow(d, i, status, out) ==
  IF d \in cancelled THEN UNCHANGED rows ELSE SetRow(i, status, out)

AddRow(n, status) == rows' = Append(rows, [node |-> n, status |-> status, out |-> ""])

------------------------------------------------------------------------------
(* A driver.                                                               *)

Live(d) == driver[d].place \notin {"unused", "done"}

Move(d, place) == driver' = [driver EXCEPT ![d].place = place]

At(d, place) == driver[d].place = place

\* execute: the start node's attempt, and then the queue of its successors.
StartInserts(d) ==
  /\ At(d, "start")
  /\ IF d \in cancelled
     THEN Move(d, "leaving") /\ UNCHANGED rows
     ELSE /\ AddRow(StartNode, "running")
          /\ driver' = [driver EXCEPT ![d].place = "started", ![d].row[StartNode] = Len(rows) + 1]
  /\ UNCHANGED <<run, entry, cancelled, op, recovering>>

StartEnds(d) ==
  /\ At(d, "started")
  /\ DriverSetsRow(d, driver[d].row[StartNode], "success", "full")
  /\ IF d \in cancelled
     THEN Move(d, "leaving")
     ELSE driver' = [driver EXCEPT ![d].place = "queue",
                                   ![d].queue = Successors(StartNode),
                                   ![d].visited = {StartNode},
                                   ![d].row = NewDriver.row]
  /\ UNCHANGED <<run, entry, cancelled, op, recovering>>

\* executeFromWithSeed: what counts as visited are the nodes of the plan, or without a
\* plan every node whose latest attempt succeeded with an output.
Loads(d) ==
  /\ driver[d].place \in {"load", "seeded"}
  /\ IF d \in cancelled
     THEN Move(d, "leaving")
     ELSE driver' = [driver EXCEPT
            ![d].place = "queue",
            ![d].visited = IF At(d, "seeded") THEN @
                           ELSE {n \in Node : Succeeded(n) /\ Snapshot(n).out # ""}]
  /\ UNCHANGED <<run, rows, entry, cancelled, op, recovering>>

\* mergeReady stops at the first node that has not succeeded; those before it count as
\* visited from then on.
MergeReady(m) == \A n \in ToSet(Needs(m)) : Succeeded(n)

MergeVisits(m) ==
  {Needs(m)[i] : i \in {j \in DOMAIN Needs(m) : \A k \in 1..j : Succeeded(Needs(m)[k])}}

\* appendUniqueQueue: what is visited or queued is left out.
Enqueue(queue, visited, next) ==
  queue \o AtPlaces(next, {i \in DOMAIN next :
             next[i] \notin visited \cup ToSet(queue) \cup {next[j] : j \in 1..(i - 1)}})

\* dedupeStrings; an id that is no node is passed over.
Known(d) ==
  LET queue == driver[d].queue
  IN AtPlaces(queue, {i \in DOMAIN queue : queue[i] \in Node \ {queue[j] : j \in 1..(i - 1)}})

\* Mutant: a merge does not wait.
AnyIsReady(n) == n \in Node

IsReady(n) == Kind[n] = "merge" => MergeReady(n)

Ready(d) == AtPlaces(Known(d), {i \in DOMAIN Known(d) : IsReady(Known(d)[i])})

Deferred(d) == AtPlaces(Known(d), {i \in DOMAIN Known(d) : ~IsReady(Known(d)[i])})

MergesOf(d) == {n \in ToSet(Known(d)) : Kind[n] = "merge"}

\* The top of runQueueWaves: every node of the queue that need not wait goes into the
\* next wave.
TakeWave(d) ==
  /\ At(d, "queue")
  /\ d \notin cancelled
  /\ Ready(d) # <<>>
  /\ driver' = [driver EXCEPT ![d].place = "announce",
                              ![d].wave = Ready(d),
                              ![d].queue = Deferred(d),
                              ![d].visited = @ \cup UNION {MergeVisits(m) : m \in MergesOf(d)}]
  /\ UNCHANGED <<run, rows, entry, cancelled, op, recovering>>

\* Nothing can go on, for merges wait for what nobody will do; or nothing is left; or
\* the context is cancelled and what the driver says of it is lost.
RunsDry(d) ==
  /\ At(d, "queue")
  /\ d \in cancelled \/ Ready(d) = <<>>
  /\ IF Deferred(d) # <<>>
     THEN DriverSetsRun(d, "failed", Head(Deferred(d)))
     ELSE DriverSetsRun(d, "success", "")
  /\ Move(d, "leaving")
  /\ UNCHANGED <<rows, entry, cancelled, op, recovering>>

Announce(d) ==
  /\ At(d, "announce")
  /\ DriverSetsRun(d, "running", "")
  /\ driver' = [driver EXCEPT
        ![d].place = "wave",
        ![d].task = [n \in Node |-> IF n \in ToSet(driver[d].wave) THEN "new" ELSE "idle"]]
  /\ UNCHANGED <<rows, entry, cancelled, op, recovering>>

------------------------------------------------------------------------------
(* The tasks of a wave.                                                    *)

Doing(d, n, task) == At(d, "wave") /\ driver[d].task[n] = task

TaskGoes(d, n, task) == driver' = [driver EXCEPT ![d].task[n] = task]

\* The attempt's row. A review then waits for its reviewer.
Insert(d, n) ==
  /\ Doing(d, n, "new")
  /\ Kind[n] # "start"
  /\ IF d \in cancelled
     THEN TaskGoes(d, n, "error") /\ UNCHANGED rows
     ELSE /\ AddRow(n, CASE Kind[n] = "human_review"         -> "waiting"
                         [] Kind[n] \in {"parallel", "merge"} -> "success"
                         [] OTHER                             -> "running")
          /\ driver' = [driver EXCEPT
                ![d].task[n] = IF Kind[n] = "human_review" THEN "waiting" ELSE "inserted",
                ![d].row[n] = Len(rows) + 1]
  /\ UNCHANGED <<run, entry, cancelled, op, recovering>>

\* The employee is gone or cannot be used; a start node is run by execute only.
Refuse(d, n) ==
  /\ Doing(d, n, "new")
  /\ Kind[n] \in {"agent", "start"}
  /\ TaskGoes(d, n, "error")
  /\ UNCHANGED <<run, rows, entry, cancelled, op, recovering>>

\* The occupancy row is taken and the conversation attached.
Occupy(d, n) ==
  /\ Doing(d, n, "inserted")
  /\ Kind[n] = "agent"
  /\ d \notin cancelled
  /\ SetRow(driver[d].row[n], "running", "full")
  /\ TaskGoes(d, n, "asking")
  /\ UNCHANGED <<run, entry, cancelled, op, recovering>>

\* Mutant: the attempt of a busy employee is left as it is.
BusyIsNotRecorded(d, n) ==
  /\ Doing(d, n, "inserted")
  /\ Kind[n] = "agent"
  /\ TaskGoes(d, n, "error")
  /\ UNCHANGED <<run, rows, entry, cancelled, op, recovering>>

\* The employee is busy; through a cancelled context the insertion fails as well.
Busy(d, n) ==
  /\ Doing(d, n, "inserted")
  /\ Kind[n] = "agent"
  /\ DriverSetsRow(d, driver[d].row[n], "failed", "bare")
  /\ TaskGoes(d, n, "error")
  /\ UNCHANGED <<run, entry, cancelled, op, recovering>>

\* The ask returns a message, which may be empty. Its result is written through the
\* driver's context.
Replies(d, n) ==
  /\ Doing(d, n, "asking")
  /\ \E out \in {"bare", "full"} : DriverSetsRow(d, driver[d].row[n], "success", out)
  /\ TaskGoes(d, n, "done")
  /\ UNCHANGED <<run, entry, cancelled, op, recovering>>

\* The ask returns an error, which is written in any case.
Errs(d, n) ==
  /\ Doing(d, n, "asking")
  /\ SetRow(driver[d].row[n], IF d \in cancelled THEN "stopped" ELSE "failed", "bare")
  /\ TaskGoes(d, n, "error")
  /\ UNCHANGED <<run, entry, cancelled, op, recovering>>

\* The second statement of every other node.
Complete(d, n) ==
  /\ Doing(d, n, "inserted")
  /\ Kind[n] \in {"parallel", "merge", "end"}
  /\ DriverSetsRow(d, driver[d].row[n], "success", IF Kind[n] = "parallel" THEN "bare" ELSE "full")
  /\ TaskGoes(d, n, "done")
  /\ UNCHANGED <<run, entry, cancelled, op, recovering>>

\* A condition's expression comes to true or false, or cannot be evaluated.
Evaluate(d, n) ==
  /\ Doing(d, n, "inserted")
  /\ Kind[n] = "condition"
  /\ \/ \E result \in {"true", "false"} :
          /\ DriverSetsRow(d, driver[d].row[n], "success", "full")
          /\ TaskGoes(d, n, result)
     \/ /\ DriverSetsRow(d, driver[d].row[n], "failed", "bare")
        /\ TaskGoes(d, n, "error")
  /\ UNCHANGED <<run, entry, cancelled, op, recovering>>

TaskStep(d) ==
  \E n \in Node :
    \/ Insert(d, n) \/ Refuse(d, n) \/ Occupy(d, n) \/ Busy(d, n)
    \/ Replies(d, n) \/ Errs(d, n) \/ Complete(d, n) \/ Evaluate(d, n)

------------------------------------------------------------------------------
(* The end of a wave.                                                      *)

\* Where a task that is done leads.
LeadsTo(d, n) ==
  CASE Kind[n] = "condition" -> ConditionNext(n, driver[d].task[n] = "true")
    [] Kind[n] = "end"       -> <<>>
    [] OTHER                 -> Successors(n)

\* The results are taken in the order of the wave up to the first that settles the run.
Settles(d, n) == driver[d].task[n] \in {"error", "waiting"} \/ Kind[n] = "end"

Settling(d) == SelectInSeq(driver[d].wave, LAMBDA n : Settles(d, n))

\* The nodes visited once the first k results are taken, and the queue once all are.
VisitedBy(d, k) == driver[d].visited \cup {driver[d].wave[j] : j \in 1..k}

Taken(d) ==
  LET wave == driver[d].wave
      queue[k \in 0..Len(wave)] ==
        IF k = 0 THEN driver[d].queue
        ELSE Enqueue(queue[k - 1], VisitedBy(d, k), LeadsTo(d, wave[k]))
  IN queue[Len(wave)]

WaveDone(d) ==
  At(d, "wave") /\ \A n \in ToSet(driver[d].wave) : driver[d].task[n] \notin {"new", "inserted", "asking"}

GoOn(d) ==
  /\ WaveDone(d)
  /\ Settling(d) = 0
  /\ driver' = [driver EXCEPT ![d].place = "queue",
                              ![d].queue = Taken(d),
                              ![d].visited = VisitedBy(d, Len(driver[d].wave)),
                              ![d].wave = <<>>,
                              ![d].task = NewDriver.task,
                              ![d].row = NewDriver.row]
  /\ UNCHANGED <<run, rows, entry, cancelled, op, recovering>>

\* A failure ends the run, a review suspends it, an end node makes it a success; what
\* the later results of the wave lead to is forgotten.
Settle(d) ==
  /\ WaveDone(d)
  /\ Settling(d) # 0
  /\ LET n == driver[d].wave[Settling(d)]
     IN CASE driver[d].task[n] = "error"   -> DriverSetsRun(d, "failed", n)
          [] driver[d].task[n] = "waiting" -> DriverSetsRun(d, "waiting", "")
          [] OTHER                         -> DriverSetsRun(d, "success", "")
  /\ Move(d, "leaving")
  /\ UNCHANGED <<rows, entry, cancelled, op, recovering>>

\* Mutant: the entry is left registered.
LeavesEntry(d) ==
  /\ At(d, "leaving")
  /\ cancelled' = cancelled \ {d}
  /\ driver' = [driver EXCEPT ![d] = GoneDriver]
  /\ UNCHANGED <<run, rows, entry, op, recovering>>

\* The deferred function: the run's entry is deleted, whoever registered it.
Leave(d) ==
  /\ At(d, "leaving")
  /\ entry' = Nobody
  /\ cancelled' = cancelled \ {d}
  /\ driver' = [driver EXCEPT ![d] = GoneDriver]
  /\ UNCHANGED <<run, rows, op, recovering>>

DriverStep(d) ==
  \/ StartInserts(d) \/ StartEnds(d) \/ Loads(d) \/ TakeWave(d) \/ RunsDry(d) \/ Announce(d)
  \/ TaskStep(d) \/ GoOn(d) \/ Settle(d) \/ Leave(d)

------------------------------------------------------------------------------
(* The calls of the administrator.                                         *)

On(o, pc) == op[o].pc = pc

OpGoes(o, pc) == op' = [op EXCEPT ![o].pc = pc]

OpEnds(o) == op' = [op EXCEPT ![o] = GoneOp]

UnderWay == {o \in Callers : op[o].pc \notin {"new", "done"}}

\* The bound on goroutines: a call that may start one comes in only if one is left for it.
Starting == {o \in UnderWay : op[o].kind \notin {"stop", "abort"}}

Unused == {d \in Drivers : driver[d].place = "unused"}

GoroutineLeft == Cardinality(Starting) < Cardinality(Unused)

FirstStep(kind) ==
  CASE kind = "start" -> "create" [] kind = "stop" -> "look" [] OTHER -> "status"

\* Which of the unused calls and goroutines is taken does not matter.
NewCall == CHOOSE o \in Ops : On(o, "new")

NewGoroutine == CHOOSE d \in Unused : TRUE

\* A call comes in; the administrator can only name a run that has been created.
Call(o, kind) ==
  /\ On(o, "new")
  /\ o = NewCall
  /\ kind \in OpKinds
  /\ IF kind = "start" THEN run.status = "none" /\ UnderWay = {} ELSE run.status # "none"
  /\ kind \in {"stop", "abort"} \/ GoroutineLeft
  /\ op' = [op EXCEPT ![o].kind = kind, ![o].pc = FirstStep(kind)]
  /\ UNCHANGED <<run, rows, entry, cancelled, driver, recovering>>

\* StartWorkflowRun creates the run and then, like the other calls that let it go on,
\* writes "running", registers a new goroutine and starts it.
Create(o) ==
  /\ On(o, "create")
  /\ SetRun("pending", "")
  /\ OpGoes(o, "reopen")
  /\ UNCHANGED <<rows, entry, cancelled, driver, recovering>>

Reopen(o) ==
  /\ On(o, "reopen")
  /\ SetRun("running", "")
  /\ OpGoes(o, "spawn")
  /\ UNCHANGED <<rows, entry, cancelled, driver, recovering>>

Spawn(o) ==
  /\ On(o, "spawn")
  /\ Unused # {}
  /\ entry' = NewGoroutine
  /\ driver' = [driver EXCEPT
        ![NewGoroutine].place = CASE op[o].kind = "start" -> "start"
                                  [] op[o].kind = "resume" -> "seeded"
                                  [] OTHER -> "load",
        ![NewGoroutine].queue = op[o].starts,
        ![NewGoroutine].visited = op[o].seed]
  /\ OpEnds(o)
  /\ UNCHANGED <<run, rows, cancelled, recovering>>

\* StopWorkflowRun and the abort of a review: the registered driver is looked up, its
\* context cancelled, the rows listed, those that are under way marked.
Look(o) ==
  /\ On(o, "look")
  /\ op' = [op EXCEPT ![o].pc = IF entry = Nobody THEN "list" ELSE "cancel", ![o].target = entry]
  /\ UNCHANGED <<run, rows, entry, cancelled, driver, recovering>>

Cancel(o) ==
  /\ On(o, "cancel")
  /\ cancelled' = IF Live(op[o].target) THEN cancelled \cup {op[o].target} ELSE cancelled
  /\ op' = [op EXCEPT ![o].pc = "list", ![o].target = Nobody]
  /\ UNCHANGED <<run, rows, entry, driver, recovering>>

List(o) ==
  /\ On(o, "list")
  /\ op' = [op EXCEPT ![o].pc = "mark",
                      ![o].found = {i \in DOMAIN rows : rows[i].status = "running"}]
  /\ UNCHANGED <<run, rows, entry, cancelled, driver, recovering>>

Mark(o) ==
  /\ On(o, "mark")
  /\ rows' = [i \in DOMAIN rows |->
        IF i \in op[o].found THEN [rows[i] EXCEPT !.status = "stopped", !.out = "bare"] ELSE rows[i]]
  /\ op' = [op EXCEPT ![o].pc = IF op[o].kind = "stop" THEN "read" ELSE "abort_row",
                      ![o].found = {}]
  /\ UNCHANGED <<run, entry, cancelled, driver, recovering>>

\* Mutant: a run that is cancelled is expected to say so itself.
ReadsOnly(o) ==
  /\ On(o, "read")
  /\ OpEnds(o)
  /\ UNCHANGED <<run, rows, entry, cancelled, driver, recovering>>

\* A run that has ended stays as it is.
Read(o) ==
  /\ On(o, "read")
  /\ IF run.status \in {"success", "failed", "stopped", "interrupted"} THEN OpEnds(o) ELSE OpGoes(o, "write")
  /\ UNCHANGED <<run, rows, entry, cancelled, driver, recovering>>

Write(o) ==
  /\ On(o, "write")
  /\ SetRun("stopped", run.fail)
  /\ OpEnds(o)
  /\ UNCHANGED <<rows, entry, cancelled, driver, recovering>>

AbortRow(o) ==
  /\ On(o, "abort_row")
  /\ SetRow(op[o].row, "stopped", "bare")
  /\ OpGoes(o, "abort_run")
  /\ UNCHANGED <<run, entry, cancelled, driver, recovering>>

AbortRun(o) ==
  /\ On(o, "abort_run")
  /\ SetRun("stopped", rows[op[o].row].node)
  /\ OpEnds(o)
  /\ UNCHANGED <<rows, entry, cancelled, driver, recovering>>

\* Every call but the start and the stop first asks whether the run's status allows it.
Allows(kind) ==
  CASE kind \in Reviews  -> run.status = "waiting"
    [] kind = "resume"   -> run.status \in {"waiting_recovery", "interrupted"}
    [] OTHER             -> run.status \notin Active

Status(o) ==
  /\ On(o, "status")
  /\ IF ~Allows(op[o].kind) THEN OpEnds(o)
     ELSE OpGoes(o, CASE op[o].kind \in Reviews -> "find" [] op[o].kind = "resume" -> "busy"
                      [] OTHER -> "again")
  /\ UNCHANGED <<run, rows, entry, cancelled, driver, recovering>>

\* RetryWorkflowNode retries the node it is given, RetryWorkflowRun the one the run
\* failed at, if there is one.
Again(o) ==
  /\ On(o, "again")
  /\ \E n \in Retried \cup {run.fail} :
       IF n = "" THEN OpEnds(o) ELSE op' = [op EXCEPT ![o].pc = "reopen", ![o].starts = <<n>>]
  /\ UNCHANGED <<run, rows, entry, cancelled, driver, recovering>>

\* ReviewWorkflowRun answers the last review that waits.
Waiting == SelectLastInSeq(rows, LAMBDA r : r.status = "waiting")

Find(o) ==
  /\ On(o, "find")
  /\ IF Waiting = 0
     THEN OpEnds(o)
     ELSE op' = [op EXCEPT ![o].row = Waiting,
                           ![o].pc = IF op[o].kind = "abort" THEN "look" ELSE "answer"]
  /\ UNCHANGED <<run, rows, entry, cancelled, driver, recovering>>

Answer(o) ==
  /\ On(o, "answer")
  /\ SetRow(op[o].row, IF op[o].kind = "approve" THEN "success" ELSE "failed", "bare")
  /\ OpGoes(o, "decide")
  /\ UNCHANGED <<run, entry, cancelled, driver, recovering>>

\* The run goes on from the node the answer leads to; if it leads nowhere the run ends.
Decide(o) ==
  /\ On(o, "decide")
  /\ LET n        == rows[op[o].row].node
         approved == op[o].kind = "approve"
         next     == IF approved THEN ApproveNext(n) ELSE RejectNext(n)
     IN IF next # ""
        THEN op' = [op EXCEPT ![o].pc = "reopen", ![o].starts = <<next>>] /\ UNCHANGED run
        ELSE OpEnds(o) /\ IF approved THEN SetRun("success", "") ELSE SetRun("failed", n)
  /\ UNCHANGED <<rows, entry, cancelled, driver, recovering>>

\* ResumeWorkflowRun, called by the administrator or by the recovery loop.
AskBusy(o) ==
  /\ On(o, "busy")
  /\ IF entry = Nobody THEN OpGoes(o, "plan") ELSE OpEnds(o)
  /\ UNCHANGED <<run, rows, entry, cancelled, driver, recovering>>

\* Mutant: the output of a node that has to run again is handed over all the same.
PlanKeepsOutputs(o) ==
  /\ On(o, "plan")
  /\ LET latest == [n \in Node |-> Snapshot(n)]
     IN \E roots \in Roots(latest) :
          op' = [op EXCEPT ![o].pc = IF roots = <<>> THEN "close" ELSE "reopen",
                           ![o].starts = roots,
                           ![o].seed = Checked(latest)]
  /\ UNCHANGED <<run, rows, entry, cancelled, driver, recovering>>

Plan(o) ==
  /\ On(o, "plan")
  /\ LET latest == [n \in Node |-> Snapshot(n)]
     IN \E roots \in Roots(latest) :
          op' = [op EXCEPT ![o].pc = IF roots = <<>> THEN "close" ELSE "reopen",
                           ![o].starts = roots,
                           ![o].seed = Reusable(latest)]
  /\ UNCHANGED <<run, rows, entry, cancelled, driver, recovering>>

\* Nothing is left to do.
Close(o) ==
  /\ On(o, "close")
  /\ SetRun(IF \E n \in op[o].seed : Kind[n] = "end" THEN "success" ELSE "interrupted", "")
  /\ OpEnds(o)
  /\ UNCHANGED <<rows, entry, cancelled, driver, recovering>>

OpStep(o) ==
  \/ Create(o) \/ Reopen(o) \/ Spawn(o)
  \/ Look(o) \/ Cancel(o) \/ List(o) \/ Mark(o) \/ Read(o) \/ Write(o) \/ AbortRow(o) \/ AbortRun(o)
  \/ Status(o) \/ Again(o) \/ Find(o) \/ Answer(o) \/ Decide(o) \/ AskBusy(o) \/ Plan(o) \/ Close(o)

------------------------------------------------------------------------------
(* The restart and the recovery window.                                    *)

\* Mutant: what was under way is marked with a status that nobody knows.
RestartMisnames ==
  /\ MayRestart
  /\ run.status # "none"
  /\ run' = IF run.status \in Active THEN [run EXCEPT !.status = "recovering"] ELSE run
  /\ entry' = Nobody
  /\ cancelled' = {}
  /\ driver' = [d \in Drivers |-> IF At(d, "unused") THEN NewDriver ELSE GoneDriver]
  /\ op' = [o \in Callers |-> IF o = Loop \/ On(o, "new") THEN NewOp ELSE GoneOp]
  /\ recovering' = TRUE
  /\ UNCHANGED rows

\* The process dies with its goroutines. service.New then marks the run and the rows
\* that were under way and opens the recovery window.
Restart ==
  /\ MayRestart
  /\ run.status # "none"
  /\ run' = IF run.status \in Active THEN [run EXCEPT !.status = "waiting_recovery"] ELSE run
  /\ rows' = [i \in DOMAIN rows |->
        IF rows[i].status \in Active THEN [rows[i] EXCEPT !.status = "interrupted"] ELSE rows[i]]
  /\ entry' = Nobody
  /\ cancelled' = {}
  /\ driver' = [d \in Drivers |-> IF At(d, "unused") THEN NewDriver ELSE GoneDriver]
  /\ op' = [o \in Callers |-> IF o = Loop \/ On(o, "new") THEN NewOp ELSE GoneOp]
  /\ recovering' = TRUE

LoopRests == op[Loop].pc \in {"new", "done"}

\* The loop resumes every run that waits for it, again and again.
LoopResumes ==
  /\ recovering
  /\ LoopRests
  /\ run.status = "waiting_recovery"
  /\ GoroutineLeft
  /\ op' = [op EXCEPT ![Loop] = [NewOp EXCEPT !.kind = "resume", !.pc = "status"]]
  /\ UNCHANGED <<run, rows, entry, cancelled, driver, recovering>>

\* Mutant: at the end of the window the loop only stops.
WindowOnlyEnds ==
  /\ recovering
  /\ LoopRests
  /\ recovering' = FALSE
  /\ UNCHANGED <<run, rows, entry, cancelled, driver, op>>

\* After three minutes it gives up.
WindowEnds ==
  /\ recovering
  /\ LoopRests
  /\ recovering' = FALSE
  /\ run' = IF run.status = "waiting_recovery" THEN [run EXCEPT !.status = "interrupted"] ELSE run
  /\ UNCHANGED <<rows, entry, cancelled, driver, op>>

Next ==
  \/ \E d \in Drivers : DriverStep(d)
  \/ \E o \in Callers : OpStep(o)
  \/ \E o \in Ops, kind \in OpKinds : Call(o, kind)
  \/ LoopResumes
  \/ WindowEnds
  \/ Restart

Spec == Init /\ [][Next]_vars

\* Some goroutine that can go on does, and so does some call; an ask comes to an end; the
\* window's three minutes pass. There is no need to ask it of each of them.
Fairness ==
  /\ WF_vars(\E d \in Drivers : DriverStep(d))
  /\ WF_vars(\E o \in Callers : OpStep(o))
  /\ WF_vars(WindowEnds)

FairSpec == Spec /\ Fairness

------------------------------------------------------------------------------
TypeOK ==
  /\ run \in [status : Statuses, fail : Node \cup {""}]
  /\ rows \in Seq(Attempts)
  /\ entry \in Drivers \cup {Nobody}
  /\ cancelled \subseteq Drivers
  /\ driver \in [Drivers ->
       [place : Places, queue : Seq(Handles), visited : SUBSET Node, wave : Seq(Node),
        task : [Node -> Tasks], row : [Node -> Nat]]]
  /\ op \in [Callers ->
       [kind : {"none", "start", "stop", "retry", "resume"} \cup Reviews, pc : Steps,
        target : Drivers \cup {Nobody}, found : SUBSET (DOMAIN rows), row : {0} \cup DOMAIN rows,
        starts : Seq(Handles), seed : SUBSET Node]]
  /\ recovering \in BOOLEAN

\* The registered cancel function is that of a goroutine that has not left: the deferred
\* function of runs (workflow_engine.go:69) leaves no entry behind, on no path. Were one
\* left, ResumeWorkflowRun would refuse the run for ever and a stop would cancel nothing.
EntryIsLive == entry # Nobody => Live(entry)

\* A row that says "running" has a task that works on it, or a stop that is going to mark
\* it: the statements that fail in a cancelled context leave no row behind, for whoever
\* cancels lists the rows afterwards (workflow_engine.go:117-144).
Works(d, i) == \E n \in Node : driver[d].row[n] = i /\ driver[d].task[n] \in {"inserted", "asking"}

Starts(d, i) == At(d, "started") /\ driver[d].row[StartNode] = i

WillMark(o, i) == On(o, "list") \/ (On(o, "mark") /\ i \in op[o].found)

RowIsWorked ==
  \A i \in DOMAIN rows : rows[i].status = "running" =>
    \/ \E d \in Drivers : Works(d, i) \/ Starts(d, i)
    \/ \E o \in Callers : WillMark(o, i)

\* A merge has a successful attempt of every node it waits for when its own is inserted
\* (mergeReady), in whatever order the branches end and whatever was recovered. A stop or
\* a late answer to a review may take such a success back between the wave's choice and the
\* insertion: this is about a run that nobody stops and nobody reviews.
MergeHasInputs ==
  \A i \in DOMAIN rows : Kind[rows[i].node] = "merge" =>
    \A n \in ToSet(Needs(rows[i].node)) :
      \E j \in 1..(i - 1) : rows[j].node = n /\ rows[j].status = "success"

\* A graph of forks and merges: ranks fall along the edges; one node leads to a node that is
\* no merge, and a merge waits for all that lead to it, and for nothing behind it; whatever a
\* node comes to, it leads on, unless it is an end.
ForkJoin(rank) ==
  /\ rank \in [Node -> Nat]
  /\ Sources(StartNode) = {}
  /\ \A n \in Node :
       /\ \A p \in Sources(n) : rank[n] < rank[p]
       /\ IF Kind[n] = "merge"
          THEN Sources(n) \subseteq ToSet(Needs(n)) /\ \A p \in ToSet(Needs(n)) : rank[n] < rank[p]
          ELSE \A p, q \in Sources(n) : p = q
       /\ Kind[n] \notin {"condition", "end"} => Successors(n) # <<>>
       /\ Kind[n] = "condition" => \A ok \in BOOLEAN : ConditionNext(n, ok) # <<>>

\* A run that nobody stops or retries is a success only if an end node was executed:
\* neither a queue that runs dry nor a plan without roots (workflow_recover.go:248) closes it
\* before.  It holds of graphs of forks and merges, and not of every graph: with
\* start -> a -> end and start -> b -> c -> a, a process that dies in b after a's success
\* plans b alone; c has no attempt, so a counts as complete, and the queue runs dry at a.
SuccessReachedEnd ==
  run.status = "success" => \E n \in Node : Kind[n] = "end" /\ Snapshot(n) = [status |-> "success", out |-> "full"]

\* Unless the process restarts again and again, "running" is not for ever: every way a
\* driver leaves writes the run's status, or is that of a driver whose cancellation is
\* followed by the "stopped" of whoever cancelled it.
RunSettles ==
  <>[][~Restart]_vars => (run.status = "running" ~> run.status # "running")

\* The recovery window gets every run out of "waiting_recovery".
RecoveryEnds ==
  <>[][~Restart]_vars => (run.status = "waiting_recovery" ~> run.status # "waiting_recovery")

------------------------------------------------------------------------------
(* What the comments and documents say and the code does not do.           *)

\* "Human Review: ... a rejection is a new attempt from reject_target_node_id" and "a
\* retry runs the node and what follows it again" (workflow_engine.go:879): a run whose
\* review was rejected is not a success before the review was repeated.
RejectedIsNotSuccess ==
  run.status = "success" => \A n \in Node : Kind[n] = "human_review" => Snapshot(n).status # "failed"

\* "If a predecessor has to run again a successful successor cannot be reused either"
\* (workflow_recover.go:96): in a success the attempt of a node is newer than those of
\* the nodes that lead to it. What a condition leads to may be a branch it did not take.
SuccessIsFresh ==
  run.status = "success" =>
    \A e \in ToSet(Edges) :
      Kind[e.source] # "condition" /\ Succeeded(e.source) /\ Succeeded(e.target)
      => Latest(e.source) < Latest(e.target)

\* "The user stops: cancel the workflow" (workflow_engine.go:111): once nobody is calling
\* any more, what still drives a stopped run is cancelled.
StoppedRests ==
  run.status = "stopped" /\ UnderWay = {} => \A d \in Drivers : Live(d) => d \in cancelled

\* "A merge waits until all its predecessors are successes": it is not in one wave with
\* one of them.
MergeWaits ==
  \A d \in Drivers : At(d, "wave") =>
    \A m \in ToSet(driver[d].wave) : Kind[m] = "merge" => ToSet(Needs(m)) \cap ToSet(driver[d].wave) = {}
==============================================================================
