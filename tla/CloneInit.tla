------------------------------- MODULE CloneInit -------------------------------
(***************************************************************************)
(* The hidden initialisation of a copied agent.  CopyManagedAgent inserts  *)
(* the clone as "initializing" and starts a job: it waits until the source *)
(* is idle, takes the source's occupancy row, has the source sum up what   *)
(* it knows, releases the row and has the clone take the summary in.  The  *)
(* map cloneJobs holds the cancel function of a clone's latest job.  The   *)
(* clone can meanwhile be dismissed, both can be stopped, and the start of *)
(* a workflow may take the source over and then interrupts all its clones. *)
(*                                                                         *)
(* A cancelled job can no longer reach the database, apart from what it    *)
(* writes outside its context: its failure, its success and the release of *)
(* the row.                                                                *)
(***************************************************************************)
EXTENDS Naturals, FiniteSets

CONSTANTS
  Clones,
  Jobs,         \* jobs in the order they are started, 1..n
  MaxTakeovers, \* bound: workflows that take the source over
  MayOverlap,   \* whether a job may be started while an earlier one of its clone is not over
  MayRestart,
  Other,        \* the run of somebody else
  Nothing

ASSUME JobsAssumption == Jobs \subseteq Nat
ASSUME MaxTakeoversAssumption == MaxTakeovers \in Nat
ASSUME SwitchesAssumption == MayOverlap \in BOOLEAN /\ MayRestart \in BOOLEAN
ASSUME NothingAssumption == Nothing \notin Jobs /\ Other \notin Jobs \cup {Nothing}

VARIABLES
  source,     \* the source: "idle", "busy" (running, waiting or compressing) or "gone"
  memory,     \* whether the source has a session or was ever asked
  row,        \* the source's occupancy row: nobody's, another run's or a job's
  status,     \* of each clone
  entry,      \* cloneJobs
  job,        \* of each job: its clone, its place, what it has to pass on
  cancelled,  \* jobs whose context is cancelled
  starting,   \* clones whose status is written and whose job is not yet started
  deleting,   \* clones whose job is cancelled and whose rows are not yet deleted
  takeover,   \* the takeover: its place, the clones it found and has not dealt with, the current one
  takeovers,
  restarted

vars == <<source, memory, row, status, entry, job, cancelled, starting, deleting,
          takeover, takeovers, restarted>>
sourceVars == <<source, memory, row>>
calls == <<starting, deleting, takeover, takeovers, restarted>>

Places == {"wait", "load", "acquire", "summarise", "release", "teach", "settle", "over", "ended"}
Summaries == {"none", "default", "memory", "stopped", "error"}
NewJob == [clone |-> Nothing, at |-> "new", summary |-> "none"]
NoTakeover == [at |-> "no", todo |-> {}, on |-> Nothing]

TypeOK ==
  /\ source \in {"idle", "busy", "gone"} /\ memory \in BOOLEAN
  /\ row \in Jobs \cup {Nothing, Other}
  /\ status \in [Clones -> {"absent", "initializing", "idle", "error", "deleted"}]
  /\ entry \in [Clones -> Jobs \cup {Nothing}]
  /\ job \in [Jobs -> {NewJob} \cup [clone : Clones, at : Places, summary : Summaries]]
  /\ cancelled \in SUBSET Jobs
  /\ starting \in SUBSET Clones /\ deleting \in SUBSET Clones
  /\ takeover \in {NoTakeover} \cup
       [at : {"stopped", "marking"}, todo : SUBSET Clones, on : {Nothing}] \cup
       [at : {"cancel"}, todo : SUBSET Clones, on : Clones]
  /\ takeovers \in 0..MaxTakeovers
  /\ restarted \in BOOLEAN

Init ==
  /\ source = "idle"
  /\ memory \in BOOLEAN
  /\ row = Nothing
  /\ status = [c \in Clones |-> "absent"]
  /\ entry = [c \in Clones |-> Nothing]
  /\ job = [j \in Jobs |-> NewJob]
  /\ cancelled = {}
  /\ starting = {}
  /\ deleting = {}
  /\ takeover = NoTakeover
  /\ takeovers = 0
  /\ restarted = FALSE

Live(j) == job[j].at \notin {"new", "ended"}
JobsOf(c) == {j \in Jobs : job[j].clone = c}
Present(c) == status[c] \notin {"absent", "deleted"}
AtRest == starting = {} /\ deleting = {} /\ takeover = NoTakeover

------------------------------------------------------------------------------
(* The calls of an administrator: one at a time.                           *)

CopyManagedAgent(c) ==
  /\ AtRest
  /\ status[c] = "absent"
  /\ source # "gone"
  /\ \E j \in Jobs : job[j] = NewJob
  /\ status' = [status EXCEPT ![c] = "initializing"]
  /\ starting' = {c}
  /\ UNCHANGED <<sourceVars, entry, job, cancelled, deleting, takeover, takeovers, restarted>>

RetryCloneInit(c) ==
  /\ AtRest
  /\ Present(c) /\ status[c] # "initializing"
  /\ MayOverlap \/ \A j \in JobsOf(c) : ~Live(j)
  /\ \E j \in Jobs : job[j] = NewJob
  /\ status' = [status EXCEPT ![c] = "initializing"]
  /\ starting' = {c}
  /\ UNCHANGED <<sourceVars, entry, job, cancelled, deleting, takeover, takeovers, restarted>>

CancelJob(c) ==
  /\ cancelled' = cancelled \cup ({entry[c]} \ {Nothing})
  /\ entry' = [entry EXCEPT ![c] = Nothing]

\* startCloneInit: the old job is cancelled, the new one stored and started.
StartJob(c, j) ==
  /\ c \in starting
  /\ job[j] = NewJob /\ \A i \in Jobs : i < j => job[i] # NewJob
  /\ starting' = starting \ {c}
  /\ cancelled' = cancelled \cup ({entry[c]} \ {Nothing})
  /\ entry' = [entry EXCEPT ![c] = j]
  /\ job' = [job EXCEPT ![j] = [clone |-> c, at |-> "wait", summary |-> "none"]]
  /\ UNCHANGED <<sourceVars, status, deleting, takeover, takeovers, restarted>>

\* The ask a stop finds in Service.runs ends with the text of a stop.
StopTeaching(c) == [j \in Jobs |->
  IF job[j].at = "teach" /\ job[j].clone = c THEN [job[j] EXCEPT !.summary = "stopped"] ELSE job[j]]
StopSummary == [j \in Jobs |->
  IF job[j].at = "summarise" THEN [job[j] EXCEPT !.summary = "stopped"] ELSE job[j]]
Summarised == \E j \in Jobs : job[j].at = "summarise"

\* Mutant: the job is not cancelled.
DismissOnly(c) ==
  /\ AtRest
  /\ Present(c)
  /\ deleting' = {c}
  /\ job' = StopTeaching(c)
  /\ UNCHANGED <<sourceVars, status, entry, cancelled, starting, takeover, takeovers, restarted>>

DeleteManaged(c) ==
  /\ AtRest
  /\ Present(c)
  /\ deleting' = {c}
  /\ CancelJob(c)
  /\ job' = StopTeaching(c)
  /\ UNCHANGED <<sourceVars, status, starting, takeover, takeovers, restarted>>

DeleteRows(c) ==
  /\ c \in deleting
  /\ deleting' = deleting \ {c}
  /\ status' = [status EXCEPT ![c] = "deleted"]
  /\ UNCHANGED <<sourceVars, entry, job, cancelled, starting, takeover, takeovers, restarted>>

StopClone(c) ==
  /\ AtRest
  /\ \E j \in JobsOf(c) : job[j].at = "teach"
  /\ job' = StopTeaching(c)
  /\ status' = [status EXCEPT ![c] = IF Present(c) THEN "idle" ELSE @]
  /\ UNCHANGED <<sourceVars, entry, cancelled, calls>>

StopSource ==
  /\ AtRest
  /\ Summarised \/ source = "busy"
  /\ job' = StopSummary
  /\ source' = IF source = "gone" THEN "gone" ELSE "idle"
  /\ row' = Nothing
  /\ UNCHANGED <<memory, status, entry, cancelled, calls>>

DeleteSource ==
  /\ AtRest
  /\ source # "gone"
  /\ job' = StopSummary
  /\ source' = "gone"
  /\ row' = IF Summarised \/ source = "busy" THEN Nothing ELSE row
  /\ UNCHANGED <<memory, status, entry, cancelled, calls>>

------------------------------------------------------------------------------
(* A forced takeover of the source.                                        *)

\* StopManaged and ClearOccupancy; only a row of a clone's job is followed up.
TakeOver ==
  /\ AtRest
  /\ row # Nothing
  /\ takeovers < MaxTakeovers
  /\ takeovers' = takeovers + 1
  /\ job' = StopSummary
  /\ source' = IF source = "busy" THEN "idle" ELSE source
  /\ row' = Nothing
  /\ takeover' = IF row \in Jobs THEN [NoTakeover EXCEPT !.at = "stopped"] ELSE NoTakeover
  /\ UNCHANGED <<memory, status, entry, cancelled, starting, deleting, restarted>>

ListInterrupted ==
  /\ takeover.at = "stopped"
  /\ takeover' = [at |-> "marking", todo |-> {c \in Clones : status[c] = "initializing"}, on |-> Nothing]
  /\ UNCHANGED <<sourceVars, status, entry, job, cancelled, starting, deleting, takeovers, restarted>>

\* Mutant: the job is cancelled and nobody says so.
CancelSilently(c) ==
  /\ takeover.at = "marking"
  /\ c \in takeover.todo
  /\ takeover' = [at |-> "cancel", todo |-> takeover.todo \ {c}, on |-> c]
  /\ UNCHANGED <<sourceVars, status, entry, job, cancelled, starting, deleting, takeovers, restarted>>

MarkInterrupted(c) ==
  /\ takeover.at = "marking"
  /\ c \in takeover.todo
  /\ status' = [status EXCEPT ![c] = IF Present(c) THEN "error" ELSE @]
  /\ takeover' = [at |-> "cancel", todo |-> takeover.todo \ {c}, on |-> c]
  /\ UNCHANGED <<sourceVars, entry, job, cancelled, starting, deleting, takeovers, restarted>>

CancelInterrupted ==
  /\ takeover.at = "cancel"
  /\ CancelJob(takeover.on)
  /\ takeover' = [at |-> "marking", todo |-> takeover.todo, on |-> Nothing]
  /\ UNCHANGED <<sourceVars, status, job, starting, deleting, takeovers, restarted>>

TakenOver ==
  /\ takeover.at = "marking" /\ takeover.todo = {}
  /\ takeover' = NoTakeover
  /\ UNCHANGED <<sourceVars, status, entry, job, cancelled, starting, deleting, takeovers, restarted>>

------------------------------------------------------------------------------
(* A job.                                                                  *)

Go(j, place) == job' = [job EXCEPT ![j].at = place]

\* The job's end in "error", written outside its context.
Fail(j) ==
  /\ status' = [status EXCEPT ![job[j].clone] = IF Present(job[j].clone) THEN "error" ELSE @]
  /\ Go(j, "over")

SourceReadyForSummary == source = "idle" /\ row = Nothing
SourceHasEngineMemory == memory

\* Mutant: it waits as long as it takes.
WaitForever(j) ==
  /\ job[j].at = "wait"
  /\ \/ j \in cancelled /\ Go(j, "over") /\ UNCHANGED status
     \/ j \notin cancelled /\ source = "gone" /\ Fail(j)
     \/ j \notin cancelled /\ SourceReadyForSummary /\ Go(j, "load") /\ UNCHANGED status
  /\ UNCHANGED <<sourceVars, entry, cancelled, calls>>

WaitForSource(j) ==
  /\ job[j].at = "wait"
  /\ \/ j \in cancelled /\ Go(j, "over") /\ UNCHANGED status
     \/ j \notin cancelled /\ source = "gone" /\ Fail(j)
     \/ j \notin cancelled /\ SourceReadyForSummary /\ Go(j, "load") /\ UNCHANGED status
     \/ j \notin cancelled /\ source # "gone" /\ ~SourceReadyForSummary /\ Fail(j)  \* the deadline
  /\ UNCHANGED <<sourceVars, entry, cancelled, calls>>

\* The clone and the source are read: a job cancelled before the first reading just
\* ends, one cancelled before the second takes its source for gone.
Load(j) ==
  /\ job[j].at = "load"
  /\ \/ (j \in cancelled \/ ~Present(job[j].clone)) /\ Go(j, "over") /\ UNCHANGED status
     \/ (j \in cancelled \/ source = "gone") /\ Fail(j)
     \/ /\ j \notin cancelled /\ Present(job[j].clone) /\ source # "gone"
        /\ job' = [job EXCEPT ![j].at = IF SourceHasEngineMemory THEN "acquire" ELSE "teach",
                              ![j].summary = IF SourceHasEngineMemory THEN "none" ELSE "default"]
        /\ UNCHANGED status
  /\ UNCHANGED <<sourceVars, entry, cancelled, calls>>

AcquireSource(j) ==
  /\ job[j].at = "acquire"
  /\ IF j \in cancelled \/ row # Nothing THEN Fail(j) /\ UNCHANGED row
     ELSE row' = j /\ Go(j, "summarise") /\ UNCHANGED status
  /\ UNCHANGED <<source, memory, entry, cancelled, calls>>

\* The source's answer; a stopped or cancelled ask answers that it was stopped.
Summarise(j) ==
  /\ job[j].at = "summarise"
  /\ \E s \in IF j \in cancelled \/ job[j].summary = "stopped" THEN {"stopped"} ELSE {"memory", "default", "error"} :
       job' = [job EXCEPT ![j].at = "release", ![j].summary = s]
  /\ UNCHANGED <<sourceVars, status, entry, cancelled, calls>>

AfterSummary(j) ==
  IF job[j].summary = "error" THEN Fail(j)
  ELSE /\ Go(j, IF j \in cancelled \/ ~Present(job[j].clone) THEN "over" ELSE "teach")
       /\ UNCHANGED status

\* Mutant: the release comes with the job's context.
ReleaseInContext(j) ==
  /\ job[j].at = "release"
  /\ row' = IF j \in cancelled THEN row ELSE Nothing
  /\ AfterSummary(j)
  /\ UNCHANGED <<source, memory, entry, cancelled, calls>>

\* The row is deleted whoever inserted it, and the clone is read again.
ReleaseSource(j) ==
  /\ job[j].at = "release"
  /\ row' = Nothing
  /\ AfterSummary(j)
  /\ UNCHANGED <<source, memory, entry, cancelled, calls>>

\* The clone has answered or failed; the job looks whether it was cancelled.
Teach(j) ==
  /\ job[j].at = "teach"
  /\ \/ j \in cancelled /\ Go(j, "over") /\ UNCHANGED status
     \/ j \notin cancelled /\ Go(j, "settle") /\ UNCHANGED status
     \/ j \notin cancelled /\ job[j].summary # "stopped" /\ Fail(j)
  /\ UNCHANGED <<sourceVars, entry, cancelled, calls>>

Settle(j) ==
  /\ job[j].at = "settle"
  /\ status' = [status EXCEPT ![job[j].clone] = IF Present(job[j].clone) THEN "idle" ELSE @]
  /\ Go(j, "over")
  /\ UNCHANGED <<sourceVars, entry, cancelled, calls>>

\* The deferred Delete takes out whichever job is in the map.
EndJob(j) ==
  /\ job[j].at = "over"
  /\ entry' = [entry EXCEPT ![job[j].clone] = Nothing]
  /\ job' = [job EXCEPT ![j].at = "ended", ![j].summary = "none"]
  /\ cancelled' = cancelled \ {j}
  /\ UNCHANGED <<sourceVars, status, calls>>

JobStep(j) ==
  \/ WaitForSource(j) \/ Load(j) \/ AcquireSource(j) \/ Summarise(j) \/ ReleaseSource(j)
  \/ Teach(j) \/ Settle(j) \/ EndJob(j)

------------------------------------------------------------------------------
(* What else the source does, and the end of the process.                  *)

\* Another run takes the row of the source, a workflow's in spite of a summary's reading.
SourceTaken ==
  /\ source = "idle" /\ row = Nothing
  /\ source' = "busy"
  /\ row' = Other
  /\ UNCHANGED <<memory, status, entry, job, cancelled, calls>>

SourceFreed ==
  /\ source = "busy"
  /\ source' = "idle"
  /\ row' = Nothing
  /\ UNCHANGED <<memory, status, entry, job, cancelled, calls>>

Restart ==
  /\ MayRestart /\ ~restarted
  /\ restarted' = TRUE
  /\ row' = Nothing
  /\ entry' = [c \in Clones |-> Nothing]
  /\ job' = [j \in Jobs |-> 
       IF Live(j) THEN [job[j] EXCEPT !.at = "ended", !.summary = "none"] ELSE job[j]]
  /\ cancelled' = {}
  /\ starting' = {} /\ deleting' = {} /\ takeover' = NoTakeover
  /\ UNCHANGED <<source, memory, status, takeovers>>

------------------------------------------------------------------------------

CallStep ==
  \/ \E c \in Clones : (\E j \in Jobs : StartJob(c, j)) \/ DeleteRows(c) \/ MarkInterrupted(c)
  \/ ListInterrupted \/ CancelInterrupted \/ TakenOver

Next ==
  \/ \E c \in Clones : CopyManagedAgent(c) \/ RetryCloneInit(c) \/ DeleteManaged(c) \/ StopClone(c)
  \/ StopSource \/ DeleteSource \/ TakeOver
  \/ CallStep
  \/ \E j \in Jobs : JobStep(j)
  \/ SourceTaken \/ SourceFreed \/ Restart

\* Goroutines are scheduled, engines answer or time out.
Fairness == WF_vars(CallStep) /\ \A j \in Jobs : WF_vars(JobStep(j))

Spec == Init /\ [][Next]_vars /\ Fairness

------------------------------------------------------------------------------
(* Properties.                                                             *)

\* A clone shown as initializing, which accepts neither an ask nor a retry (agent_clone.go:195),
\* has a job that is going to write its status, or a call that is about to start or delete it.
InitializingIsWorked ==
  ~restarted => \A c \in Clones : status[c] = "initializing" =>
    \/ c \in starting \cup deleting
    \/ \E j \in JobsOf(c) : Live(j) /\ job[j].at # "over" /\ j \notin cancelled

\* A row CLONE_INIT never outlives the summary it stands for, although its job may be
\* cancelled and its clone dismissed at any point: nobody else releases it.
RowHasSummary == row \in Jobs => job[row].at \in {"summarise", "release"}

\* "Dismissal: cancel the initialisation, then delete" (agent_clone.go:203): no job of a
\* dismissed clone goes on, if no job was started before the one before it was over.
DismissedIsQuiet ==
  \A c \in Clones : status[c] = "deleted" =>
    \A j \in JobsOf(c) : Live(j) => j \in cancelled \/ job[j].at \in {"settle", "over"}

\* A clone does not stay initializing, however busy its source is.
InitEnds ==
  \A c \in Clones : status[c] = "initializing" ~> status[c] # "initializing" \/ restarted
==============================================================================
