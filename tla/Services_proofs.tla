--------------------------- MODULE Services_proofs ---------------------------
(* Theorems about the four services, for any values of their constants.  The first part *)
(* is about the initialisation of clones alone (Spec), the second about the test servers *)
(* (Test!Spec), the third carries these and the theorems of Compaction_proofs and        *)
(* FrontDesk_proofs over to the services side by side (ServicesSpec).                    *)
EXTENDS Services, TLAPS

ChatP == INSTANCE Compaction_proofs WITH
  Asks <- ChatAsks, Nothing <- Nothing, status <- chatStatus, dead <- killed
DeskP == INSTANCE FrontDesk_proofs WITH Asks <- DeskAsks, Nothing <- Nothing

-------------------------------------------------------------------------------
(* The initialisation of clones.                                           *)

\* The map holds a started job of the clone, and only started jobs are cancelled.
KnownAreStarted ==
  /\ \A c \in Clones : entry[c] # Nothing => job[entry[c]].at # "new" /\ job[entry[c]].clone = c
  /\ \A j \in cancelled : job[j].at # "new"

\* A takeover cancels the job of a clone it has marked before.
MarkedFirst == takeover.at = "cancel" => status[takeover.on] # "initializing"

IInv ==
  /\ TypeOK
  /\ KnownAreStarted
  /\ MarkedFirst
  /\ RowHasSummary
  /\ InitializingIsWorked

-------------------------------------------------------------------------------
\* Every action keeps the types; the place of a job that moves is not "new".
LEMMA TypeStep == TypeOK /\ [Next]_vars => TypeOK'
<1> SUFFICES ASSUME TypeOK, [Next]_vars PROVE TypeOK'
  OBVIOUS
<1> USE JobsAssumption, MaxTakeoversAssumption, SwitchesAssumption, NothingAssumption
<1> USE DEF TypeOK, Places, Summaries, NewJob, NoTakeover, sourceVars, calls
<1>1. ASSUME NEW c \in Clones, CopyManagedAgent(c) \/ RetryCloneInit(c) PROVE TypeOK'
  BY <1>1 DEF CopyManagedAgent, RetryCloneInit
<1>2. ASSUME NEW c \in Clones, DeleteManaged(c) PROVE TypeOK'
  BY <1>2 DEF DeleteManaged, CancelJob, StopTeaching
<1>3. ASSUME NEW c \in Clones, StopClone(c) PROVE TypeOK'
  BY <1>3 DEF StopClone, StopTeaching
<1>4. CASE StopSource
  BY <1>4 DEF StopSource, StopSummary
<1>5. CASE DeleteSource
  BY <1>5 DEF DeleteSource, StopSummary
<1>6. CASE TakeOver
  BY <1>6 DEF TakeOver, StopSummary
<1>7. CASE CallStep
  <2>1. ASSUME NEW c \in Clones, NEW j \in Jobs, StartJob(c, j) PROVE TypeOK'
    BY <2>1 DEF StartJob
  <2>2. ASSUME NEW c \in Clones, DeleteRows(c) PROVE TypeOK'
    BY <2>2 DEF DeleteRows
  <2>3. ASSUME NEW c \in Clones, MarkInterrupted(c) PROVE TypeOK'
    BY <2>3 DEF MarkInterrupted
  <2>4. CASE ListInterrupted
    BY <2>4 DEF ListInterrupted
  <2>5. CASE CancelInterrupted
    <3>1. takeover \in [at : {"cancel"}, todo : SUBSET Clones, on : Clones]
      BY <2>5 DEF CancelInterrupted
    <3>2. takeover' \in [at : {"stopped", "marking"}, todo : SUBSET Clones, on : {Nothing}]
      BY <2>5, <3>1 DEF CancelInterrupted
    <3>3. entry' \in [Clones -> Jobs \cup {Nothing}] /\ cancelled' \in SUBSET Jobs
      BY <2>5, <3>1 DEF CancelInterrupted, CancelJob
    <3>4. QED
      BY <2>5, <3>2, <3>3 DEF CancelInterrupted
  <2>6. CASE TakenOver
    BY <2>6 DEF TakenOver
  <2>7. QED
    BY <1>7, <2>1, <2>2, <2>3, <2>4, <2>5, <2>6 DEF CallStep
<1>8. ASSUME NEW j \in Jobs, JobStep(j) PROVE TypeOK'
  <2>0. job[j].at # "new" => job[j] \in [clone : Clones, at : Places, summary : Summaries]
    OBVIOUS
  <2> USE DEF Go, Fail, AfterSummary
  <2>1. CASE WaitForSource(j)
    BY <2>0, <2>1 DEF WaitForSource
  <2>2. CASE Load(j)
    BY <2>0, <2>2 DEF Load, SourceHasEngineMemory
  <2>3. CASE AcquireSource(j)
    BY <2>0, <2>3 DEF AcquireSource
  <2>4. CASE Summarise(j)
    <3>1. PICK s \in Summaries : job' = [job EXCEPT ![j].at = "release", ![j].summary = s]
      BY <2>4 DEF Summarise
    <3>2. job' \in [Jobs -> {NewJob} \cup [clone : Clones, at : Places, summary : Summaries]]
      BY <2>0, <2>4, <3>1 DEF Summarise
    <3>3. QED
      BY <2>4, <3>2 DEF Summarise
  <2>5. CASE ReleaseSource(j)
    BY <2>0, <2>5 DEF ReleaseSource
  <2>6. CASE Teach(j)
    BY <2>0, <2>6 DEF Teach
  <2>7. CASE Settle(j)
    BY <2>0, <2>7 DEF Settle
  <2>8. CASE EndJob(j)
    BY <2>0, <2>8 DEF EndJob
  <2>9. QED
    BY <1>8, <2>1, <2>2, <2>3, <2>4, <2>5, <2>6, <2>7, <2>8 DEF JobStep
<1>9. CASE SourceTaken \/ SourceFreed
  BY <1>9 DEF SourceTaken, SourceFreed
<1>10. CASE Restart
  <2>1. ASSUME NEW j \in Jobs
        PROVE  (IF Live(j) THEN [job[j] EXCEPT !.at = "ended", !.summary = "none"] ELSE job[j])
                 \in {NewJob} \cup [clone : Clones, at : Places, summary : Summaries]
    <3>1. CASE job[j] = NewJob
      BY <3>1 DEF Live
    <3>2. CASE job[j] \in [clone : Clones, at : Places, summary : Summaries]
      BY <3>2
    <3>3. QED
      BY <3>1, <3>2
  <2>2. job' \in [Jobs -> {NewJob} \cup [clone : Clones, at : Places, summary : Summaries]]
    BY <1>10, <2>1 DEF Restart
  <2>3. QED
    BY <1>10, <2>2 DEF Restart
<1>11. CASE UNCHANGED vars
  BY <1>11 DEF vars
<1>12. QED
  BY <1>1, <1>2, <1>3, <1>4, <1>5, <1>6, <1>7, <1>8, <1>9, <1>10, <1>11 DEF Next

-------------------------------------------------------------------------------
\* A job that has been started stays so, and stays its clone's.
Kept(j) == job[j].at # "new" => job'[j].at # "new" /\ job'[j].clone = job[j].clone

LEMMA JobKept == TypeOK /\ [Next]_vars => \A j \in Jobs : Kept(j)
<1> SUFFICES ASSUME TypeOK, [Next]_vars, NEW j \in Jobs, job[j].at # "new"
             PROVE  job'[j].at # "new" /\ job'[j].clone = job[j].clone
  BY DEF Kept
<1> USE DEF TypeOK, Places, NewJob, sourceVars, calls
<1>0. job[j] \in [clone : Clones, at : Places, summary : Summaries]
  OBVIOUS
<1>1. ASSUME NEW c \in Clones, CopyManagedAgent(c) \/ RetryCloneInit(c) PROVE job' = job
  BY <1>1 DEF CopyManagedAgent, RetryCloneInit
<1>2. ASSUME NEW c \in Clones, job' = StopTeaching(c)
      PROVE  job'[j].at # "new" /\ job'[j].clone = job[j].clone
  BY <1>0, <1>2 DEF StopTeaching
<1>3. ASSUME job' = StopSummary
      PROVE  job'[j].at # "new" /\ job'[j].clone = job[j].clone
  BY <1>0, <1>3 DEF StopSummary
<1>4. CASE CallStep
  <2>1. ASSUME NEW c \in Clones, NEW i \in Jobs, StartJob(c, i)
        PROVE  job'[j] = job[j]
    BY <1>0, <2>1 DEF StartJob
  <2>2. ASSUME NEW c \in Clones, DeleteRows(c) \/ MarkInterrupted(c) PROVE job' = job
    BY <2>2 DEF DeleteRows, MarkInterrupted
  <2>3. CASE ListInterrupted \/ CancelInterrupted \/ TakenOver
    BY <1>0, <2>3 DEF ListInterrupted, CancelInterrupted, TakenOver
  <2>4. QED
    BY <1>0, <1>4, <2>1, <2>2, <2>3 DEF CallStep
<1>5. ASSUME NEW i \in Jobs, JobStep(i)
      PROVE  job'[j].at # "new" /\ job'[j].clone = job[j].clone
  <2> USE DEF Go, Fail, AfterSummary
  <2>1. CASE WaitForSource(i)
    BY <1>0, <2>1 DEF WaitForSource
  <2>2. CASE Load(i)
    BY <1>0, <2>2 DEF Load
  <2>3. CASE AcquireSource(i)
    BY <1>0, <2>3 DEF AcquireSource
  <2>4. CASE Summarise(i)
    BY <1>0, <2>4 DEF Summarise
  <2>5. CASE ReleaseSource(i)
    BY <1>0, <2>5 DEF ReleaseSource
  <2>6. CASE Teach(i)
    BY <1>0, <2>6 DEF Teach
  <2>7. CASE Settle(i)
    BY <1>0, <2>7 DEF Settle
  <2>8. CASE EndJob(i)
    BY <1>0, <2>8 DEF EndJob
  <2>9. QED
    BY <1>5, <2>1, <2>2, <2>3, <2>4, <2>5, <2>6, <2>7, <2>8 DEF JobStep
<1>6. CASE SourceTaken \/ SourceFreed
  BY <1>0, <1>6 DEF SourceTaken, SourceFreed
<1>7. CASE Restart
  BY <1>0, <1>7 DEF Restart, Live
<1>8. CASE UNCHANGED vars
  BY <1>0, <1>8 DEF vars
<1>9. QED
  BY <1>0, <1>1, <1>2, <1>3, <1>4, <1>5, <1>6, <1>7, <1>8
  DEF Next, DeleteManaged, StopClone, StopSource, DeleteSource, TakeOver

\* The map takes in only the job that is started, and only its jobs are cancelled.
LEMMA StartedStep == TypeOK /\ KnownAreStarted /\ [Next]_vars => KnownAreStarted'
<1> SUFFICES ASSUME TypeOK, KnownAreStarted, [Next]_vars PROVE KnownAreStarted'
  OBVIOUS
<1> USE NothingAssumption
<1> USE DEF TypeOK, KnownAreStarted, sourceVars, calls
<1>0. \A j \in Jobs : Kept(j)
  BY JobKept
<1>1. CASE UNCHANGED entry /\ cancelled' \in SUBSET cancelled
  BY <1>0, <1>1 DEF Kept
<1>2. ASSUME NEW c \in Clones, CancelJob(c) PROVE KnownAreStarted'
  BY <1>0, <1>2 DEF CancelJob, Kept
<1>3. ASSUME NEW c \in Clones, NEW j \in Jobs, StartJob(c, j) PROVE KnownAreStarted'
  <2>1. job'[j].at = "wait" /\ job'[j].clone = c
    BY <1>3 DEF StartJob
  <2>2. QED
    BY <1>0, <1>3, <2>1 DEF StartJob, Kept
<1>4. ASSUME NEW j \in Jobs, EndJob(j) PROVE KnownAreStarted'
  BY <1>0, <1>4 DEF EndJob, Kept
<1>5. CASE Restart
  BY <1>5 DEF Restart
<1>6. CASE CancelInterrupted
  <2>1. takeover.on \in Clones
    BY <1>6 DEF CancelInterrupted, NoTakeover
  <2>2. QED
    BY <1>2, <1>6, <2>1 DEF CancelInterrupted
<1>7. ASSUME NEW c \in Clones, CopyManagedAgent(c) \/ RetryCloneInit(c) \/ StopClone(c)
      PROVE  KnownAreStarted'
  BY <1>1, <1>7 DEF CopyManagedAgent, RetryCloneInit, StopClone
<1>8. CASE StopSource \/ DeleteSource \/ TakeOver \/ SourceTaken \/ SourceFreed \/ UNCHANGED vars
  BY <1>1, <1>8 DEF StopSource, DeleteSource, TakeOver, SourceTaken, SourceFreed, vars
<1>9. CASE CallStep
  BY <1>1, <1>3, <1>6, <1>9
  DEF CallStep, DeleteRows, MarkInterrupted, ListInterrupted, TakenOver
<1>10. ASSUME NEW j \in Jobs, JobStep(j) PROVE KnownAreStarted'
  BY <1>1, <1>4, <1>10
  DEF JobStep, WaitForSource, Load, AcquireSource, Summarise, ReleaseSource, Teach, Settle
<1>11. QED
  BY <1>2, <1>5, <1>7, <1>8, <1>9, <1>10 DEF Next, DeleteManaged

-------------------------------------------------------------------------------
\* A job makes no clone initializing.
LEMMA JobSettles ==
  ASSUME TypeOK, NEW j \in Jobs, JobStep(j), NEW c \in Clones, status'[c] = "initializing"
  PROVE  status[c] = "initializing"
<1> USE DEF TypeOK, Fail, AfterSummary
<1>1. CASE WaitForSource(j)
  BY <1>1 DEF WaitForSource
<1>2. CASE Load(j)
  BY <1>2 DEF Load
<1>3. CASE AcquireSource(j)
  BY <1>3 DEF AcquireSource
<1>4. CASE Summarise(j)
  BY <1>4 DEF Summarise
<1>5. CASE ReleaseSource(j)
  BY <1>5 DEF ReleaseSource
<1>6. CASE Teach(j)
  BY <1>6 DEF Teach
<1>7. CASE Settle(j)
  BY <1>7 DEF Settle
<1>8. CASE EndJob(j)
  BY <1>8 DEF EndJob
<1>9. QED
  BY <1>1, <1>2, <1>3, <1>4, <1>5, <1>6, <1>7, <1>8 DEF JobStep

\* What a takeover has marked stays marked until its job is cancelled: no call is let in.
LEMMA MarkedStep == TypeOK /\ MarkedFirst /\ [Next]_vars => MarkedFirst'
<1> SUFFICES ASSUME TypeOK, MarkedFirst, [Next]_vars, takeover'.at = "cancel"
             PROVE  status'[takeover'.on] # "initializing"
  BY DEF MarkedFirst
<1> USE DEF sourceVars, calls
<1>1. ASSUME NEW c \in Clones,
             CopyManagedAgent(c) \/ RetryCloneInit(c) \/ DeleteManaged(c) \/ StopClone(c)
      PROVE  FALSE
  BY <1>1 DEF CopyManagedAgent, RetryCloneInit, DeleteManaged, StopClone, AtRest, NoTakeover
<1>2. CASE StopSource \/ DeleteSource \/ TakeOver
  BY <1>2 DEF StopSource, DeleteSource, TakeOver, AtRest, NoTakeover
<1>3. CASE CallStep
  <2>1. ASSUME NEW c \in Clones, NEW j \in Jobs, StartJob(c, j)
        PROVE  status'[takeover'.on] # "initializing"
    BY <2>1 DEF StartJob, MarkedFirst
  <2>2. ASSUME NEW c \in Clones, DeleteRows(c) PROVE status'[takeover'.on] # "initializing"
    <3>1. takeover.on \in Clones
      BY <2>2 DEF DeleteRows, TypeOK, NoTakeover
    <3>2. QED
      BY <2>2, <3>1 DEF DeleteRows, TypeOK, MarkedFirst
  <2>3. ASSUME NEW c \in Clones, MarkInterrupted(c)
        PROVE  status'[takeover'.on] # "initializing"
    BY <2>3 DEF MarkInterrupted, TypeOK, Present
  <2>4. CASE ListInterrupted \/ CancelInterrupted \/ TakenOver
    BY <2>4 DEF ListInterrupted, CancelInterrupted, TakenOver, NoTakeover
  <2>5. QED
    BY <1>3, <2>1, <2>2, <2>3, <2>4 DEF CallStep
<1>4. ASSUME NEW j \in Jobs, JobStep(j) PROVE status'[takeover'.on] # "initializing"
  <2>1. takeover' = takeover
    BY <1>4 DEF JobStep, WaitForSource, Load, AcquireSource, Summarise, ReleaseSource,
                Teach, Settle, EndJob
  <2>2. takeover.on \in Clones
    BY <2>1 DEF TypeOK, NoTakeover
  <2>3. QED
    BY <1>4, <2>1, <2>2, JobSettles DEF MarkedFirst
<1>5. CASE SourceTaken \/ SourceFreed \/ UNCHANGED vars
  BY <1>5 DEF SourceTaken, SourceFreed, vars, MarkedFirst
<1>6. CASE Restart
  BY <1>6 DEF Restart, NoTakeover
<1>7. QED
  BY <1>1, <1>2, <1>3, <1>4, <1>5, <1>6 DEF Next

-------------------------------------------------------------------------------
\* The row of a job goes before the job leaves the summary.
LEMMA RowStep == TypeOK /\ RowHasSummary /\ [Next]_vars => RowHasSummary'
<1> SUFFICES ASSUME TypeOK, RowHasSummary, [Next]_vars, row' \in Jobs
             PROVE  job'[row'].at \in {"summarise", "release"}
  BY DEF RowHasSummary
<1> USE NothingAssumption
<1> USE DEF sourceVars, calls
<1>1. CASE row' = row /\ \A j \in Jobs : job'[j].at = job[j].at
  BY <1>1 DEF RowHasSummary
<1>2. ASSUME \/ \E c \in Clones : job' = StopTeaching(c)
             \/ job' = StopSummary
      PROVE  \A j \in Jobs : job'[j].at = job[j].at
  <2> SUFFICES ASSUME NEW j \in Jobs PROVE job'[j].at = job[j].at
    OBVIOUS
  <2>1. CASE job[j] = NewJob
    BY <1>2, <2>1 DEF StopTeaching, StopSummary, NewJob
  <2>2. CASE job[j] \in [clone : Clones, at : Places, summary : Summaries]
    BY <1>2, <2>2 DEF StopTeaching, StopSummary
  <2>3. QED
    BY <2>1, <2>2 DEF TypeOK
<1>3. ASSUME NEW c \in Clones,
             CopyManagedAgent(c) \/ RetryCloneInit(c) \/ DeleteManaged(c) \/ StopClone(c)
      PROVE  row' = row /\ \A j \in Jobs : job'[j].at = job[j].at
  BY <1>2, <1>3 DEF CopyManagedAgent, RetryCloneInit, DeleteManaged, StopClone
<1>4. CASE StopSource \/ DeleteSource \/ TakeOver
  BY <1>1, <1>2, <1>4 DEF StopSource, DeleteSource, TakeOver
<1>5. CASE CallStep
  <2>1. ASSUME NEW c \in Clones, NEW j \in Jobs, StartJob(c, j) PROVE row' = row /\ row # j
    BY <2>1 DEF StartJob, NewJob, RowHasSummary
  <2>2. ASSUME NEW c \in Clones, NEW j \in Jobs, StartJob(c, j)
        PROVE  job'[row'].at \in {"summarise", "release"}
    BY <2>1, <2>2 DEF StartJob, RowHasSummary, TypeOK
  <2>3. QED
    BY <1>1, <1>5, <2>2
    DEF CallStep, DeleteRows, MarkInterrupted, ListInterrupted, CancelInterrupted, TakenOver
<1>6. ASSUME NEW j \in Jobs, JobStep(j) PROVE job'[row'].at \in {"summarise", "release"}
  <2> USE DEF TypeOK, RowHasSummary, Go, Fail, AfterSummary
  <2>1. CASE WaitForSource(j)
    BY <2>1 DEF WaitForSource
  <2>2. CASE Load(j)
    BY <2>2 DEF Load
  <2>3. CASE AcquireSource(j)
    <3>0. job[j] \in [clone : Clones, at : Places, summary : Summaries]
      BY <2>3 DEF AcquireSource, NewJob
    <3>1. CASE row' = row
      BY <2>3, <3>1 DEF AcquireSource
    <3>2. CASE row' = j
      <4>1. row # j
        BY <2>3 DEF AcquireSource
      <4>2. Go(j, "summarise")
        BY <2>3, <3>2, <4>1 DEF AcquireSource
      <4>3. QED
        BY <3>0, <3>2, <4>2
    <3>3. QED
      BY <2>3, <3>1, <3>2 DEF AcquireSource
  <2>4. CASE Summarise(j)
    <3>0. job[j] \in [clone : Clones, at : Places, summary : Summaries]
      BY <2>4 DEF Summarise, NewJob
    <3>1. PICK s \in Summaries : job' = [job EXCEPT ![j].at = "release", ![j].summary = s]
      BY <2>4 DEF Summarise, Summaries
    <3>2. job'[j].at = "release" /\ \A i \in Jobs \ {j} : job'[i] = job[i]
      BY <3>0, <3>1
    <3>3. QED
      BY <2>4, <3>2 DEF Summarise
  <2>5. CASE ReleaseSource(j)
    BY <2>5 DEF ReleaseSource
  <2>6. CASE Teach(j)
    BY <2>6 DEF Teach
  <2>7. CASE Settle(j)
    BY <2>7 DEF Settle
  <2>8. CASE EndJob(j)
    BY <2>8 DEF EndJob
  <2>9. QED
    BY <1>6, <2>1, <2>2, <2>3, <2>4, <2>5, <2>6, <2>7, <2>8 DEF JobStep
<1>7. CASE SourceTaken \/ SourceFreed \/ UNCHANGED vars
  BY <1>1, <1>7 DEF SourceTaken, SourceFreed, vars
<1>8. CASE Restart
  BY <1>8 DEF Restart
<1>9. QED
  BY <1>1, <1>3, <1>4, <1>5, <1>6, <1>7, <1>8 DEF Next

-------------------------------------------------------------------------------
\* The job a clone's "initializing" rests on.
Works(j, c) ==
  /\ job[j].clone = c /\ Live(j) /\ job[j].at # "over"
  /\ j \notin cancelled

\* A job works on until it writes its clone's status.
LEMMA WorksOn ==
  ASSUME TypeOK, NEW i \in Jobs, JobStep(i), NEW c \in Clones, status'[c] = "initializing",
         NEW j \in Jobs, Works(j, c)
  PROVE  Works(j, c)'
<1> USE DEF TypeOK, Works, Live
<1>0. job[j] \in [clone : Clones, at : Places, summary : Summaries]
  BY DEF NewJob
<1>1. cancelled' \in SUBSET cancelled
  BY DEF JobStep, WaitForSource, Load, AcquireSource, Summarise, ReleaseSource, Teach, Settle,
         EndJob
<1>2. Present(c)
  BY JobSettles DEF Present
<1>3. CASE i # j
  <2>1. job'[j] = job[j]
    <3>1. CASE Summarise(i)
      BY <1>3, <3>1 DEF Summarise
    <3>2. CASE ~Summarise(i)
      BY <1>3, <3>2 DEF JobStep, WaitForSource, Load, AcquireSource, ReleaseSource, AfterSummary,
                      Teach, Settle, EndJob, Go, Fail
    <3>3. QED
      BY <3>1, <3>2
  <2>2. QED
    BY <1>1, <2>1
<1>4. CASE i = j
  <2>0. ~Fail(j)
    BY <1>0, <1>2 DEF Fail
  <2> USE DEF Go
  <2>1. CASE WaitForSource(j)
    BY <1>0, <1>1, <2>0, <2>1 DEF WaitForSource
  <2>2. CASE Load(j)
    BY <1>0, <1>1, <1>2, <2>0, <2>2 DEF Load
  <2>3. CASE AcquireSource(j)
    BY <1>0, <1>1, <2>0, <2>3 DEF AcquireSource
  <2>4. CASE Summarise(j)
    <3>1. job'[j].at = "release" /\ job'[j].clone = c
      BY <1>0, <2>4 DEF Summarise
    <3>2. QED
      BY <1>1, <3>1
  <2>5. CASE ReleaseSource(j)
    BY <1>0, <1>1, <1>2, <2>0, <2>5 DEF ReleaseSource, AfterSummary
  <2>6. CASE Teach(j)
    BY <1>0, <1>1, <2>0, <2>6 DEF Teach
  <2>7. CASE Settle(j)
    BY <1>0, <1>2, <2>7 DEF Settle
  <2>8. CASE EndJob(j)
    BY <2>8 DEF EndJob
  <2>9. QED
    BY <1>4, <2>1, <2>2, <2>3, <2>4, <2>5, <2>6, <2>7, <2>8 DEF JobStep
<1>5. QED
  BY <1>3, <1>4

\* Whoever takes a job out of the work, a dismissal, a newer job or a takeover, stands for
\* the clone himself, or has written its status.
LEMMA WorkedStep ==
  TypeOK /\ KnownAreStarted /\ MarkedFirst /\ InitializingIsWorked /\ [Next]_vars
    => InitializingIsWorked'
<1> SUFFICES ASSUME TypeOK, KnownAreStarted, MarkedFirst, InitializingIsWorked, [Next]_vars,
                    ~restarted', NEW c \in Clones, status'[c] = "initializing",
                    c \notin starting' \cup deleting'
             PROVE  \E j \in Jobs : Works(j, c)'
  BY DEF InitializingIsWorked, JobsOf, Works, Live
<1> USE NothingAssumption
<1> USE DEF sourceVars, calls
<1>0. ASSUME ~restarted, status[c] = "initializing", c \notin starting \cup deleting
      PROVE  \E j \in Jobs : Works(j, c)
  BY <1>0 DEF InitializingIsWorked, JobsOf, Works, Live
<1>1. CASE /\ restarted' = restarted /\ status[c] = "initializing"
           /\ c \notin starting \cup deleting
           /\ \A j \in Jobs : Works(j, c) => Works(j, c)'
  BY <1>0, <1>1
<1>2. ASSUME \A j \in Jobs : job'[j].at = job[j].at /\ job'[j].clone = job[j].clone,
             cancelled' = cancelled
      PROVE  \A j \in Jobs : Works(j, c) => Works(j, c)'
  BY <1>2 DEF Works, Live
<1>3. ASSUME NEW d \in Clones, d # c,
             \A j \in Jobs : job'[j].at = job[j].at /\ job'[j].clone = job[j].clone,
             CancelJob(d)
      PROVE  \A j \in Jobs : Works(j, c) => Works(j, c)'
  BY <1>3 DEF Works, Live, CancelJob, KnownAreStarted, TypeOK
<1>4. ASSUME (\E d \in Clones : job' = StopTeaching(d)) \/ job' = StopSummary
      PROVE  \A j \in Jobs : job'[j].at = job[j].at /\ job'[j].clone = job[j].clone
  <2> SUFFICES ASSUME NEW j \in Jobs
               PROVE  job'[j].at = job[j].at /\ job'[j].clone = job[j].clone
    OBVIOUS
  <2>1. CASE job[j] = NewJob
    BY <1>4, <2>1 DEF StopTeaching, StopSummary, NewJob
  <2>2. CASE job[j] \in [clone : Clones, at : Places, summary : Summaries]
    BY <1>4, <2>2 DEF StopTeaching, StopSummary
  <2>3. QED
    BY <2>1, <2>2 DEF TypeOK
<1>5. ASSUME NEW d \in Clones, CopyManagedAgent(d) \/ RetryCloneInit(d)
      PROVE  \E j \in Jobs : Works(j, c)'
  <2>1. d # c /\ starting = {}
    BY <1>5 DEF CopyManagedAgent, RetryCloneInit, AtRest
  <2>2. QED
    BY <1>1, <1>2, <1>5, <2>1 DEF CopyManagedAgent, RetryCloneInit, TypeOK
<1>6. ASSUME NEW d \in Clones, DeleteManaged(d) PROVE \E j \in Jobs : Works(j, c)'
  <2>1. d # c /\ deleting = {} /\ job' = StopTeaching(d)
    BY <1>6 DEF DeleteManaged, AtRest
  <2>2. QED
    BY <1>1, <1>3, <1>4, <1>6, <2>1 DEF DeleteManaged
<1>7. ASSUME NEW d \in Clones, StopClone(d) PROVE \E j \in Jobs : Works(j, c)'
  BY <1>1, <1>2, <1>4, <1>7 DEF StopClone, TypeOK
<1>8. CASE StopSource \/ DeleteSource \/ TakeOver
  BY <1>1, <1>2, <1>4, <1>8 DEF StopSource, DeleteSource, TakeOver
<1>9. CASE CallStep
  <2>1. ASSUME NEW d \in Clones, NEW j \in Jobs, StartJob(d, j)
        PROVE  \E i \in Jobs : Works(i, c)'
    <3>1. j \notin cancelled /\ entry[d] # j
      BY <2>1 DEF StartJob, NewJob, KnownAreStarted
    <3>2. CASE d = c
      <4>1. Works(j, c)'
        BY <2>1, <3>1, <3>2 DEF StartJob, Works, Live, TypeOK
      <4>2. QED
        BY <4>1
    <3>3. CASE d # c
      <4>1. ASSUME NEW i \in Jobs, Works(i, c) PROVE Works(i, c)'
        <5>1. i # j
          BY <2>1, <4>1 DEF StartJob, NewJob, Works, Live
        <5>2. i # entry[d]
          BY <3>3, <4>1 DEF KnownAreStarted, Works
        <5>3. job'[i] = job[i] /\ i \notin cancelled'
          BY <2>1, <4>1, <5>1, <5>2 DEF StartJob, TypeOK, Works
        <5>4. QED
          BY <4>1, <5>3 DEF Works, Live
      <4>2. QED
        BY <1>1, <2>1, <3>3, <4>1 DEF StartJob
    <3>4. QED
      BY <3>2, <3>3
  <2>2. ASSUME NEW d \in Clones, DeleteRows(d) \/ MarkInterrupted(d)
        PROVE  \E j \in Jobs : Works(j, c)'
    <3>1. status[c] = "initializing" /\ c \notin starting \cup deleting
      BY <2>2 DEF DeleteRows, MarkInterrupted, TypeOK
    <3>2. QED
      BY <1>1, <1>2, <2>2, <3>1 DEF DeleteRows, MarkInterrupted
  <2>3. CASE ListInterrupted \/ TakenOver
    BY <1>1, <1>2, <2>3 DEF ListInterrupted, TakenOver
  <2>4. CASE CancelInterrupted
    <3>1. takeover.on \in Clones
      BY <2>4 DEF CancelInterrupted, TypeOK, NoTakeover
    <3>2. takeover.on # c
      BY <2>4 DEF CancelInterrupted, MarkedFirst
    <3>3. QED
      BY <1>1, <1>3, <2>4, <3>1, <3>2 DEF CancelInterrupted
  <2>5. QED
    BY <1>9, <2>1, <2>2, <2>3, <2>4 DEF CallStep
<1>10. ASSUME NEW i \in Jobs, JobStep(i) PROVE \E j \in Jobs : Works(j, c)'
  <2>1. status[c] = "initializing"
    BY <1>10, JobSettles
  <2>2. UNCHANGED calls
    BY <1>10 DEF JobStep, WaitForSource, Load, AcquireSource, Summarise, ReleaseSource,
                 Teach, Settle, EndJob
  <2>3. PICK j \in Jobs : Works(j, c)
    BY <1>0, <2>1, <2>2
  <2>4. QED
    BY <1>10, <2>3, WorksOn
<1>11. CASE SourceTaken \/ SourceFreed \/ UNCHANGED vars
  BY <1>1, <1>2, <1>11 DEF SourceTaken, SourceFreed, vars
<1>12. CASE Restart
  BY <1>12 DEF Restart
<1>13. QED
  BY <1>5, <1>6, <1>7, <1>8, <1>9, <1>10, <1>11, <1>12 DEF Next

-------------------------------------------------------------------------------
LEMMA InitIInv == Init => IInv
<1> SUFFICES ASSUME Init PROVE IInv
  OBVIOUS
<1> USE NothingAssumption, MaxTakeoversAssumption
<1>1. TypeOK
  <2>1. memory \in BOOLEAN
    BY Zenon DEF Init
  <2>2. takeovers \in 0..MaxTakeovers
    BY DEF Init
  <2>3. job \in [Jobs -> {NewJob} \cup [clone : Clones, at : Places, summary : Summaries]]
    BY DEF Init
  <2>4. restarted \in BOOLEAN
    BY DEF Init
  <2>5. QED
    BY <2>1, <2>2, <2>3, <2>4 DEF Init, TypeOK
<1>2. KnownAreStarted /\ MarkedFirst /\ RowHasSummary /\ InitializingIsWorked
  BY DEF Init, KnownAreStarted, MarkedFirst, NoTakeover, RowHasSummary, InitializingIsWorked
<1>3. QED
  BY <1>1, <1>2 DEF IInv

\* The inductive invariant of every behaviour of the jobs.
THEOREM InductiveInvariant == Spec => []IInv
<1>1. IInv /\ [Next]_vars => IInv'
  BY TypeStep, StartedStep, MarkedStep, RowStep, WorkedStep DEF IInv
<1>2. QED
  BY InitIInv, <1>1, PTL DEF Spec

\* The variables keep their types.
THEOREM TypeCorrect == Spec => []TypeOK
BY InductiveInvariant, PTL DEF IInv

\* A CLONE_INIT row never outlives the summary it stands for.
THEOREM RowAlwaysHasSummary == Spec => []RowHasSummary
BY InductiveInvariant, PTL DEF IInv

\* A clone shown as initializing has a job that is going to write its status, or a call that
\* is about to start or delete it, until the process ends (agent_clone.go:195).
THEOREM InitializingAlwaysWorked == Spec => []InitializingIsWorked
BY InductiveInvariant, PTL DEF IInv

-------------------------------------------------------------------------------
(* A dismissed clone, as long as every job waits for the one before it.    *)

\* A clone has one live job.
Alone == \A i, j \in Jobs : Live(i) /\ Live(j) /\ job[i].clone = job[j].clone => i = j

\* The job of a clone about to get one is its only job.
StartingFree ==
  \A c \in starting : status[c] = "initializing" /\ \A j \in JobsOf(c) : ~Live(j)

\* No call is under way while a job is about to start.
StartsAlone == starting # {} => deleting = {} /\ takeover.at = "no"

\* A clone not yet copied has no job.
AbsentFree == \A j \in Jobs : job[j].at # "new" => status[job[j].clone] # "absent"

\* The map holds the job that could still be cancelled.
LiveIsEntry == \A j \in Jobs : Live(j) => j \in cancelled \/ entry[job[j].clone] = j

\* The jobs of a clone that is deleted, or about to be, are cancelled.
GoneIsCancelled ==
  \A j \in Jobs : Live(j) /\ (job[j].clone \in deleting \/ status[job[j].clone] = "deleted")
    => j \in cancelled

Quiet == Alone /\ StartingFree /\ StartsAlone /\ AbsentFree /\ LiveIsEntry /\ GoneIsCancelled

SamePlaces == \A j \in Jobs : job'[j].at = job[j].at /\ job'[j].clone = job[j].clone

LEMMA StopsKeepPlaces ==
  ASSUME TypeOK, (\E d \in Clones : job' = StopTeaching(d)) \/ job' = StopSummary
  PROVE  SamePlaces
<1> SUFFICES ASSUME NEW j \in Jobs
             PROVE  job'[j].at = job[j].at /\ job'[j].clone = job[j].clone
  BY DEF SamePlaces
<1>1. CASE job[j] = NewJob
  BY <1>1 DEF StopTeaching, StopSummary, NewJob
<1>2. CASE job[j] \in [clone : Clones, at : Places, summary : Summaries]
  BY <1>2 DEF StopTeaching, StopSummary
<1>3. QED
  BY <1>1, <1>2 DEF TypeOK

\* What the step of a job leaves alone.
LEMMA JobMoves ==
  ASSUME TypeOK, NEW j \in Jobs, JobStep(j)
  PROVE  /\ Live(j) /\ UNCHANGED calls
         /\ \A i \in Jobs \ {j} : job'[i] = job[i]
         /\ \A c \in Clones :
              \/ status'[c] = status[c]
              \/ c = job[j].clone /\ Present(c) /\ status'[c] \in {"idle", "error"}
         /\ \/ UNCHANGED <<entry, cancelled>>
            \/ /\ entry' = [entry EXCEPT ![job[j].clone] = Nothing]
               /\ cancelled' = cancelled \ {j} /\ job'[j].at = "ended"
<1> USE DEF TypeOK, Fail, AfterSummary, Go, calls, Live
<1>1. CASE WaitForSource(j)
  BY <1>1 DEF WaitForSource
<1>2. CASE Load(j)
  BY <1>2 DEF Load
<1>3. CASE AcquireSource(j)
  BY <1>3 DEF AcquireSource
<1>4. CASE Summarise(j)
  BY <1>4 DEF Summarise
<1>5. CASE ReleaseSource(j)
  BY <1>5 DEF ReleaseSource
<1>6. CASE Teach(j)
  BY <1>6 DEF Teach
<1>7. CASE Settle(j)
  BY <1>7 DEF Settle, Present
<1>8. CASE EndJob(j)
  <2>1. job[j] \in [clone : Clones, at : Places, summary : Summaries]
    BY <1>8 DEF EndJob, NewJob
  <2>2. job'[j].at = "ended"
    BY <1>8, <2>1 DEF EndJob
  <2>3. QED
    BY <1>8, <2>2 DEF EndJob
<1>9. QED
  BY <1>1, <1>2, <1>3, <1>4, <1>5, <1>6, <1>7, <1>8 DEF JobStep

LEMMA QuietStep ==
  ASSUME ~MayOverlap, TypeOK, KnownAreStarted, Quiet, [Next]_vars
  PROVE  Quiet'
<1> USE NothingAssumption
<1> USE DEF Quiet, Alone, StartingFree, StartsAlone, AbsentFree, LiveIsEntry, GoneIsCancelled
<1>0. \A j \in Jobs : job[j].at # "new" => job[j].clone \in Clones
  BY DEF TypeOK, NewJob
<1>1. ASSUME SamePlaces, UNCHANGED <<status, entry, cancelled, starting, deleting>>,
             starting # {} => takeover'.at = "no"
      PROVE  Quiet'
  BY <1>1 DEF SamePlaces, Live, JobsOf
<1>2. ASSUME NEW c \in Clones, CopyManagedAgent(c) PROVE Quiet'
  <2>1. \A j \in JobsOf(c) : ~Live(j)
    BY <1>2 DEF CopyManagedAgent, JobsOf, Live
  <2>2. QED
    BY <1>0, <1>2, <2>1 DEF CopyManagedAgent, AtRest, NoTakeover, Live, JobsOf, TypeOK
<1>3. ASSUME NEW c \in Clones, RetryCloneInit(c) PROVE Quiet'
  <2>1. \A j \in JobsOf(c) : ~Live(j)
    BY <1>3 DEF RetryCloneInit
  <2>2. QED
    BY <1>0, <1>3, <2>1 DEF RetryCloneInit, AtRest, NoTakeover, Live, JobsOf, TypeOK
<1>4. ASSUME NEW c \in Clones, DeleteManaged(c) PROVE Quiet'
  <2>1. SamePlaces
    BY <1>4, StopsKeepPlaces DEF DeleteManaged
  <2>2. QED
    BY <1>0, <1>4, <2>1
    DEF DeleteManaged, CancelJob, AtRest, KnownAreStarted, SamePlaces, Live, JobsOf, TypeOK
<1>5. ASSUME NEW c \in Clones, StopClone(c) PROVE Quiet'
  <2>1. SamePlaces
    BY <1>5, StopsKeepPlaces DEF StopClone
  <2>2. QED
    BY <1>0, <1>5, <2>1 DEF StopClone, AtRest, Present, SamePlaces, Live, JobsOf, TypeOK, calls
<1>6. CASE StopSource \/ DeleteSource \/ TakeOver
  <2>1. SamePlaces
    BY <1>6, StopsKeepPlaces DEF StopSource, DeleteSource, TakeOver
  <2>2. QED
    BY <1>1, <1>6, <2>1 DEF StopSource, DeleteSource, TakeOver, AtRest, calls
<1>7. CASE CallStep
  <2>1. ASSUME NEW c \in Clones, NEW j \in Jobs, StartJob(c, j) PROVE Quiet'
    <3>1. status[c] = "initializing" /\ (\A i \in JobsOf(c) : ~Live(i)) /\ deleting = {}
      BY <2>1 DEF StartJob
    <3>2. job'[j].at = "wait" /\ job'[j].clone = c /\ \A i \in Jobs \ {j} : job'[i] = job[i]
      BY <2>1 DEF StartJob, TypeOK
    <3>3. Alone'
      BY <3>1, <3>2 DEF Live, JobsOf
    <3>4. StartingFree' /\ StartsAlone'
      BY <2>1, <3>1, <3>2 DEF StartJob, Live, JobsOf
    <3>5. AbsentFree' /\ GoneIsCancelled'
      BY <2>1, <3>1, <3>2 DEF StartJob, Live
    <3>6. LiveIsEntry'
      BY <1>0, <2>1, <3>1, <3>2 DEF StartJob, Live, JobsOf, TypeOK
    <3>7. QED
      BY <3>3, <3>4, <3>5, <3>6
  <2>2. ASSUME NEW c \in Clones, DeleteRows(c) PROVE Quiet'
    BY <1>0, <2>2 DEF DeleteRows, Live, JobsOf, TypeOK, sourceVars
  <2>3. ASSUME NEW c \in Clones, MarkInterrupted(c) PROVE Quiet'
    BY <1>0, <2>3 DEF MarkInterrupted, Present, Live, JobsOf, TypeOK
  <2>4. CASE ListInterrupted \/ TakenOver
    BY <1>1, <2>4 DEF ListInterrupted, TakenOver, SamePlaces
  <2>5. CASE CancelInterrupted
    <3>1. takeover.on \in Clones
      BY <2>5 DEF CancelInterrupted, TypeOK, NoTakeover
    <3>2. QED
      BY <1>0, <2>5, <3>1 DEF CancelInterrupted, CancelJob, KnownAreStarted, Live, JobsOf, TypeOK
  <2>6. QED
    BY <1>7, <2>1, <2>2, <2>3, <2>4, <2>5 DEF CallStep
<1>8. ASSUME NEW j \in Jobs, JobStep(j) PROVE Quiet'
  <2>1. \A i \in Jobs : Live(i)' => Live(i) /\ job'[i].clone = job[i].clone
    BY <1>8, JobMoves, JobKept DEF Kept, Live
  <2>2. \A i \in Jobs : job'[i].at # "new" => job[i].at # "new" /\ job'[i].clone = job[i].clone
    BY <1>8, JobMoves, JobKept DEF Kept, Live
  <2>3. Alone'
    BY <2>1
  <2>4. StartingFree' /\ StartsAlone'
    BY <1>0, <1>8, <2>1, <2>2, JobMoves DEF JobsOf, Live, calls, TypeOK
  <2>5. AbsentFree'
    BY <1>0, <1>8, <2>2, JobMoves
  <2>6. LiveIsEntry'
    BY <1>0, <1>8, <2>1, JobMoves DEF Live, TypeOK
  <2>7. GoneIsCancelled'
    BY <1>0, <1>8, <2>1, JobMoves DEF Live, calls
  <2>8. QED
    BY <2>3, <2>4, <2>5, <2>6, <2>7
<1>9. CASE SourceTaken \/ SourceFreed \/ UNCHANGED vars
  BY <1>1, <1>9 DEF SourceTaken, SourceFreed, vars, calls, SamePlaces
<1>10. CASE Restart
  <2>1. \A j \in Jobs : ~Live(j)'
    <3> SUFFICES ASSUME NEW j \in Jobs PROVE ~Live(j)'
      OBVIOUS
    <3>1. CASE ~Live(j)
      BY <1>10, <3>1 DEF Restart, Live
    <3>2. CASE Live(j)
      <4>1. job[j] \in [clone : Clones, at : Places, summary : Summaries]
        BY <3>2 DEF Live, TypeOK, NewJob
      <4>2. job'[j] = [job[j] EXCEPT !.at = "ended", !.summary = "none"]
        BY <1>10, <3>2 DEF Restart
      <4>3. QED
        BY <4>1, <4>2 DEF Live
    <3>3. QED
      BY <3>1, <3>2
  <2>2. \A j \in Jobs : job'[j].at # "new" => job[j].at # "new" /\ job'[j].clone = job[j].clone
    BY <1>10, JobKept DEF Restart, Live, Kept, TypeOK
  <2>3. QED
    BY <1>10, <2>1, <2>2 DEF Restart
<1>11. QED
  BY <1>2, <1>3, <1>4, <1>5, <1>6, <1>7, <1>8, <1>9, <1>10 DEF Next

\* No job of a dismissed clone goes on (agent_clone.go:203), provided no job is started while
\* an earlier one of its clone is not over: with one, the earlier job's deferred Delete takes
\* the later one out of the map (agent_clone.go:215), and a dismissal no longer finds it.
THEOREM DismissedStaysQuiet ==
  ASSUME ~MayOverlap
  PROVE  Spec => []DismissedIsQuiet
<1>1. Init => Quiet
  BY DEF Init, NewJob, NoTakeover, Quiet, Alone, StartingFree, StartsAlone, AbsentFree,
         LiveIsEntry, GoneIsCancelled, Live
<1>2. IInv /\ Quiet /\ [Next]_vars => Quiet'
  BY QuietStep DEF IInv
<1>3. Quiet => DismissedIsQuiet
  BY DEF Quiet, GoneIsCancelled, DismissedIsQuiet, JobsOf
<1>4. QED
  BY <1>1, <1>2, <1>3, InductiveInvariant, PTL DEF Spec

-------------------------------------------------------------------------------
(* The test servers.                                                       *)

Holds(d, p) == decision[d].at \in {"check", "secret"} /\ decision[d].on = p
HasRun(p) == \E r \in ran : r.on = p

\* A preview is in the map, or with one decision, or has run, or none of these: never two.
TakenOnce ==
  /\ \A p \in pend : ~HasRun(p) /\ \A d \in Decisions : ~Holds(d, p)
  /\ \A p \in Previews, d \in Decisions : Holds(d, p) =>
       ~HasRun(p) /\ \A e \in Decisions : Holds(e, p) => e = d
  /\ \A r, t \in ran : r.on = t.on => r = t

\* What is held or has run was shown before, and does not change any more.
ShownFirst ==
  /\ \A p \in pend : preview[p].at = "shown"
  /\ \A d \in Decisions : decision[d].at # "new" => preview[decision[d].on].at = "shown"
  /\ \A r \in ran : preview[r.on].at = "shown" /\ decision[r.by].at = "over"

TestPermitted(d, p) ==
  /\ decision[d].client = preview[p].client /\ decision[d].says = "allow"
  /\ preview[p].harmless /\ preview[p].risk # "high"

\* A command is on its way, or has run, with a permission.
PermittedFirst ==
  /\ \A d \in Decisions : decision[d].at = "secret" => TestPermitted(d, decision[d].on)
  /\ \A r \in ran : TestPermitted(r.by, r.on)

TestIInv == Test!TypeOK /\ TakenOnce /\ ShownFirst /\ PermittedFirst

-------------------------------------------------------------------------------
LEMMA InitTestIInv == Test!Init => TestIInv
BY DEF Test!Init, TestIInv, Test!TypeOK, TakenOnce, ShownFirst, PermittedFirst, Holds, HasRun,
       Test!NewDecision

\* Neither the tables nor the deadlines touch a preview or a decision.
LEMMA TestFrame ==
  ASSUME TestIInv, UNCHANGED <<preview, decision, ran>>, pend' \subseteq pend,
         allowed' \subseteq Clients, late' \subseteq Previews,
         server' \in [Servers -> {"none", "there", "gone"}]
  PROVE  TestIInv'
BY DEF TestIInv, Test!TypeOK, TakenOnce, ShownFirst, PermittedFirst, TestPermitted, Holds, HasRun

LEMMA PreviewStep ==
  ASSUME TestIInv, NEW p \in Previews,
         (\E c \in Clients, s \in Servers : Test!BeginPreview(p, c, s)) \/ Test!RegisterPreview(p)
  PROVE  TestIInv'
<1>1. PICK r \in Test!BegunPreviews :
       /\ preview' = [preview EXCEPT ![p] = r]
       /\ preview[p].at # "shown"
       /\ pend' \subseteq pend \cup {p}
       /\ p \in pend' => r.at = "shown"
  <2>1. ASSUME NEW c \in Clients, NEW s \in Servers, Test!BeginPreview(p, c, s)
        PROVE  \E r \in Test!BegunPreviews :
                 /\ preview' = [preview EXCEPT ![p] = r]
                 /\ preview[p].at # "shown"
                 /\ pend' \subseteq pend \cup {p}
                 /\ p \in pend' => r.at = "shown"
    <3> DEFINE r == [Test!NewPreview EXCEPT !.at = "explain", !.client = c, !.server = s]
    <3>1. r \in Test!BegunPreviews
      BY DEF Test!BegunPreviews, Test!NewPreview, Test!Risks
    <3>2. preview[p].at # "shown" /\ p \notin pend
      <4>1. preview[p] = Test!NewPreview
        BY <2>1 DEF Test!BeginPreview
      <4>2. QED
        BY <4>1 DEF Test!NewPreview, TestIInv, ShownFirst
    <3>3. QED
      BY <2>1, <3>1, <3>2 DEF Test!BeginPreview
  <2>2. CASE Test!RegisterPreview(p)
    <3>1. PICK e \in Test!ExplainCommand \cup {Test!NoExplanation} :
            preview' = [preview EXCEPT ![p] =
              [@ EXCEPT !.at = "shown", !.risk = e.risk, !.harmless = e.harmless]]
      BY <2>2 DEF Test!RegisterPreview
    <3>2. e.risk \in Test!Risks /\ e.harmless \in BOOLEAN
      <4>1. CASE e \in Test!ExplainCommand
        BY <4>1 DEF Test!ExplainCommand
      <4>2. CASE e = Test!NoExplanation
        BY <4>2 DEF Test!NoExplanation, Test!Risks
      <4>3. QED
        BY <4>1, <4>2
    <3>3. PICK o \in Test!BegunPreviews : o = preview[p]
      <4>1. preview[p] \in {Test!NewPreview} \cup Test!BegunPreviews
        BY DEF TestIInv, Test!TypeOK
      <4>2. preview[p] # Test!NewPreview
        <5>1. preview[p].at = "explain"
          BY <2>2 DEF Test!RegisterPreview
        <5>2. QED
          BY <5>1 DEF Test!NewPreview
      <4>3. QED
        BY <4>1, <4>2
    <3> DEFINE r == [o EXCEPT !.at = "shown", !.risk = e.risk, !.harmless = e.harmless]
    <3>4. r \in Test!BegunPreviews /\ r.at = "shown"
      BY <3>2 DEF Test!BegunPreviews
    <3>5. preview' = [preview EXCEPT ![p] = r]
      BY <3>1, <3>3
    <3>6. QED
      BY <2>2, <3>4, <3>5 DEF Test!RegisterPreview
  <2>3. QED
    BY <2>1, <2>2
<1>2. UNCHANGED <<allowed, server, late, decision, ran>>
  BY DEF Test!BeginPreview, Test!RegisterPreview
<1>3. preview' \in [Previews -> {Test!NewPreview} \cup Test!BegunPreviews] /\ preview'[p] = r
      /\ \A o \in Previews \ {p} : preview'[o] = preview[o]
  BY <1>1 DEF TestIInv, Test!TypeOK
<1>4. Test!TypeOK'
  BY <1>1, <1>2, <1>3 DEF TestIInv, Test!TypeOK
<1>5. ~HasRun(p) /\ \A d \in Decisions : decision[d].at # "new" => decision[d].on # p
  BY <1>1 DEF TestIInv, ShownFirst, HasRun
<1>6. TakenOnce'
  BY <1>1, <1>2, <1>5 DEF TestIInv, TakenOnce, Holds, HasRun
<1>7. \A d \in Decisions : decision[d].at # "new" => decision[d].on \in Previews
  <2>1. \A d \in Decisions : decision[d] \in {Test!NewDecision} \cup Test!BegunDecisions
    BY DEF TestIInv, Test!TypeOK
  <2>2. QED
    BY <2>1 DEF Test!NewDecision, Test!BegunDecisions
<1>8. \A t \in ran : t.on \in Previews /\ t.on # p
  BY <1>5 DEF TestIInv, Test!TypeOK, HasRun
<1>9. ShownFirst'
  BY <1>1, <1>2, <1>3, <1>5, <1>7, <1>8 DEF TestIInv, Test!TypeOK, ShownFirst
<1>10. PermittedFirst'
  BY <1>2, <1>3, <1>5, <1>7, <1>8 DEF TestIInv, PermittedFirst, TestPermitted
<1>11. QED
  BY <1>4, <1>6, <1>9, <1>10 DEF TestIInv

\* A decision goes on; only Take brings it to hold its preview, only RunCommand to run it.
LEMMA DecisionStep ==
  ASSUME TestIInv, NEW d \in Decisions,
         \/ \E c \in Clients, p \in Previews, says \in {"allow", "deny"} :
              Test!BeginDecision(d, c, p, says)
         \/ Test!Take(d) \/ Test!CheckDecision(d) \/ Test!RunCommand(d)
  PROVE  TestIInv'
<1>0. decision \in [Decisions -> {Test!NewDecision} \cup Test!BegunDecisions]
  BY DEF TestIInv, Test!TypeOK
<1>1. ASSUME NEW c \in Clients, NEW p \in Previews, NEW says \in {"allow", "deny"},
             Test!BeginDecision(d, c, p, says)
      PROVE  TestIInv'
  <2>1. PICK n \in Test!BegunDecisions :
          /\ n.at = "take" /\ n.on = p
          /\ decision' = [decision EXCEPT ![d] = n]
    <3> DEFINE n == [at |-> "take", client |-> c, on |-> p, says |-> says]
    <3>1. n \in Test!BegunDecisions
      BY DEF Test!BegunDecisions
    <3>2. QED
      BY <1>1, <3>1 DEF Test!BeginDecision
  <2>2. decision'[d] = n /\ \A e \in Decisions \ {d} : decision'[e] = decision[e]
    BY <1>0, <2>1
  <2>3. \A r \in ran : r.by \in Decisions /\ r.by # d
    BY <1>1 DEF TestIInv, Test!TypeOK, ShownFirst, Test!BeginDecision, Test!NewDecision
  <2>4. Test!TypeOK'
    BY <1>0, <1>1, <2>1 DEF TestIInv, Test!TypeOK, Test!BeginDecision
  <2>5. TakenOnce'
    BY <1>1, <2>1, <2>2 DEF TestIInv, TakenOnce, Holds, HasRun, Test!BeginDecision
  <2>6. ShownFirst'
    BY <1>1, <2>1, <2>2, <2>3 DEF TestIInv, ShownFirst, Test!BeginDecision
  <2>7. PermittedFirst'
    BY <1>1, <2>1, <2>2, <2>3 DEF TestIInv, PermittedFirst, TestPermitted, Test!BeginDecision
  <2>8. QED
    BY <2>4, <2>5, <2>6, <2>7 DEF TestIInv
<1>2. ASSUME NEW place \in {"check", "secret", "over"}, Test!Decide(d, place),
             decision[d].at # "new"
      PROVE  /\ decision' \in [Decisions -> {Test!NewDecision} \cup Test!BegunDecisions]
             /\ decision'[d].at = place /\ decision'[d].client = decision[d].client
             /\ decision'[d].on = decision[d].on /\ decision'[d].says = decision[d].says
             /\ \A e \in Decisions \ {d} : decision'[e] = decision[e]
  <2>1. PICK o \in Test!BegunDecisions : o = decision[d]
    BY <1>0, <1>2 DEF Test!NewDecision
  <2> DEFINE n == [o EXCEPT !.at = place]
  <2>2. /\ n \in Test!BegunDecisions /\ n.at = place
        /\ n.client = o.client /\ n.on = o.on /\ n.says = o.says
    BY DEF Test!BegunDecisions
  <2>3. decision' = [decision EXCEPT ![d] = n]
    BY <1>2, <2>1 DEF Test!Decide
  <2>4. QED
    BY <1>0, <2>1, <2>2, <2>3
<1>3. decision[d].at # "new" => decision[d].on \in Previews
  BY <1>0 DEF Test!BegunDecisions, Test!NewDecision
<1>4. ASSUME decision[d].at # "over" PROVE \A r \in ran : r.by # d
  BY <1>4 DEF TestIInv, ShownFirst
<1>5. CASE Test!Take(d)
  <2>1. PICK place \in {"check", "over"} :
          /\ Test!Decide(d, place) /\ pend' = pend \ {decision[d].on}
          /\ place = "check" => decision[d].on \in pend
    BY <1>5 DEF Test!Take
  <2>2. decision[d].at = "take" /\ UNCHANGED <<allowed, server, preview, late, ran>>
    BY <1>5 DEF Test!Take
  <2>3. Test!TypeOK'
    BY <1>2, <2>1, <2>2 DEF TestIInv, Test!TypeOK
  <2>4. TakenOnce'
    BY <1>2, <1>3, <2>1, <2>2 DEF TestIInv, TakenOnce, Holds, HasRun
  <2>5. ShownFirst'
    BY <1>2, <1>4, <2>1, <2>2 DEF TestIInv, Test!TypeOK, ShownFirst
  <2>6. PermittedFirst'
    BY <1>2, <1>4, <2>1, <2>2 DEF TestIInv, Test!TypeOK, PermittedFirst, TestPermitted
  <2>7. QED
    BY <2>3, <2>4, <2>5, <2>6 DEF TestIInv
<1>6. CASE Test!CheckDecision(d)
  <2>1. PICK place \in {"secret", "over"} :
          Test!Decide(d, place) /\ (place = "secret" => TestPermitted(d, decision[d].on))
    BY <1>6 DEF Test!CheckDecision, TestPermitted
  <2>2. decision[d].at = "check" /\ UNCHANGED <<allowed, server, preview, pend, late, ran>>
    BY <1>6 DEF Test!CheckDecision
  <2>3. Test!TypeOK'
    BY <1>2, <2>1, <2>2 DEF TestIInv, Test!TypeOK
  <2>4. TakenOnce'
    BY <1>2, <2>1, <2>2 DEF TestIInv, TakenOnce, Holds, HasRun
  <2>5. ShownFirst'
    BY <1>2, <1>4, <2>1, <2>2 DEF TestIInv, Test!TypeOK, ShownFirst
  <2>6. PermittedFirst'
    BY <1>2, <1>4, <2>1, <2>2 DEF TestIInv, Test!TypeOK, PermittedFirst, TestPermitted
  <2>7. QED
    BY <2>3, <2>4, <2>5, <2>6 DEF TestIInv
<1>7. CASE Test!RunCommand(d)
  <2>1. /\ decision[d].at = "secret" /\ Test!Decide(d, "over")
        /\ UNCHANGED <<allowed, server, preview, pend, late>>
    BY <1>7 DEF Test!RunCommand
  <2> DEFINE new == [on |-> decision[d].on, by |-> d]
  <2>2. ran' = ran \/ ran' = ran \cup {new}
    BY <1>7 DEF Test!RunCommand, Test!RunSSH
  <2>3. new \in [on : Previews, by : Decisions] /\ new.on = decision[d].on /\ new.by = d
    BY <1>3, <2>1
  <2>4. Test!TypeOK'
    BY <1>2, <2>1, <2>2, <2>3 DEF TestIInv, Test!TypeOK
  <2>5. TakenOnce'
    <3>1. Holds(d, decision[d].on) /\ ~HasRun(decision[d].on) /\ decision[d].on \notin pend
      BY <1>3, <2>1 DEF TestIInv, TakenOnce, Holds
    <3>2. \A r, t \in ran' : r.on = t.on => r = t
      BY <2>2, <2>3, <3>1 DEF TestIInv, TakenOnce, HasRun
    <3>3. \A p \in Previews, e \in Decisions : Holds(e, p)' => e # d /\ Holds(e, p)
      BY <1>2, <2>1 DEF Holds
    <3>4. \A p : HasRun(p)' => HasRun(p) \/ p = decision[d].on
      BY <2>2, <2>3 DEF HasRun
    <3>5. pend \subseteq Previews
      BY DEF TestIInv, Test!TypeOK
    <3>6. QED
      BY <2>1, <3>1, <3>2, <3>3, <3>4, <3>5 DEF TestIInv, TakenOnce
  <2>6. ShownFirst'
    BY <1>2, <1>4, <2>1, <2>2, <2>3 DEF TestIInv, Test!TypeOK, ShownFirst
  <2>7. PermittedFirst'
    BY <1>2, <1>4, <2>1, <2>2, <2>3 DEF TestIInv, Test!TypeOK, PermittedFirst, TestPermitted
  <2>8. QED
    BY <2>4, <2>5, <2>6, <2>7 DEF TestIInv
<1>8. QED
  BY <1>1, <1>5, <1>6, <1>7

LEMMA NextTestIInv == TestIInv /\ [Test!Next]_Test!vars => TestIInv'
<1> SUFFICES ASSUME TestIInv, [Test!Next]_Test!vars PROVE TestIInv'
  OBVIOUS
<1>1. ASSUME NEW s \in Servers, Test!InsertTestServer(s) \/ Test!DeleteTestServer(s) PROVE TestIInv'
  BY <1>1, TestFrame DEF TestIInv, Test!TypeOK, Test!InsertTestServer, Test!DeleteTestServer
<1>2. ASSUME NEW c \in Clients,
             Test!UpsertTestServerAllowedIP(c) \/ Test!DeleteTestServerAllowedIP(c)
      PROVE  TestIInv'
  BY <1>2, TestFrame
  DEF TestIInv, Test!TypeOK, Test!UpsertTestServerAllowedIP, Test!DeleteTestServerAllowedIP
<1>3. ASSUME NEW p \in Previews, Test!DeadlinePasses(p) PROVE TestIInv'
  BY <1>3, TestFrame DEF TestIInv, Test!TypeOK, Test!DeadlinePasses
<1>4. CASE UNCHANGED Test!vars
  BY <1>4, TestFrame DEF TestIInv, Test!TypeOK, Test!vars
<1>5. QED
  BY <1>1, <1>2, <1>3, <1>4, PreviewStep, DecisionStep DEF Test!Next

\* The inductive invariant of every behaviour of the previews and decisions.
THEOREM TestInductiveInvariant == Test!Spec => []TestIInv
BY InitTestIInv, NextTestIInv, PTL DEF Test!Spec

\* What was shown runs at most once.
LEMMA RunsAtMostOnceAlone == Test!Spec => []Test!RunsOnce
<1>1. TestIInv => Test!RunsOnce
  BY DEF TestIInv, TakenOnce, PermittedFirst, TestPermitted, Test!RunsOnce
<1>2. QED
  BY TestInductiveInvariant, <1>1, PTL DEF Test!Spec

-------------------------------------------------------------------------------
(* The services side by side.  An instance of a module and one of the module of its      *)
(* theorems hold the same definitions: unfolding both shows it.                          *)

LEMMA SameChat ==
  /\ Chat!Init <=> ChatP!Init
  /\ Chat!Next <=> ChatP!Next
  /\ Chat!TurnIsKept <=> ChatP!TurnIsKept
  /\ Chat!RulesAreRepeated <=> ChatP!RulesAreRepeated
  /\ Chat!StatusSettles <=> ChatP!StatusSettles
<1>1. Chat!Init <=> ChatP!Init
  BY DEF Chat!Actors, Chat!NoSync, Chat!Init, ChatP!Actors, ChatP!NoSync, ChatP!Init
<1>2. Chat!Next <=> ChatP!Next
  BY DEF Chat!Actors, Chat!call, Chat!NoSync, Chat!UserRow, Chat!ReplyRow, Chat!NoticeRow,
      Chat!Busy, Chat!Quiet, Chat!Syncing, Chat!MayCome, Chat!HasHook,
      Chat!LatestTurnToPreserve, Chat!CompactStatusAfterSync, Chat!At, Chat!KeepLatest,
      Chat!SyncLook, Chat!SyncRead, Chat!SyncMark, Chat!SyncClear, Chat!SyncNotice,
      Chat!SyncKeep, Chat!SyncReinject, Chat!SyncFinish, Chat!SyncStep, Chat!StartSync,
      Chat!Go, Chat!Begin, Chat!StoreQuestion, Chat!CheckReinject, Chat!ClearReinject,
      Chat!Launch, Chat!markCompactPending, Chat!consumeCompactPending, Chat!Compacts,
      Chat!HookGone, Chat!Stop, Chat!EngineEnds, Chat!SaveReply,
      Chat!FlushCompactAfterAsk, Chat!Flushed, Chat!CompressManagedChat,
      Chat!EngineCompacts, Chat!EngineFails, Chat!Compressed, Chat!ClientGone,
      Chat!AskStep, Chat!CompressStep, Chat!Next, ChatP!Actors, ChatP!call,
      ChatP!NoSync, ChatP!UserRow, ChatP!ReplyRow, ChatP!NoticeRow, ChatP!Busy,
      ChatP!Quiet, ChatP!Syncing, ChatP!MayCome, ChatP!HasHook,
      ChatP!LatestTurnToPreserve, ChatP!CompactStatusAfterSync, ChatP!At,
      ChatP!KeepLatest, ChatP!SyncLook, ChatP!SyncRead, ChatP!SyncMark, ChatP!SyncClear,
      ChatP!SyncNotice, ChatP!SyncKeep, ChatP!SyncReinject, ChatP!SyncFinish,
      ChatP!SyncStep, ChatP!StartSync, ChatP!Go, ChatP!Begin, ChatP!StoreQuestion,
      ChatP!CheckReinject, ChatP!ClearReinject, ChatP!Launch, ChatP!markCompactPending,
      ChatP!consumeCompactPending, ChatP!Compacts, ChatP!HookGone, ChatP!Stop,
      ChatP!EngineEnds, ChatP!SaveReply, ChatP!FlushCompactAfterAsk, ChatP!Flushed,
      ChatP!CompressManagedChat, ChatP!EngineCompacts, ChatP!EngineFails,
      ChatP!Compressed, ChatP!ClientGone, ChatP!AskStep, ChatP!CompressStep, ChatP!Next
<1>3. Chat!TurnIsKept <=> ChatP!TurnIsKept
  BY DEF Chat!Actors, Chat!UserRow, Chat!ReplyRow, Chat!Busy, Chat!Quiet, Chat!TurnIsKept,
      ChatP!Actors, ChatP!UserRow, ChatP!ReplyRow, ChatP!Busy, ChatP!Quiet,
      ChatP!TurnIsKept
<1>4. Chat!RulesAreRepeated <=> ChatP!RulesAreRepeated
  BY DEF Chat!RulesAreRepeated, ChatP!RulesAreRepeated
<1>5. Chat!StatusSettles <=> ChatP!StatusSettles
  BY DEF Chat!Actors, Chat!Busy, Chat!Quiet, Chat!StatusSettles, ChatP!Actors, ChatP!Busy,
      ChatP!Quiet, ChatP!StatusSettles
<1>6. QED
  BY <1>1, <1>2, <1>3, <1>4, <1>5

LEMMA SameDesk ==
  /\ Desk!Init <=> DeskP!Init
  /\ Desk!Next <=> DeskP!Next
  /\ Desk!AnswersStayPrivate <=> DeskP!AnswersStayPrivate
  /\ Desk!LogIsTrue <=> DeskP!LogIsTrue
<1>1. Desk!Init <=> DeskP!Init
  BY DEF Desk!Calls, Desk!NewCall, Desk!Init, DeskP!Calls, DeskP!NewCall, DeskP!Init
<1>2. Desk!Next <=> DeskP!Next
  BY DEF Desk!Calls, Desk!desk, Desk!asked, Desk!At, Desk!Go, Desk!Busy, Desk!Exists,
      Desk!AddRow, Desk!QuestionOf, Desk!AnswerOf, Desk!Register, Desk!Parse,
      Desk!GetVisitorByPublicID, Desk!GetReceptionist, Desk!RequireVisitor,
      Desk!ReadReceptionist, Desk!EnsureVisitorConversation,
      Desk!CreateVisitorConversation, Desk!SetVisitorCurrentConversation,
      Desk!AskReceptionist, Desk!TakeSlot, Desk!StoreQuestion, Desk!BeginVisitorAskLog,
      Desk!SaveAnswer, Desk!LeaveSlot, Desk!FinishVisitorAskLog,
      Desk!FinalizeVisitorAskAudit, Desk!Disconnect, Desk!SetReceptionist,
      Desk!FindReceptionist, Desk!ClearReceptionist, Desk!StopAgent, Desk!StopManaged,
      Desk!DismissAgent, Desk!DeleteManagedAgent, Desk!CallStep, Desk!Next, DeskP!Calls,
      DeskP!desk, DeskP!asked, DeskP!At, DeskP!Go, DeskP!Busy, DeskP!Exists,
      DeskP!AddRow, DeskP!QuestionOf, DeskP!AnswerOf, DeskP!Register, DeskP!Parse,
      DeskP!GetVisitorByPublicID, DeskP!GetReceptionist, DeskP!RequireVisitor,
      DeskP!ReadReceptionist, DeskP!EnsureVisitorConversation,
      DeskP!CreateVisitorConversation, DeskP!SetVisitorCurrentConversation,
      DeskP!AskReceptionist, DeskP!TakeSlot, DeskP!StoreQuestion,
      DeskP!BeginVisitorAskLog, DeskP!SaveAnswer, DeskP!LeaveSlot,
      DeskP!FinishVisitorAskLog, DeskP!FinalizeVisitorAskAudit, DeskP!Disconnect,
      DeskP!SetReceptionist, DeskP!FindReceptionist, DeskP!ClearReceptionist,
      DeskP!StopAgent, DeskP!StopManaged, DeskP!DismissAgent, DeskP!DeleteManagedAgent,
      DeskP!CallStep, DeskP!Next
<1>3. Desk!AnswersStayPrivate <=> DeskP!AnswersStayPrivate
  BY DEF Desk!AnswersStayPrivate, DeskP!AnswersStayPrivate
<1>4. Desk!LogIsTrue <=> DeskP!LogIsTrue
  BY DEF Desk!At, Desk!Exists, Desk!QuestionOf, Desk!AnswerOf, Desk!LogIsTrue, DeskP!At,
      DeskP!Exists, DeskP!QuestionOf, DeskP!AnswerOf, DeskP!LogIsTrue
<1>5. QED
  BY <1>1, <1>2, <1>3, <1>4

\* What the services do is, seen from one of them, what it does alone.
LEMMA Alongside ==
  /\ ServicesSpec => ChatP!Spec
  /\ ServicesSpec => DeskP!Spec
  /\ ServicesSpec => Test!Spec
<1>1. /\ ServicesInit => ChatP!Init
      /\ [ServicesNext]_<<vars, chatVars, deskVars, testVars>> => [ChatP!Next]_ChatP!vars
  BY SameChat DEF ServicesInit, ServicesNext, CloneStep, ChatStep, DeskStep, TestStep,
                  chatVars, ChatP!vars
<1>2. /\ ServicesInit => DeskP!Init
      /\ [ServicesNext]_<<vars, chatVars, deskVars, testVars>> => [DeskP!Next]_DeskP!vars
  BY SameDesk DEF ServicesInit, ServicesNext, CloneStep, ChatStep, DeskStep, TestStep,
                  deskVars, DeskP!vars
<1>3. /\ ServicesInit => Test!Init
      /\ [ServicesNext]_<<vars, chatVars, deskVars, testVars>> => [Test!Next]_Test!vars
  BY DEF ServicesInit, ServicesNext, CloneStep, ChatStep, DeskStep, TestStep,
         testVars, Test!vars
<1>4. QED
  BY <1>1, <1>2, <1>3, PTL
  DEF ServicesSpec, ChatP!Spec, DeskP!Spec, Test!Spec

\* One compaction at a time, whose client waits for it, and engines whose hook is neither
\* killed with its ask nor runs out of time: what the three theorems on the chat suppose.
OrderlyChat ==
  ~MayCross /\ Impatient = {} /\ "claude" \notin Stoppable /\ "cursor" \notin Stoppable

LEMMA ChatParameters == ChatP!Parameters
BY ChatAssumption DEF ChatP!Parameters

LEMMA DeskParameters == DeskP!Parameters
BY DeskAssumption DEF DeskP!Parameters

\* A compaction the engine decided on keeps the question and the answer of its turn
\* (compact.go:94), whatever the other services do.
THEOREM TurnIsAlwaysKept == ASSUME OrderlyChat PROVE ServicesSpec => []TurnIsKept
<1>1. ChatP!Orderly
  BY DEF OrderlyChat, ChatP!Orderly
<1>2. ChatP!Spec => []ChatP!TurnIsKept
  BY <1>1, ChatParameters, ChatP!TurnKept
<1>3. ChatP!TurnIsKept => TurnIsKept
  BY SameChat DEF TurnIsKept
<1>4. QED
  BY <1>2, <1>3, Alongside, PTL

\* A thread that was compacted is told the system's rules with the next prompt
\* (compact.go:160).
THEOREM RulesAreAlwaysRepeated == ASSUME OrderlyChat PROVE ServicesSpec => []RulesAreRepeated
<1>1. ChatP!Orderly
  BY DEF OrderlyChat, ChatP!Orderly
<1>2. ChatP!Spec => []ChatP!RulesAreRepeated
  BY <1>1, ChatParameters, ChatP!RulesRepeated
<1>3. ChatP!RulesAreRepeated => RulesAreRepeated
  BY SameChat DEF RulesAreRepeated
<1>4. QED
  BY <1>2, <1>3, Alongside, PTL

\* With nobody at work on the chat the agent neither runs nor compresses (compact.go:178).
THEOREM StatusAlwaysSettles == ASSUME OrderlyChat PROVE ServicesSpec => []StatusSettles
<1>1. ChatP!Orderly
  BY DEF OrderlyChat, ChatP!Orderly
<1>2. ChatP!Spec => []ChatP!StatusSettles
  BY <1>1, ChatParameters, ChatP!StatusSettled
<1>3. ChatP!StatusSettles => StatusSettles
  BY SameChat DEF StatusSettles
<1>4. QED
  BY <1>2, <1>3, Alongside, PTL

\* Nobody reads another visitor's question or answer (receptionist.go:91).
THEOREM AnswersAlwaysPrivate == ServicesSpec => []AnswersStayPrivate
<1>1. DeskP!Spec => []DeskP!AnswersStayPrivate
  BY DeskParameters, DeskP!AnswersPrivate
<1>2. DeskP!AnswersStayPrivate => AnswersStayPrivate
  BY SameDesk DEF AnswersStayPrivate
<1>3. QED
  BY <1>1, <1>2, Alongside, PTL

\* The audit of an ask that is over is closed and tells what happened
\* (visitor_ask_audit.go, FinalizeVisitorAskAudit).
THEOREM LogAlwaysTrue == ServicesSpec => []LogIsTrue
<1>1. DeskP!Spec => []DeskP!LogIsTrue
  BY DeskParameters, DeskP!LogTrue
<1>2. DeskP!LogIsTrue => LogIsTrue
  BY SameDesk DEF LogIsTrue
<1>3. QED
  BY <1>1, <1>2, Alongside, PTL

\* What was shown runs at most once, and only with the permission of the client it was
\* shown to (handler/test_servers.go:194).
THEOREM RunsAtMostOnce == ServicesSpec => []RunsOnce
BY RunsAtMostOnceAlone, Alongside, PTL DEF RunsOnce
================================================================================
