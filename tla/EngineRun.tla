------------------------------ MODULE EngineRun ------------------------------
(***************************************************************************)
(* The engine processes behind the asks of one conversation.               *)
(*                                                                         *)
(* An ask is handed to a command line engine (Claude, Codex or Cursor)     *)
(* whose own thread of talk is resumed by its id.  The id is kept with the *)
(* conversation; without one the platform's own turns go into the prompt.  *)
(* A process may die, may be killed, and may find its thread gone: the     *)
(* code then runs the prompt again in another form, clears the id, or asks *)
(* the engine to check what it had done.  "home" is Claude as the main     *)
(* chat of the home page uses it: no pre-emption and no recovery, and the  *)
(* rows are written at the end.                                            *)
(*                                                                         *)
(* A text is the sequence of the numbered pieces it was said in.           *)
(***************************************************************************)
EXTENDS Naturals, Sequences

CONSTANTS
  Asks,        \* asks of the conversation
  Light,       \* those that only plan or summarise (noHook): they leave no trace
  Threads,     \* ids of threads; one that nothing names any more stands for a new one
  Sub,         \* the id of a sub-agent's thread
  Engines,     \* engines under consideration
  MaxRecover,  \* maxTerminalRecover
  MaxPieces,   \* bound: pieces of text the processes of one ask say
  MayOverlap,  \* whether an ask may arrive while another one is under way
  MayClear,    \* whether the chat may be cleared
  MayLose,     \* whether an engine may lose a thread
  Nothing

ASSUME LightAssumption == Light \subseteq Asks
ASSUME ThreadsAssumption == Sub \notin Threads
ASSUME NothingAssumption == Nothing \notin Threads \cup Asks \cup {Sub}
ASSUME EnginesAssumption == Engines \subseteq {"claude", "codex", "cursor", "home"}
ASSUME RecoverAssumption == MaxRecover \in Nat /\ MaxPieces \in Nat
ASSUME MayAssumption == MayOverlap \in BOOLEAN /\ MayClear \in BOOLEAN /\ MayLose \in BOOLEAN

VARIABLES
  engine,    \* the agent's engine
  session,   \* conversations.engine_session_id
  messages,  \* the conversation's rows that RecentTurns looks at
  dead,      \* asks under way whose context is cancelled
  run,       \* of every ask: where it stands, and its current process
  owner,     \* of every thread: the ask that started it
  lost,      \* threads whose rollout is gone
  knows,     \* of every thread: the asks whose replies it holds
  clear      \* progress of a ClearManagedChat

world == <<owner, lost, knows>>
vars == <<engine, session, messages, dead, run, owner, lost, knows, clear>>

Places == {"new", "store", "read", "start", "up", "ended", "judged", "done"}
Modes == {"json", "text", "bare"}
Ends == {"ok", "fail", "kill", "timeout", "cancelled", "gone"}
Ids == Threads \cup {Sub, Nothing}
Runs ==
  [ at : Places, mode : Modes, try : 0..MaxRecover, again : BOOLEAN,
    resume : Ids,                      \* the thread the process is to resume
    hist : SUBSET Asks,                \* replies the prompt quotes
    thread : Ids,                      \* the thread the process works in
    meta : Ids,                        \* lastMeta.SessionID
    n : 0..MaxPieces,                  \* pieces said so far
    text : Seq(Nat),                   \* text of the current call of the engine
    partial : Seq(Nat),                \* text of the interrupted ones before it
    shown : Seq(Nat),                  \* chunks streamed to the client
    saw : BOOLEAN,                     \* a result line (Claude), a JSON line (Codex)
    how : Ends,                        \* how the process ended
    err : Ends ]                       \* the error of the call
Rows == [role : {"user", "assistant"}, ask : Asks]

TypeOK ==
  /\ engine \in Engines
  /\ session \in Ids
  /\ messages \in Seq(Rows)
  /\ dead \in SUBSET Asks
  /\ run \in [Asks -> Runs]
  /\ owner \in [Threads -> Asks \cup {Nothing}]
  /\ lost \in SUBSET Threads
  /\ knows \in [Threads -> SUBSET Asks]
  /\ clear \in {"no", "rows", "done"}

Fresh ==
  [ at |-> "new", mode |-> "json", try |-> 0, again |-> FALSE, resume |-> Nothing,
    hist |-> {}, thread |-> Nothing, meta |-> Nothing, n |-> 0, text |-> <<>>,
    partial |-> <<>>, shown |-> <<>>, saw |-> FALSE, how |-> "ok", err |-> "ok" ]

Init ==
  /\ engine \in Engines
  /\ session = Nothing
  /\ messages = <<>>
  /\ dead = {}
  /\ run = [q \in Asks |-> Fresh]
  /\ owner = [t \in Threads |-> Nothing]
  /\ lost = {}
  /\ knows = [t \in Threads |-> {}]
  /\ clear = "no"

------------------------------------------------------------------------------
(* Helpers.                                                                *)

Managed == engine # "home"
Persisted(q) == q \notin Light
Active(q) == run[q].at \notin {"new", "done"}
Unused ==
  Threads \ ({session} \cup UNION {{run[q].resume, run[q].thread, run[q].meta} : q \in Asks})
NewThread == CHOOSE t \in Unused : TRUE
Streams(q) == engine # "cursor" /\ run[q].mode = "json"

UserRow(q) == [role |-> "user", ask |-> q]
ReplyRow(q) == [role |-> "assistant", ask |-> q]

\* A cancelled context reads nothing.
ReadMessages(q) == IF q \in dead THEN <<>> ELSE messages
ReadSessionID(q) == IF q \in dead THEN Nothing ELSE session

\* Every question with the first reply between it and the next question; of these the
\* replies are what a prompt quotes.
RecentTurns(rows) ==
  {rows[j].ask : j \in {j \in 2..Len(rows) :
     rows[j].role = "assistant" /\ rows[j - 1].role = "user"}}
ResumeHistory(q) == RecentTurns(ReadMessages(q))

\* Mutant: the id that comes last wins.
LastSessionID(prev, incoming) == IF incoming # Nothing THEN incoming ELSE prev

StickySessionID(prev, incoming) == IF prev # Nothing THEN prev ELSE incoming

\* The column takes an id only while it is empty.
UpdateEngineMeta(id) == session' = StickySessionID(session, id)
ClearEngineMeta == session' = Nothing

\* Mutant: the calls that only plan bind their thread as well.
RememberAnyMeta(q, id) == UpdateEngineMeta(id)

\* onMeta, outside the ask's context.
RememberEngineMeta(q, id) ==
  IF Persisted(q) THEN UpdateEngineMeta(id) ELSE UNCHANGED session

------------------------------------------------------------------------------
(* An ask.                                                                 *)

\* askManagedCore registers its slot, which cancels the ask under way; a light call
\* and the main chat cancel nothing.
Begin(q) ==
  /\ run[q].at = "new"
  /\ MayOverlap \/ \A p \in Asks : ~Active(p)
  /\ dead' = IF Managed /\ Persisted(q)
             THEN dead \cup {p \in Asks \ Light : Active(p)} ELSE dead
  /\ run' = [run EXCEPT ![q].at = IF Managed /\ Persisted(q) THEN "store" ELSE "read"]
  /\ UNCHANGED <<engine, session, messages, world, clear>>

\* The question is stored before anything else, through the ask's context.
StoreQuestion(q) ==
  /\ run[q].at = "store"
  /\ messages' = IF q \in dead THEN messages ELSE Append(messages, UserRow(q))
  /\ run' = [run EXCEPT ![q].at = "read"]
  /\ UNCHANGED <<engine, session, dead, world, clear>>

\* The client of the main chat, or a stop, ends the ask.
Cancel(q) ==
  /\ Active(q)
  /\ q \notin dead
  /\ dead' = dead \cup {q}
  /\ UNCHANGED <<engine, session, messages, run, world, clear>>

\* runManagedEngine reads the thread to resume; without one it quotes the turns.
ReadSession(q) ==
  /\ run[q].at = "read"
  /\ LET resume == IF Persisted(q) THEN ReadSessionID(q) ELSE Nothing
         hist == IF Persisted(q) /\ resume = Nothing THEN ResumeHistory(q) ELSE {}
     IN run' = [run EXCEPT ![q] = [@ EXCEPT !.at = "start", !.mode = "json", !.again = FALSE,
                                    !.resume = resume, !.hist = hist, !.text = <<>>]]
  /\ Managed \/ q \notin dead
  /\ UNCHANGED <<engine, session, messages, dead, world, clear>>

\* The main chat reads more of the database first and leaves with its error.
Leave(q) ==
  /\ run[q].at = "read"
  /\ ~Managed
  /\ q \in dead
  /\ run' = [run EXCEPT ![q] = [@ EXCEPT !.at = "done", !.err = "cancelled"]]
  /\ dead' = dead \ {q}
  /\ UNCHANGED <<engine, session, messages, world, clear>>

\* A process that cannot start, or whose thread is gone, ends without a word.
LaunchFails(q) ==
  /\ run[q].at = "start"
  /\ \/ q \in dead
     \/ run[q].resume \in lost
  /\ run' = [run EXCEPT ![q] = [@ EXCEPT !.at = "ended", !.saw = FALSE, !.meta = Nothing,
                                  !.how = IF q \in dead THEN "cancelled" ELSE "gone"]]
  /\ UNCHANGED <<engine, session, messages, dead, world, clear>>

\* The process works in the thread it resumes, or in a new one that knows the turns
\* its prompt quotes.
Launch(q) ==
  /\ run[q].at = "start"
  /\ q \notin dead
  /\ run[q].resume \notin lost
  /\ LET isNew == run[q].resume = Nothing
         t == IF isNew THEN NewThread ELSE run[q].resume
     IN /\ isNew => Unused # {}
        /\ run' = [run EXCEPT ![q] = [@ EXCEPT !.at = "up", !.thread = t, !.meta = Nothing,
                                        !.saw = FALSE]]
        /\ IF isNew
           THEN /\ owner' = [owner EXCEPT ![t] = q]
                /\ knows' = [knows EXCEPT ![t] = run[q].hist]
                /\ lost' = lost \ {t}
           ELSE UNCHANGED world
  /\ UNCHANGED <<engine, session, messages, dead, clear>>

------------------------------------------------------------------------------
(* What a process says, line by line.                                      *)

\* The ids on its lines: the thread's own first, a sub-agent's later.
AnnouncedIds(q) == {run[q].thread} \cup IF run[q].meta = Nothing THEN {} ELSE {Sub}

\* Every line of Claude's names a session.
Announce(q, id) ==
  /\ run[q].at = "up"
  /\ engine \in {"claude", "home"}
  /\ id \in AnnouncedIds(q)
  /\ run' = [run EXCEPT ![q].meta = StickySessionID(@, id)]
  /\ RememberEngineMeta(q, StickySessionID(run[q].meta, id))
  /\ UNCHANGED <<engine, messages, dead, world, clear>>

\* Codex names it in thread.started, which is also its first JSON line.
ThreadStarted(q, id) ==
  /\ run[q].at = "up"
  /\ engine = "codex"
  /\ run[q].mode = "json"
  /\ id \in AnnouncedIds(q)
  /\ run' = [run EXCEPT ![q] = [@ EXCEPT !.meta = StickySessionID(run[q].meta, id), !.saw = TRUE]]
  /\ RememberEngineMeta(q, StickySessionID(run[q].meta, id))
  /\ UNCHANGED <<engine, messages, dead, world, clear>>

\* The next piece, kept and streamed.
Says(r) == [r EXCEPT !.n = @ + 1, !.text = Append(@, r.n + 1), !.shown = Append(@, r.n + 1)]

Speaks(q) ==
  /\ run[q].at = "up"
  /\ Streams(q)
  /\ run[q].meta # Nothing
  /\ knows' = [knows EXCEPT ![run[q].thread] = @ \cup {q}]

\* Claude's text delta.
Delta(q) ==
  /\ Speaks(q)
  /\ engine # "codex"
  /\ run[q].n < MaxPieces
  /\ run' = [run EXCEPT ![q] = Says(@)]
  /\ UNCHANGED <<engine, session, messages, dead, owner, lost, clear>>

\* Codex's completed message.
Message(q) ==
  /\ Speaks(q)
  /\ engine = "codex"
  /\ run[q].n < MaxPieces
  /\ run' = [run EXCEPT ![q] = Says(@)]
  /\ UNCHANGED <<engine, session, messages, dead, owner, lost, clear>>

\* Mutant: the snapshot is appended to what the deltas said.
TakeAnySnapshot(r) ==
  IF r.text = <<>> THEN Says(r)
  ELSE [r EXCEPT !.text = @ \o r.text, !.shown = @ \o r.text]

\* The whole message once more, or for the first time where there was no delta.
TakeSnapshot(r) == IF r.text = <<>> THEN Says(r) ELSE r

\* Claude's assistant and result lines carry such a snapshot.
Snapshot(q, isResult) ==
  /\ Speaks(q)
  /\ engine # "codex"
  /\ run[q].text = <<>> => run[q].n < MaxPieces
  /\ run' = [run EXCEPT ![q] = [TakeSnapshot(@) EXCEPT !.saw = run[q].saw \/ isResult]]
  /\ UNCHANGED <<engine, session, messages, dead, owner, lost, clear>>

\* One that does not stream prints its answer if it ends well.
Prints(q, how) == how = "ok" /\ ~Streams(q)

\* The process ends by itself, with an error, by a signal, or when its time is up.
Exit(q, how) ==
  /\ run[q].at = "up"
  /\ how # "gone"
  /\ how = "cancelled" <=> q \in dead
  /\ LET r == [run[q] EXCEPT !.at = "ended", !.how = how]
     IN IF Prints(q, how)
        THEN /\ run[q].n < MaxPieces
             /\ run' = [run EXCEPT ![q] = Says(r)]
             /\ knows' = [knows EXCEPT ![run[q].thread] = @ \cup {q}]
        ELSE /\ run' = [run EXCEPT ![q] = r]
             /\ UNCHANGED knows
  /\ UNCHANGED <<engine, session, messages, dead, owner, lost, clear>>

------------------------------------------------------------------------------
(* What the code makes of the end of a process.                            *)

\* A timeout shows as a kill.
ErrorOf(how) == IF how = "timeout" THEN "kill" ELSE how

\* stderr, where there is any, hides that a process was killed; an expired context does not.
SeenAs(how) == {ErrorOf(how)} \cup IF how = "kill" THEN {"fail"} ELSE {}

Judge(q, err) == run' = [run EXCEPT ![q] = [@ EXCEPT !.at = "judged", !.err = err]]
Again(q, mode) == run' = [run EXCEPT ![q] = [@ EXCEPT !.at = "start", !.mode = mode]]

\* The id seen is remembered once more at the end.
ClaudeEnds(q) ==
  /\ run[q].at = "ended"
  /\ engine \in {"claude", "home"}
  /\ Judge(q, IF run[q].how # "ok" /\ (run[q].text = <<>> \/ ~run[q].saw)
              THEN ErrorOf(run[q].how) ELSE "ok")
  /\ RememberEngineMeta(q, run[q].meta)
  /\ UNCHANGED <<engine, messages, dead, world, clear>>

\* Mutant: a dead process counts although it had answered.
CodexFailsEver(r) == ~r.saw \/ r.how # "ok"

\* No JSON line, or an error before any message.
CodexFails(r) == ~r.saw \/ (r.how # "ok" /\ r.text = <<>>)

\* The prompt is run once more without --json, unless the time both share is up.
CodexJSONEnds(q) ==
  /\ run[q].at = "ended"
  /\ engine = "codex"
  /\ run[q].mode = "json"
  /\ IF CodexFails(run[q])
     THEN /\ IF run[q].how = "timeout" THEN Judge(q, "kill") ELSE Again(q, "text")
          /\ UNCHANGED session
     ELSE /\ Judge(q, "ok")
          /\ RememberEngineMeta(q, run[q].meta)
  /\ UNCHANGED <<engine, messages, dead, world, clear>>

\* Without --json the answer is what the process printed.
CodexTextEnds(q) ==
  /\ run[q].at = "ended"
  /\ engine = "codex"
  /\ run[q].mode = "text"
  /\ run[q].how = "gone" => run[q].again
  /\ \E err \in SeenAs(run[q].how) : Judge(q, err)
  /\ UNCHANGED <<engine, session, messages, dead, world, clear>>

\* A thread that is gone is unbound and the prompt, with the turns, is run without it.
CodexGone(q) ==
  /\ run[q].at = "ended"
  /\ engine = "codex"
  /\ run[q].mode = "text"
  /\ run[q].how = "gone"
  /\ ~run[q].again
  /\ ClearEngineMeta
  /\ run' = [run EXCEPT ![q] = [@ EXCEPT !.at = "start", !.mode = "json", !.again = TRUE,
                                  !.resume = Nothing, !.hist = ResumeHistory(q)]]
  /\ UNCHANGED <<engine, messages, dead, world, clear>>

\* Only the JSON form names the thread.
PrintedId(q) == IF run[q].mode = "json" THEN run[q].thread ELSE Nothing

\* Cursor is run in three forms, each after the other failed; only JSON names the thread.
CursorEnds(q) ==
  /\ run[q].at = "ended"
  /\ engine = "cursor"
  /\ \/ /\ run[q].how = "ok"
        /\ Judge(q, "ok")
        /\ RememberEngineMeta(q, PrintedId(q))
     \/ /\ run[q].how = "timeout" \/ (run[q].how # "ok" /\ run[q].mode = "bare")
        /\ \E err \in SeenAs(run[q].how) : Judge(q, err)
        /\ UNCHANGED session
     \/ /\ run[q].how \notin {"ok", "timeout"}
        /\ \/ run[q].mode = "json" /\ Again(q, "text")
           \/ run[q].mode = "text" /\ Again(q, "bare")
        /\ UNCHANGED session
  /\ UNCHANGED <<engine, messages, dead, world, clear>>

\* Mutant: the second attempt forgets what the first process had said.
ForgetInterrupted(r) == r.text

Interrupted(r) == r.partial \o r.text

\* Mutant: one attempt too many.
MayRecoverOnceMore(q) ==
  Managed /\ Persisted(q) /\ run[q].err = "kill" /\ run[q].try <= MaxRecover

\* A killed engine is asked, a bounded number of times, to check what it had done; the
\* first time only while the ask is alive.
MayRecover(q) ==
  /\ Managed
  /\ Persisted(q)
  /\ run[q].err = "kill"
  /\ run[q].try < MaxRecover
  /\ run[q].try = 0 => q \notin dead

\* Mutant: the attempts are not counted.
NextTryUncounted(r) == r.try

NextTry(r) == r.try + 1

Recover(q) ==
  /\ run[q].at = "judged"
  /\ MayRecover(q)
  /\ run' = [run EXCEPT ![q] = [@ EXCEPT !.at = "read", !.try = NextTry(run[q]),
                                  !.partial = Interrupted(run[q]), !.text = <<>>]]
  /\ UNCHANGED <<engine, session, messages, dead, world, clear>>

\* Nothing but the answer is left of a call that has returned.
Returned(r) ==
  [Fresh EXCEPT !.at = "done", !.text = r.text, !.partial = r.partial, !.shown = r.shown,
     !.n = r.n, !.err = r.err]

\* The main chat saves the question with the answer.
SavedRows(q) ==
  IF ~Persisted(q) THEN <<>>
  ELSE IF Managed THEN <<ReplyRow(q)>> ELSE <<UserRow(q), ReplyRow(q)>>

\* The answer is saved outside the ask's context.
Finish(q) ==
  /\ run[q].at = "judged"
  /\ ~MayRecover(q)
  /\ run' = [run EXCEPT ![q] = Returned(@)]
  /\ messages' = messages \o SavedRows(q)
  /\ dead' = dead \ {q}
  /\ UNCHANGED <<engine, session, world, clear>>

------------------------------------------------------------------------------
(* The chat is cleared, in two statements; an engine loses a thread.       *)

ClearRows ==
  /\ MayClear
  /\ Managed
  /\ clear = "no"
  /\ clear' = "rows"
  /\ messages' = <<>>
  /\ UNCHANGED <<engine, session, dead, run, world>>

ClearMeta ==
  /\ clear = "rows"
  /\ clear' = "done"
  /\ ClearEngineMeta
  /\ UNCHANGED <<engine, messages, dead, run, world>>

LoseRollout(t) ==
  /\ MayLose
  /\ t \notin lost \cup Unused
  /\ \A q \in Asks : run[q].at = "up" => run[q].thread # t
  /\ lost' = lost \cup {t}
  /\ UNCHANGED <<engine, session, messages, dead, run, owner, knows, clear>>

------------------------------------------------------------------------------

CodeStep(q) ==
  \/ StoreQuestion(q)
  \/ ReadSession(q)
  \/ Leave(q)
  \/ LaunchFails(q)
  \/ Launch(q)
  \/ ClaudeEnds(q)
  \/ CodexJSONEnds(q)
  \/ CodexTextEnds(q)
  \/ CodexGone(q)
  \/ CursorEnds(q)
  \/ Recover(q)
  \/ Finish(q)

EngineStep(q) ==
  \/ \E id \in Threads \cup {Sub} : Announce(q, id) \/ ThreadStarted(q, id)
  \/ Delta(q)
  \/ Message(q)
  \/ \E isResult \in BOOLEAN : Snapshot(q, isResult)

ProcessEnds(q) == \E how \in Ends : Exit(q, how)

Next ==
  \/ \E q \in Asks :
       Begin(q) \/ Cancel(q) \/ CodeStep(q) \/ EngineStep(q) \/ ProcessEnds(q)
  \/ ClearRows
  \/ ClearMeta
  \/ \E t \in Threads : LoseRollout(t)

\* The code runs on, and a process ends: exec.CommandContext kills it when its time is up.
Spec == Init /\ [][Next]_vars /\ \A q \in Asks : WF_vars(CodeStep(q)) /\ WF_vars(ProcessEnds(q))

------------------------------------------------------------------------------
(* Properties.                                                             *)

\* Only a thread that an ask of this conversation began is ever bound to it: neither a
\* sub-agent's nor that of a call that only plans (invoke.go:96, usage.go:148).
SessionIsOurs == session # Nothing => session # Sub /\ owner[session] \in Asks \ Light

\* What a client saw is what is saved, and nothing is said twice: deltas and snapshots,
\* the fallbacks of Codex and Cursor and the recovery never lose or repeat a piece.
ShownIsSaved ==
  \A q \in Asks :
    run[q].at = "done" =>
      /\ Interrupted(run[q]) = run[q].shown
      /\ \A i, j \in 1..Len(run[q].shown) : run[q].shown[i] = run[q].shown[j] => i = j

\* The same prompt is run again in another form only while nothing was said: a process
\* that had begun to answer is never repeated (codex.go:224, generic.go:60).
RepeatsOnlySilent ==
  \A q \in Asks :
    run[q].at = "start" /\ (run[q].mode # "json" \/ run[q].again) => run[q].text = <<>>

\* Every ask ends, whatever its processes do.
AskEnds == \A q \in Asks : run[q].at # "new" ~> run[q].at = "done"

\* "the id is bound only the first time, ... or the next turn forgets" (usage.go:147): with
\* one ask at a time, the thread a process works in knows every answer given before.
ReplyIsRemembered ==
  \A p, q \in Asks :
    /\ run[p].at = "done" /\ Persisted(p) /\ run[p].shown # <<>> /\ run[p].err = "ok"
    /\ run[q].at = "up" /\ Persisted(q)
    => p \in knows[run[q].thread]
==============================================================================
