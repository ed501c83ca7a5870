------------------------------ MODULE Compaction ------------------------------
(***************************************************************************)
(* The compaction of a conversation and what the platform keeps beside it. *)
(*                                                                         *)
(* When an engine has compacted its thread, the platform empties the       *)
(* conversation's rows, puts a notice in their place and asks the next     *)
(* prompt to repeat the system's rules.  A compaction the engine decided   *)
(* on keeps the latest question and answer: Claude and Cursor report it    *)
(* from a hook in the middle of an ask, Codex in its stream, and then it   *)
(* waits until the answer is saved.  One the user asked for keeps nothing. *)
(* All of them write the agent's status, as the ask does.                  *)
(*                                                                         *)
(* A request that is over can no longer reach the database: a cancelled    *)
(* sync simply stops where it is.                                          *)
(***************************************************************************)
EXTENDS Naturals, Sequences

CONSTANTS
  Asks,       \* asks of the conversation: numbers, in the order they come
  Manuals,    \* calls of "compress"
  Engines,    \* engines under consideration
  MaxHooks,   \* bound: compactions an engine makes in one ask
  Stoppable,  \* engines whose asks may be stopped and whose hooks may time out
  Impatient,  \* calls of "compress" whose client may go away
  MayCross,   \* whether calls may come while another one is under way
  Nothing

Actors == Asks \cup Manuals

VARIABLES
  engine,    \* the agent's engine
  status,    \* managed_agents.status
  rows,      \* the conversation's messages
  reinject,  \* conversations.needs_system_reinject
  pending,   \* compactPending: Codex compacted during the ask
  forgot,    \* the thread was compacted and not told the rules again
  dead,      \* asks whose context is cancelled
  pc,        \* where an ask or a call of "compress" stands
  hooks,     \* compactions of an ask's engine so far
  told,      \* asks whose system prompt repeats the rules
  sync,      \* the sync an ask or a call has under way
  before     \* of a call of "compress": the status it found

vars == <<engine, status, rows, reinject, pending, forgot, dead, pc, hooks, told, sync, before>>
call == <<pc, hooks, told, before>>

Statuses == {"idle", "running", "compressing", "error"}
Rows == [role : {"user", "reply"}, ask : Asks] \cup [role : {"notice"}, ask : {Nothing}]
Syncs ==
  [ at : {"no", "look", "read", "mark", "clear", "notice", "user", "reply", "reinject", "finish"},
    prev : Statuses,
    user : Asks \cup {Nothing}, reply : Asks \cup {Nothing} ]

TypeOK ==
  /\ engine \in Engines
  /\ status \in Statuses
  /\ rows \in Seq(Rows)
  /\ reinject \in BOOLEAN /\ pending \in BOOLEAN /\ forgot \in BOOLEAN
  /\ dead \in SUBSET Asks
  /\ pc \in [Actors -> {"new", "store", "check", "uncheck", "ready", "up", "ended", "saved",
                        "flush", "engine", "tail", "done"}]
  /\ hooks \in [Asks -> 0..MaxHooks]
  /\ told \in SUBSET Asks
  /\ sync \in [Actors -> Syncs]
  /\ before \in [Manuals -> Statuses]

NoSync == [at |-> "no", prev |-> "idle", user |-> Nothing, reply |-> Nothing]

Init ==
  /\ engine \in Engines
  /\ status = "idle"
  /\ rows = <<>>
  /\ reinject = FALSE
  /\ pending = FALSE
  /\ forgot = FALSE
  /\ dead = {}
  /\ pc = [a \in Actors |-> "new"]
  /\ hooks = [q \in Asks |-> 0]
  /\ told = {}
  /\ sync = [a \in Actors |-> NoSync]
  /\ before = [m \in Manuals |-> "idle"]

UserRow(q) == [role |-> "user", ask |-> q]
ReplyRow(q) == [role |-> "reply", ask |-> q]
NoticeRow == [role |-> "notice", ask |-> Nothing]

Busy(a) == pc[a] \notin {"new", "done"}
Quiet == \A a \in Actors : ~Busy(a)
Syncing(a) == sync[a].at # "no"
MayCome == MayCross \/ Quiet
HasHook == engine \in {"claude", "cursor"}

------------------------------------------------------------------------------
(* The sync, step by step.                                                 *)

\* Mutant: the search begins at the wrong end.
EarliestTurnToPreserve(s) ==
  LET users == {i \in DOMAIN s : s[i].role = "user"}
      first == CHOOSE i \in users : \A j \in users : i <= j
      replies == {i \in DOMAIN s : users # {} /\ i > first /\ s[i].role = "reply"}
      final == CHOOSE i \in replies : \A j \in replies : j <= i
  IN [user |-> IF users = {} THEN Nothing ELSE s[first].ask,
      reply |-> IF replies = {} THEN Nothing ELSE s[final].ask]

\* The last question and the last answer after it.
LatestTurnToPreserve(s) ==
  LET users == {i \in DOMAIN s : s[i].role = "user"}
      last == CHOOSE i \in users : \A j \in users : j <= i
      replies == {i \in DOMAIN s : users # {} /\ i > last /\ s[i].role = "reply"}
      final == CHOOSE i \in replies : \A j \in replies : j <= i
  IN [user |-> IF users = {} THEN Nothing ELSE s[last].ask,
      reply |-> IF replies = {} THEN Nothing ELSE s[final].ask]

CompactStatusAfterSync(prev) == IF prev = "running" THEN "running" ELSE "idle"

At(a, place) == sync' = [sync EXCEPT ![a].at = place]
KeepLatest(a) == a \in Asks

SyncLook(a) ==
  /\ sync[a].at = "look"
  /\ sync' = [sync EXCEPT ![a].prev = status, ![a].at = IF KeepLatest(a) THEN "read" ELSE "mark"]
  /\ UNCHANGED <<status, rows, reinject>>

SyncRead(a) ==
  /\ sync[a].at = "read"
  /\ LET turn == LatestTurnToPreserve(rows)
     IN sync' = [sync EXCEPT ![a].user = turn.user, ![a].reply = turn.reply, ![a].at = "mark"]
  /\ UNCHANGED <<status, rows, reinject>>

SyncMark(a) ==
  /\ sync[a].at = "mark"
  /\ status' = IF (KeepLatest(a) /\ sync[a].prev = "running") \/
                  (~KeepLatest(a) /\ sync[a].prev # "compressing")
               THEN "compressing" ELSE status
  /\ At(a, "clear")
  /\ UNCHANGED <<rows, reinject>>

SyncClear(a) ==
  /\ sync[a].at = "clear"
  /\ rows' = <<>>
  /\ At(a, "notice")
  /\ UNCHANGED <<status, reinject>>

SyncNotice(a) ==
  /\ sync[a].at = "notice"
  /\ rows' = Append(rows, NoticeRow)
  /\ At(a, "user")
  /\ UNCHANGED <<status, reinject>>

SyncKeep(a) ==
  \/ /\ sync[a].at = "user"
     /\ rows' = IF sync[a].user = Nothing THEN rows ELSE Append(rows, UserRow(sync[a].user))
     /\ At(a, "reply")
     /\ UNCHANGED <<status, reinject>>
  \/ /\ sync[a].at = "reply"
     /\ rows' = IF sync[a].reply = Nothing THEN rows ELSE Append(rows, ReplyRow(sync[a].reply))
     /\ At(a, "reinject")
     /\ UNCHANGED <<status, reinject>>

SyncReinject(a) ==
  /\ sync[a].at = "reinject"
  /\ reinject' = TRUE
  /\ At(a, "finish")
  /\ UNCHANGED <<status, rows>>

SyncFinish(a) ==
  /\ sync[a].at = "finish"
  /\ status' = CompactStatusAfterSync(sync[a].prev)
  /\ sync' = [sync EXCEPT ![a] = NoSync]
  /\ UNCHANGED <<rows, reinject>>

SyncStep(a) ==
  /\ \/ SyncLook(a) \/ SyncRead(a) \/ SyncMark(a) \/ SyncClear(a) \/ SyncNotice(a)
     \/ SyncKeep(a) \/ SyncReinject(a) \/ SyncFinish(a)
  /\ UNCHANGED <<engine, pending, forgot, dead, call>>

StartSync(a) == sync' = [sync EXCEPT ![a] = [NoSync EXCEPT !.at = "look"]]

------------------------------------------------------------------------------
(* An ask.                                                                 *)

Go(a, place) == pc' = [pc EXCEPT ![a] = place]

Begin(q) ==
  /\ pc[q] = "new"
  /\ \A p \in Asks : p < q => pc[p] # "new"
  /\ MayCome
  /\ dead' = dead \cup {p \in Asks : Busy(p)}
  /\ status' = "running"
  /\ Go(q, "store")
  /\ UNCHANGED <<engine, rows, reinject, pending, forgot, hooks, told, sync, before>>

StoreQuestion(q) ==
  /\ pc[q] = "store"
  /\ rows' = IF q \in dead THEN rows ELSE Append(rows, UserRow(q))
  /\ Go(q, "check")
  /\ UNCHANGED <<engine, status, reinject, pending, forgot, dead, hooks, told, sync, before>>

\* consumeSystemReinject reads the mark, and then removes it.
CheckReinject(q) ==
  /\ pc[q] = "check"
  /\ Go(q, IF reinject /\ q \notin dead THEN "uncheck" ELSE "ready")
  /\ UNCHANGED <<engine, status, rows, reinject, pending, forgot, dead, hooks, told, sync, before>>

ClearReinject(q) ==
  /\ pc[q] = "uncheck"
  /\ reinject' = (reinject /\ q \in dead)
  /\ told' = told \cup {q}
  /\ Go(q, "ready")
  /\ UNCHANGED <<engine, status, rows, pending, forgot, dead, hooks, sync, before>>

Launch(q) ==
  /\ pc[q] = "ready"
  /\ IF q \in dead THEN Go(q, "ended") /\ UNCHANGED forgot
     ELSE Go(q, "up") /\ forgot' = (forgot /\ q \notin told)
  /\ UNCHANGED <<engine, status, rows, reinject, pending, dead, hooks, told, sync, before>>

\* compactPending, of the one conversation.
markCompactPending == pending' = TRUE
consumeCompactPending == pending' = FALSE

\* The engine compacts its thread: Claude and Cursor wait for a hook that has the
\* backend sync, Codex only says so in its stream.
Compacts(q) ==
  /\ pc[q] = "up"
  /\ ~Syncing(q)
  /\ hooks[q] < MaxHooks
  /\ hooks' = [hooks EXCEPT ![q] = @ + 1]
  /\ forgot' = TRUE
  /\ IF HasHook THEN StartSync(q) /\ UNCHANGED pending ELSE markCompactPending /\ UNCHANGED sync
  /\ UNCHANGED <<engine, status, rows, reinject, dead, pc, told, before>>

\* The hook's time is up, or it died with the engine.
HookGone(q) ==
  /\ engine \in Stoppable
  /\ Syncing(q)
  /\ pc[q] # "flush"
  /\ sync' = [sync EXCEPT ![q] = NoSync]
  /\ UNCHANGED <<engine, status, rows, reinject, pending, forgot, dead, call>>

\* The user stops the ask.
Stop(q) ==
  /\ engine \in Stoppable
  /\ Busy(q)
  /\ q \notin dead
  /\ dead' = dead \cup {q}
  /\ UNCHANGED <<engine, status, rows, reinject, pending, forgot, call, sync>>

\* An engine that is not killed waits for its hook.
EngineEnds(q) ==
  /\ pc[q] = "up"
  /\ q \in dead \/ ~Syncing(q)
  /\ Go(q, "ended")
  /\ UNCHANGED <<engine, status, rows, reinject, pending, forgot, dead, hooks, told, sync, before>>

\* The answer and the status are written outside the ask's context.
SaveReply(q) ==
  /\ pc[q] = "ended"
  /\ rows' = Append(rows, ReplyRow(q))
  /\ Go(q, "saved")
  /\ UNCHANGED <<engine, status, reinject, pending, forgot, dead, hooks, told, sync, before>>

\* Mutant: the flush comes with the request's context and is skipped once it is over.
FlushInContext(q) ==
  /\ pc[q] = "saved"
  /\ status' = "idle"
  /\ consumeCompactPending
  /\ IF pending /\ q \notin dead THEN Go(q, "flush") /\ StartSync(q)
     ELSE Go(q, "done") /\ UNCHANGED sync
  /\ UNCHANGED <<engine, rows, reinject, forgot, dead, hooks, told, before>>

\* flushCompactAfterAsk: what Codex reported is synced now, outside the context too.
FlushCompactAfterAsk(q) ==
  /\ pc[q] = "saved"
  /\ status' \in {"idle", "error"}
  /\ consumeCompactPending
  /\ IF pending THEN Go(q, "flush") /\ StartSync(q) ELSE Go(q, "done") /\ UNCHANGED sync
  /\ UNCHANGED <<engine, rows, reinject, forgot, dead, hooks, told, before>>

Flushed(q) ==
  /\ pc[q] = "flush"
  /\ ~Syncing(q)
  /\ Go(q, "done")
  /\ UNCHANGED <<engine, status, rows, reinject, pending, forgot, dead, hooks, told, sync, before>>

------------------------------------------------------------------------------
(* A call of "compress".                                                   *)

CompressManagedChat(m) ==
  /\ pc[m] = "new"
  /\ MayCome
  /\ before' = [before EXCEPT ![m] = status]
  /\ status' = "compressing"
  /\ Go(m, "engine")
  /\ UNCHANGED <<engine, rows, reinject, pending, forgot, dead, hooks, told, sync>>

\* The engine compacts the thread, if there is one, and everything is emptied.
EngineCompacts(m) ==
  /\ pc[m] = "engine"
  /\ forgot' = TRUE
  /\ StartSync(m)
  /\ Go(m, "tail")
  /\ UNCHANGED <<engine, status, rows, reinject, pending, dead, hooks, told, before>>

\* Mutant: the error is returned at once.
EngineFailsUnsettled(m) ==
  /\ pc[m] = "engine"
  /\ Go(m, "done")
  /\ UNCHANGED <<engine, status, rows, reinject, pending, forgot, dead, hooks, told, sync, before>>

EngineFails(m) ==
  /\ pc[m] = "engine"
  /\ status' = IF status = "compressing" THEN "error" ELSE status
  /\ Go(m, "done")
  /\ UNCHANGED <<engine, rows, reinject, pending, forgot, dead, hooks, told, sync, before>>

Compressed(m) ==
  /\ pc[m] = "tail"
  /\ ~Syncing(m)
  /\ status' = IF status = "compressing" THEN CompactStatusAfterSync(before[m]) ELSE status
  /\ Go(m, "done")
  /\ UNCHANGED <<engine, rows, reinject, pending, forgot, dead, hooks, told, sync, before>>

\* Its client goes away: not even the error can be written.
ClientGone(m) ==
  /\ m \in Impatient
  /\ Busy(m)
  /\ Go(m, "done")
  /\ sync' = [sync EXCEPT ![m] = NoSync]
  /\ UNCHANGED <<engine, status, rows, reinject, pending, forgot, dead, hooks, told, before>>

------------------------------------------------------------------------------

AskStep(q) ==
  \/ StoreQuestion(q) \/ CheckReinject(q) \/ ClearReinject(q) \/ Launch(q)
  \/ EngineEnds(q) \/ SaveReply(q) \/ FlushCompactAfterAsk(q) \/ Flushed(q)

CompressStep(m) == EngineCompacts(m) \/ EngineFails(m) \/ Compressed(m)

Next ==
  \/ \E q \in Asks : Begin(q) \/ AskStep(q) \/ Compacts(q) \/ HookGone(q) \/ Stop(q)
  \/ \E m \in Manuals : CompressManagedChat(m) \/ CompressStep(m) \/ ClientGone(m)
  \/ \E a \in Actors : SyncStep(a)

Spec == Init /\ [][Next]_vars

------------------------------------------------------------------------------
(* Properties.                                                             *)

\* An automatic compaction "always keeps the question and the answer of this turn"
\* (compact.go:94): at rest, the latest turn, if its engine compacted, is there unless the user emptied it.
TurnIsKept ==
  Quiet /\ (\A m \in Manuals : pc[m] = "new") =>
    \A q \in Asks :
      pc[q] = "done" /\ hooks[q] > 0 /\ (\A p \in Asks : p > q => pc[p] = "new") =>
        \E i \in 1..(Len(rows) - 1) : rows[i] = UserRow(q) /\ rows[i + 1] = ReplyRow(q)

\* A compacted thread hears the system's rules again before it works on, even if the ask
\* in which it was compacted is stopped.
RulesAreRepeated ==
  (\A p \in dead : hooks[p] > 0) =>
    \A q \in Asks : pc[q] = "ready" /\ forgot => q \in told

\* "the agent's status is restored or settled when the compaction ends" (compact.go:178):
\* with nobody at work the agent neither runs nor compresses.
StatusSettles == Quiet => status \in {"idle", "error"}
==============================================================================
