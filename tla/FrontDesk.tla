------------------------------- MODULE FrontDesk -------------------------------
(***************************************************************************)
(* The front desk: anonymous visitors ask the agent that is receptionist.  *)
(*                                                                         *)
(* A browser is known by a signed cookie with a visitor's public id; each  *)
(* visitor has a current conversation of its own, created when it first    *)
(* asks or when it asks for a new one.  A call works on the visitor it     *)
(* read at its beginning.  All visitors ask the same agent: an ask cancels *)
(* the one that is under way.  Every question is logged: "processing" when *)
(* it is stored, then what became of it.                                   *)
(*                                                                         *)
(* Cookies cannot be forged: a browser has the id of a visitor only if the *)
(* server signed it for that browser.  How occupancy admits an ask is the  *)
(* subject of AgentRuns: here it may refuse at any time.                   *)
(***************************************************************************)
EXTENDS Naturals, Sequences

CONSTANTS
  Agents,     \* agents of the fleet
  Browsers,
  MaxVisitors, MaxConvs,  \* bounds: visitors and conversations ever created
  Asks,       \* calls of "ask"
  Renewals,   \* calls of "new conversation"
  Nothing

Calls == Asks \cup Renewals
Visitors == 1..MaxVisitors
Convs == 1..MaxConvs

VARIABLES
  agents,      \* agents that are not dismissed
  recv,        \* the receptionist
  clearing,    \* a call of "clear receptionist": the agent it found
  dismissing,  \* the agent whose ask is stopped and whose rows are not yet deleted
  cookie,      \* of each browser: its visitor
  current,     \* visitors.current_conversation_id, of the visitors there are
  conv,        \* the conversations ever created: visitor, agent, rows; or gone
  call,        \* where a call stands, and what it has read
  dead,        \* calls whose context is cancelled
  slot,        \* Service.runs, of each agent
  answer,      \* what an ask's assistant row says
  log          \* visitor_ask_logs.status

vars == <<agents, recv, clearing, dismissing, cookie, current, conv, call, dead, slot, answer, log>>
desk == <<agents, recv, clearing, dismissing>>
asked == <<dead, slot, answer, log>>

Answers == {"none", "full", "error", "stopped"}
Logs == {"none", "processing", "success", "error", "cancelled"}
NewCall == [at |-> "new", browser |-> Nothing, visitor |-> Nothing, seen |-> Nothing,
            agent |-> Nothing, conv |-> Nothing, failed |-> FALSE]

Init ==
  /\ agents = Agents
  /\ recv \in Agents
  /\ clearing = Nothing
  /\ dismissing = Nothing
  /\ cookie = [b \in Browsers |-> Nothing]
  /\ current = <<>>
  /\ conv = <<>>
  /\ call = [q \in Calls |-> NewCall]
  /\ dead = {}
  /\ slot = [a \in Agents |-> Nothing]
  /\ answer = [q \in Asks |-> "none"]
  /\ log = [q \in Asks |-> "none"]

At(q, place) == call[q].at = place
Go(q, place) == call' = [call EXCEPT ![q].at = place]
Busy(q) == call[q].at \notin {"new", "over"}
Exists(c) == c \in DOMAIN conv /\ conv[c].here
AddRow(c, r) ==
  conv' = IF Exists(c) THEN [conv EXCEPT ![c].rows = @ \cup {r}] ELSE conv
QuestionOf(q) == [role |-> "user", ask |-> q]
AnswerOf(q) == [role |-> "assistant", ask |-> q]

------------------------------------------------------------------------------
(* Calls of a visitor.                                                     *)

\* A browser whose visitor is known keeps it; an error of the look-up makes a new one.
Register(b) ==
  /\ Len(current) < MaxVisitors
  /\ current' = Append(current, Nothing)
  /\ cookie' = [cookie EXCEPT ![b] = Len(current) + 1]
  /\ UNCHANGED <<desk, conv, call, asked>>

\* A cookie that was signed here gives the visitor it was signed for.
Parse(b) == cookie[b]
GetVisitorByPublicID(v) == [visitor |-> v, seen |-> current[v]]
GetReceptionist == recv

RequireVisitor(q, b) ==
  /\ At(q, "new")
  /\ Parse(b) # Nothing
  /\ LET v == GetVisitorByPublicID(Parse(b))
     IN call' = [call EXCEPT ![q].at = "receptionist", ![q].browser = b,
                             ![q].visitor = v.visitor, ![q].seen = v.seen]
  /\ UNCHANGED <<desk, cookie, current, conv, asked>>

ReadReceptionist(q) ==
  /\ At(q, "receptionist")
  /\ IF q \in dead \/ GetReceptionist = Nothing THEN Go(q, "over")
     ELSE call' = [call EXCEPT ![q].agent = GetReceptionist,
                               ![q].at = IF q \in Asks THEN "ensure" ELSE "create"]
  /\ UNCHANGED <<desk, cookie, current, conv, asked>>

\* Mutant: any conversation of a visitor with this agent will do.
EnsureForAgent(q) ==
  /\ At(q, "ensure")
  /\ \/ /\ q \notin dead
        /\ \E c \in Convs : Exists(c) /\ conv[c].agent = call[q].agent
             /\ call' = [call EXCEPT ![q].at = "admit", ![q].conv = c]
     \/ /\ ~\E c \in Convs : Exists(c) /\ conv[c].agent = call[q].agent
        /\ Go(q, "create")
  /\ UNCHANGED <<desk, cookie, current, conv, asked>>

\* The current conversation, if it is still a visitor's; an error of that look-up counts as no.
EnsureVisitorConversation(q) ==
  /\ At(q, "ensure")
  /\ \/ /\ q \notin dead /\ call[q].seen # Nothing
        /\ Exists(call[q].seen)
        /\ call' = [call EXCEPT ![q].at = "admit", ![q].conv = call[q].seen]
     \/ Go(q, "create")
  /\ UNCHANGED <<desk, cookie, current, conv, asked>>

\* Whoever the agent is by now: conversations do not refer to agents.
CreateVisitorConversation(q) ==
  /\ At(q, "create")
  /\ IF q \in dead THEN Go(q, "over") /\ UNCHANGED conv
     ELSE /\ Len(conv) < MaxConvs
          /\ conv' = Append(conv, [visitor |-> call[q].visitor, agent |-> call[q].agent,
                                   rows |-> {}, here |-> TRUE])
          /\ call' = [call EXCEPT ![q].at = "bind", ![q].conv = Len(conv) + 1]
  /\ UNCHANGED <<desk, cookie, current, asked>>

SetVisitorCurrentConversation(q) ==
  /\ At(q, "bind")
  /\ IF q \in dead THEN Go(q, "over") /\ UNCHANGED current
     ELSE /\ current' = [current EXCEPT ![call[q].visitor] = call[q].conv]
          /\ Go(q, IF q \in Asks THEN "admit" ELSE "over")
  /\ UNCHANGED <<desk, cookie, conv, asked>>

------------------------------------------------------------------------------
(* An ask of the receptionist.                                             *)

\* The agent is read; its occupancy may be another's.
AskReceptionist(q) ==
  /\ At(q, "admit")
  /\ \/ Go(q, "over")
     \/ q \notin dead /\ call[q].agent \in agents /\ Go(q, "slot")
  /\ UNCHANGED <<desk, cookie, current, conv, asked>>

TakeSlot(q) ==
  /\ At(q, "slot")
  /\ dead' = dead \cup ({slot[call[q].agent]} \ {Nothing})
  /\ slot' = [slot EXCEPT ![call[q].agent] = q]
  /\ Go(q, "store")
  /\ UNCHANGED <<desk, cookie, current, conv, answer, log>>

StoreQuestion(q) ==
  /\ At(q, "store")
  /\ IF q \notin dead /\ Exists(call[q].conv)
     THEN AddRow(call[q].conv, QuestionOf(q)) /\ Go(q, "begin")
     ELSE Go(q, "engine") /\ UNCHANGED conv
  /\ UNCHANGED <<desk, cookie, current, asked>>

BeginVisitorAskLog(q) ==
  /\ At(q, "begin")
  /\ log' = IF q \in dead THEN log ELSE [log EXCEPT ![q] = "processing"]
  /\ Go(q, "engine")
  /\ UNCHANGED <<desk, cookie, current, conv, dead, slot, answer>>

\* The engine has answered or failed; a cancelled ask says that it was stopped.  The row is
\* written outside the ask's context.
SaveAnswer(q) ==
  /\ At(q, "engine")
  /\ \E failed \in BOOLEAN :
       /\ call' = [call EXCEPT ![q].at = "audit", ![q].failed = failed]
       /\ answer' = [answer EXCEPT ![q] =
            IF q \in dead THEN "stopped" ELSE IF failed THEN "error" ELSE "full"]
  /\ AddRow(call[q].conv, AnswerOf(q))
  /\ UNCHANGED <<desk, cookie, current, dead, slot, log>>

LeaveSlot(q) ==
  slot' = [a \in Agents |-> IF slot[a] = q THEN Nothing ELSE slot[a]]

\* An ask without a log row has no audit.
FinishVisitorAskLog(q, status) ==
  log' = [log EXCEPT ![q] = IF @ = "none" THEN @ ELSE status]

\* Mutant: the audit looks at the engine's error only.
FinalizeByError(q) ==
  /\ At(q, "audit")
  /\ FinishVisitorAskLog(q, IF call[q].failed THEN "error" ELSE "success")
  /\ Go(q, "over")
  /\ LeaveSlot(q)
  /\ UNCHANGED <<desk, cookie, current, conv, dead, answer>>

\* The log is closed outside the ask's context, which says whether it was cancelled.
FinalizeVisitorAskAudit(q) ==
  /\ At(q, "audit")
  /\ FinishVisitorAskLog(q,
       IF q \in dead THEN "cancelled" ELSE IF call[q].failed THEN "error" ELSE "success")
  /\ Go(q, "over")
  /\ LeaveSlot(q)
  /\ UNCHANGED <<desk, cookie, current, conv, dead, answer>>

\* The client of a call goes away.
Disconnect(q) ==
  /\ Busy(q)
  /\ dead' = dead \cup {q}
  /\ UNCHANGED <<desk, cookie, current, conv, call, slot, answer, log>>

------------------------------------------------------------------------------
(* Calls of the administrator.                                             *)

SetReceptionist(a) ==
  /\ a \in agents
  /\ recv' = a
  /\ UNCHANGED <<agents, clearing, dismissing, cookie, current, conv, call, asked>>

\* "Clear" looks whether the agent is the receptionist, and then clears whoever is.
FindReceptionist ==
  /\ GetReceptionist # Nothing
  /\ clearing = Nothing
  /\ clearing' = GetReceptionist
  /\ UNCHANGED <<agents, recv, dismissing, cookie, current, conv, call, asked>>

ClearReceptionist ==
  /\ clearing # Nothing
  /\ clearing' = Nothing
  /\ recv' = Nothing
  /\ UNCHANGED <<agents, dismissing, cookie, current, conv, call, asked>>

StopAgent(a) ==
  /\ dead' = dead \cup ({slot[a]} \ {Nothing})
  /\ slot' = [slot EXCEPT ![a] = Nothing]

StopManaged(a) ==
  /\ slot[a] # Nothing
  /\ StopAgent(a)
  /\ UNCHANGED <<desk, cookie, current, conv, call, answer, log>>

DismissAgent(a) ==
  /\ a \in agents
  /\ dismissing = Nothing
  /\ dismissing' = a
  /\ StopAgent(a)
  /\ UNCHANGED <<agents, recv, clearing, cookie, current, conv, call, answer, log>>

DeleteManagedAgent ==
  /\ dismissing # Nothing
  /\ dismissing' = Nothing
  /\ agents' = agents \ {dismissing}
  /\ recv' = IF recv = dismissing THEN Nothing ELSE recv
  /\ conv' = [c \in DOMAIN conv |->
       IF conv[c].agent = dismissing THEN [conv[c] EXCEPT !.rows = {}, !.here = FALSE] ELSE conv[c]]
  /\ UNCHANGED <<clearing, cookie, current, call, asked>>

------------------------------------------------------------------------------

CallStep(q) ==
  \/ ReadReceptionist(q) \/ EnsureVisitorConversation(q) \/ CreateVisitorConversation(q)
  \/ SetVisitorCurrentConversation(q) \/ AskReceptionist(q) \/ TakeSlot(q) \/ StoreQuestion(q)
  \/ BeginVisitorAskLog(q) \/ SaveAnswer(q) \/ FinalizeVisitorAskAudit(q)

Next ==
  \/ \E b \in Browsers : Register(b) \/ \E q \in Calls : RequireVisitor(q, b)
  \/ \E q \in Calls : CallStep(q) \/ Disconnect(q)
  \/ \E a \in Agents : SetReceptionist(a) \/ StopManaged(a) \/ DismissAgent(a)
  \/ FindReceptionist \/ ClearReceptionist \/ DeleteManagedAgent

Spec == Init /\ [][Next]_vars

------------------------------------------------------------------------------
(* Properties.                                                             *)

Rows == [role : {"user", "assistant"}, ask : Asks]
Places == {"new", "receptionist", "ensure", "create", "bind", "admit", "slot", "store", "begin",
           "engine", "audit", "over"}

TypeOK ==
  /\ agents \subseteq Agents /\ recv \in agents \cup {Nothing}
  /\ clearing \in Agents \cup {Nothing} /\ dismissing \in agents \cup {Nothing}
  /\ cookie \in [Browsers -> Visitors \cup {Nothing}]
  /\ current \in Seq(Convs \cup {Nothing}) /\ Len(current) <= MaxVisitors
  /\ conv \in Seq([visitor : Visitors, agent : Agents, rows : SUBSET Rows, here : BOOLEAN])
  /\ Len(conv) <= MaxConvs
  /\ call \in [Calls -> [at : Places, browser : Browsers \cup {Nothing},
                         visitor : Visitors \cup {Nothing}, seen : Convs \cup {Nothing},
                         agent : Agents \cup {Nothing}, conv : Convs \cup {Nothing},
                         failed : BOOLEAN]]
  /\ dead \subseteq Calls
  /\ slot \in [Agents -> Asks \cup {Nothing}]
  /\ answer \in [Asks -> Answers] /\ log \in [Asks -> Logs]

\* "Visitors ask in isolated conversations" (receptionist.go:91): what a browser reads through
\* its cookie and its visitor's current conversation are questions it asked itself and answers
\* to them, although all visitors share the agent and calls of one visitor may cross.
AnswersStayPrivate ==
  \A b \in Browsers :
    LET c == IF cookie[b] = Nothing THEN Nothing ELSE current[cookie[b]]
    IN c \in DOMAIN conv => \A r \in conv[c].rows : call[r.ask].browser = b

\* The audit of an ask that is over is closed and tells what happened: "success" only if the
\* whole answer is beside the question (or its agent was dismissed since), although the ask may be
\* pre-empted, stopped, disconnected or dismissed at any point.
LogIsTrue ==
  \A q \in Asks : At(q, "over") =>
    /\ log[q] # "processing"
    /\ log[q] = "success" =>
         /\ answer[q] = "full"
         /\ Exists(call[q].conv) => {QuestionOf(q), AnswerOf(q)} \subseteq conv[call[q].conv].rows
    /\ log[q] = "error" => answer[q] = "error"
==============================================================================
