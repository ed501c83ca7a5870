------------------------------- MODULE Services -------------------------------
(***************************************************************************)
(* Four services of the backend side by side: the initialisation of clones *)
(* (CloneInit), the compaction of a conversation, the front desk and the   *)
(* test servers.  They share no state: a step is a step of one of them.    *)
(***************************************************************************)
EXTENDS CloneInit, Sequences

CONSTANTS
  ChatAsks, Manuals, Engines, MaxHooks, Stoppable, Impatient, MayCross,       \* Compaction
  Agents, Browsers, MaxVisitors, MaxConvs, DeskAsks, Renewals,                \* FrontDesk
  Clients, Servers, Previews, Decisions                                       \* TestServers

VARIABLES
  engine, chatStatus, rows, reinject, pending, forgot, killed, pc, hooks, told, sync, before,
  agents, recv, clearing, dismissing, cookie, current, conv, call, dead, slot, answer, log,
  allowed, server, preview, pend, late, decision, ran

chatVars ==
  <<engine, chatStatus, rows, reinject, pending, forgot, killed, pc, hooks, told, sync, before>>
deskVars ==
  <<agents, recv, clearing, dismissing, cookie, current, conv, call, dead, slot, answer, log>>
testVars == <<allowed, server, preview, pend, late, decision, ran>>

Chat == INSTANCE Compaction WITH
  Asks <- ChatAsks, Nothing <- Nothing, status <- chatStatus, dead <- killed
Desk == INSTANCE FrontDesk WITH Asks <- DeskAsks, Nothing <- Nothing
Test == INSTANCE TestServers WITH Nothing <- Nothing

\* Asks of one conversation are numbered as they come; calls of "compress" are no asks.
ASSUME ChatAssumption ==
  /\ ChatAsks \subseteq Nat /\ ChatAsks \cap Manuals = {}
  /\ Nothing \notin ChatAsks /\ MaxHooks \in Nat
  /\ Impatient \subseteq Manuals /\ MayCross \in BOOLEAN

\* Visitors and conversations are numbered; a call is an ask or a renewal.
ASSUME DeskAssumption ==
  /\ MaxVisitors \in Nat /\ MaxConvs \in Nat
  /\ Nothing \notin Nat /\ Nothing \notin Agents /\ Nothing \notin Browsers
  /\ Nothing \notin DeskAsks \cup Renewals /\ DeskAsks \cap Renewals = {}

------------------------------------------------------------------------------

CloneStep == Next /\ UNCHANGED <<chatVars, deskVars, testVars>>
ChatStep == Chat!Next /\ UNCHANGED <<vars, deskVars, testVars>>
DeskStep == Desk!Next /\ UNCHANGED <<vars, chatVars, testVars>>
TestStep == Test!Next /\ UNCHANGED <<vars, chatVars, deskVars>>

ServicesInit == Init /\ Chat!Init /\ Desk!Init /\ Test!Init
ServicesNext == CloneStep \/ ChatStep \/ DeskStep \/ TestStep
ServicesSpec == ServicesInit /\ [][ServicesNext]_<<vars, chatVars, deskVars, testVars>>

------------------------------------------------------------------------------
(* The properties of the three instances.                                  *)

TurnIsKept == Chat!TurnIsKept
RulesAreRepeated == Chat!RulesAreRepeated
StatusSettles == Chat!StatusSettles
AnswersStayPrivate == Desk!AnswersStayPrivate
LogIsTrue == Desk!LogIsTrue
RunsOnce == Test!RunsOnce
==============================================================================
