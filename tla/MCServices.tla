------------------------------- MODULE MCServices -------------------------------
(***************************************************************************)
(* Model checking of the four services: a behaviour is one of one of them, *)
(* with the rest still, as they share no state.                            *)
(***************************************************************************)
EXTENDS Services

CONSTANTS m1, a1, b1, b2, n1, c1, c2, s1

VARIABLE part   \* the service that moves

MCClones == {"clone", "copy"}
MCNumbers == 1..2
MCManuals == {m1}
MCEngines == {"claude", "codex", "cursor"}
MCStoppable == {"codex"}
MCAgents == {a1}
MCBrowsers == {b1, b2}
MCRenewals == {n1}
MCClients == {c1, c2}
MCServers == {s1}

------------------------------------------------------------------------------

MCInit ==
  /\ part \in {"clone", "chat", "desk", "test"}
  /\ ServicesInit
  /\ memory \/ part = "clone"
  /\ engine = "claude" \/ part = "chat"

MCNext ==
  /\ UNCHANGED part
  /\ \/ part = "clone" /\ CloneStep
     \/ part = "chat" /\ ChatStep
     \/ part = "desk" /\ DeskStep
     \/ part = "test" /\ TestStep

MCSpec == MCInit /\ [][MCNext]_<<part, vars, chatVars, deskVars, testVars>> /\ Fairness

------------------------------------------------------------------------------
(* What is left out of the instances (an action constraint).               *)

\* At most two calls come, the asks in order.  The receptionist changes only between calls or by a
\* dismissal, and one call is disconnected or stopped, or its agent is dismissed.
DeskFault ==
  \/ dead' # dead /\ slot' = slot
  \/ \E a \in {a1} : slot[a] # Nothing /\ slot'[a] = Nothing /\ call' = call
  \/ dismissing = Nothing /\ dismissing' # Nothing

DeskNarrow ==
  /\ call'[2].at # "new" => call'[1].at # "new"
  /\ \E q \in {1, 2, n1} : call'[q].at = "new"
  /\ Len(current) < 2 => call' = call
  /\ \/ UNCHANGED <<recv, clearing>>
     \/ dismissing # Nothing
     \/ \A q \in {1, 2, n1} : call[q].at \in {"new", "over"}
  /\ clearing # Nothing => clearing' = Nothing \/ UNCHANGED <<call, dead>>
  /\ DeskFault => dead = {} /\ dismissing = Nothing /\ agents = {a1}

\* Clients and previews come in order, the second one is harmless, and the tables
\* change only while somebody could tell.
TestNarrow ==
  /\ preview'[1].client # c2
  /\ preview'[2].at # "new" => preview'[1].at # "new"
  /\ decision'[2].at # "new" => decision'[1].at # "new"
  /\ \A p \in 1..2 : preview'[p].at = "shown" => preview'[p].risk # "low"
  /\ preview'[2].at = "shown" => preview'[2].harmless /\ preview'[2].risk = "mid"
  /\ allowed' # allowed => decision[1].at = "new"
  /\ server' # server => \A d \in 1..2 : decision[d].at \in {"new", "secret", "over"}

\* When there are two clones, nothing happens to the source but what their jobs and takeovers
\* do.  Only calls are left out, never a step whose fairness is assumed.
CloneNarrow ==
  (\A c \in Clones : status'[c] # "absent") =>
    source' = "idle" /\ ~restarted' /\ memory' /\ deleting' = {}

MCNarrow == DeskNarrow /\ TestNarrow /\ CloneNarrow
==============================================================================
