------------------------------ MODULE TestServers ------------------------------
(***************************************************************************)
(* Commands on the test servers: one read-only command is built from a     *)
(* template, explained, shown to the operator with a deadline, and run     *)
(* when the operator allows it.                                            *)
(*                                                                         *)
(* Clients are told apart by address, and only addresses of a list get     *)
(* through.  The hub keeps what was shown and not yet decided on; a        *)
(* decision takes it out under the hub's mutex and then goes on alone, on  *)
(* a server whose row may have changed since.                              *)
(***************************************************************************)
EXTENDS Naturals, FiniteSets

CONSTANTS
  Clients,
  Servers,
  Previews,   \* calls of "preview": the id of what they register
  Decisions,  \* calls of "decide"
  Nothing

VARIABLES
  allowed,    \* addresses on the list
  server,     \* the row of a server: whether it is there
  preview,    \* where a preview stands, and what is registered
  pend,       \* the hub's map
  late,       \* registered previews whose deadline is over
  decision,   \* where a decision stands: its client, what it took, what it says
  ran         \* the commands run: on which preview, by which decision

vars == <<allowed, server, preview, pend, late, decision, ran>>

Risks == {"low", "mid", "high"}
NewPreview == [at |-> "new", client |-> Nothing, server |-> Nothing,
               risk |-> "mid", harmless |-> FALSE]
NewDecision == [at |-> "new", client |-> Nothing, on |-> Nothing, says |-> "deny"]
BegunPreviews ==
  [at : {"explain", "shown"}, client : Clients, server : Servers, risk : Risks, harmless : BOOLEAN]
BegunDecisions ==
  [at : {"take", "check", "secret", "over"}, client : Clients, on : Previews, says : {"allow", "deny"}]

TypeOK ==
  /\ allowed \subseteq Clients
  /\ server \in [Servers -> {"none", "there", "gone"}]
  /\ preview \in [Previews -> {NewPreview} \cup BegunPreviews]
  /\ pend \subseteq Previews /\ late \subseteq Previews
  /\ decision \in [Decisions -> {NewDecision} \cup BegunDecisions]
  /\ ran \subseteq [on : Previews, by : Decisions]

Init ==
  /\ allowed = {}
  /\ server = [s \in Servers |-> "none"]
  /\ preview = [p \in Previews |-> NewPreview]
  /\ pend = {}
  /\ late = {}
  /\ decision = [d \in Decisions |-> NewDecision]
  /\ ran = {}

------------------------------------------------------------------------------
(* The tables.                                                             *)

InsertTestServer(s) ==
  /\ server[s] = "none"
  /\ server' = [server EXCEPT ![s] = "there"]
  /\ UNCHANGED <<allowed, preview, pend, late, decision, ran>>

\* A change of the row (UpdateTestServer) leaves it there: what it says is not modelled.
DeleteTestServer(s) ==
  /\ server[s] = "there"
  /\ server' = [server EXCEPT ![s] = "gone"]
  /\ UNCHANGED <<allowed, preview, pend, late, decision, ran>>

UpsertTestServerAllowedIP(c) ==
  /\ allowed' = allowed \cup {c}
  /\ UNCHANGED <<server, preview, pend, late, decision, ran>>

DeleteTestServerAllowedIP(c) ==
  /\ allowed' = allowed \ {c}
  /\ UNCHANGED <<server, preview, pend, late, decision, ran>>

IsTestServerIPAllowed(c) == c \in allowed

------------------------------------------------------------------------------
(* A preview.                                                              *)

\* The command is one of the templates: anything else is refused before it is explained.
BeginPreview(p, c, s) ==
  /\ preview[p] = NewPreview
  /\ IsTestServerIPAllowed(c)
  /\ preview' = [preview EXCEPT ![p] = [NewPreview EXCEPT
       !.at = "explain", !.client = c, !.server = s]]
  /\ UNCHANGED <<allowed, server, pend, late, decision, ran>>

\* What a model answers is believed; when it cannot be asked the command counts as harmless.
ExplainCommand == [risk : Risks, harmless : BOOLEAN]
NoExplanation == [risk |-> "mid", harmless |-> TRUE]

\* Register sweeps what is late.
RegisterPreview(p) ==
  /\ preview[p].at = "explain"
  /\ \E e \in ExplainCommand \cup {NoExplanation} :
       preview' = [preview EXCEPT ![p] =
         [@ EXCEPT !.at = "shown", !.risk = e.risk, !.harmless = e.harmless]]
  /\ pend' = (pend \ late) \cup {p}
  /\ UNCHANGED <<allowed, server, late, decision, ran>>

DeadlinePasses(p) ==
  /\ p \in pend \ late
  /\ late' = late \cup {p}
  /\ UNCHANGED <<allowed, server, preview, pend, decision, ran>>

------------------------------------------------------------------------------
(* A decision.                                                             *)

BeginDecision(d, c, p, says) ==
  /\ decision[d] = NewDecision
  /\ IsTestServerIPAllowed(c)
  /\ preview[p].at = "shown"
  /\ decision' = [decision EXCEPT ![d] = [at |-> "take", client |-> c, on |-> p, says |-> says]]
  /\ UNCHANGED <<allowed, server, preview, pend, late, ran>>

Decide(d, place) == decision' = [decision EXCEPT ![d].at = place]

\* Mutant: it is removed when the command has run.
Peek(d) ==
  /\ decision[d].at = "take"
  /\ LET p == decision[d].on IN Decide(d, IF p \in pend \ late THEN "check" ELSE "over")
  /\ UNCHANGED <<allowed, server, preview, pend, late, ran>>

\* Whoever asks, in time or not, takes it out.
Take(d) ==
  /\ decision[d].at = "take"
  /\ LET p == decision[d].on
     IN /\ pend' = pend \ {p}
        /\ Decide(d, IF p \in pend \ late THEN "check" ELSE "over")
  /\ UNCHANGED <<allowed, server, preview, late, ran>>

CheckDecision(d) ==
  /\ decision[d].at = "check"
  /\ LET p == preview[decision[d].on]
     IN Decide(d, IF /\ decision[d].client = p.client
                     /\ decision[d].says = "allow"
                     /\ p.risk # "high" /\ p.harmless
                  THEN "secret" ELSE "over")
  /\ UNCHANGED <<allowed, server, preview, pend, late, ran>>

\* The command reaches the server, or the dial fails.
RunSSH(d) == ran' = ran \/ ran' = ran \cup {[on |-> decision[d].on, by |-> d]}

\* The row is read now, and the command runs on the server it describes.
RunCommand(d) ==
  /\ decision[d].at = "secret"
  /\ LET s == preview[decision[d].on].server
     IN IF server[s] = "there" THEN RunSSH(d) ELSE UNCHANGED ran
  /\ Decide(d, "over")
  /\ UNCHANGED <<allowed, server, preview, pend, late>>

------------------------------------------------------------------------------

Next ==
  \/ \E s \in Servers : InsertTestServer(s) \/ DeleteTestServer(s)
  \/ \E c \in Clients : UpsertTestServerAllowedIP(c) \/ DeleteTestServerAllowedIP(c)
  \/ \E p \in Previews :
       \/ \E c \in Clients, s \in Servers : BeginPreview(p, c, s)
       \/ RegisterPreview(p) \/ DeadlinePasses(p)
  \/ \E d \in Decisions :
       \/ \E c \in Clients, p \in Previews, says \in {"allow", "deny"} : BeginDecision(d, c, p, says)
       \/ Take(d) \/ CheckDecision(d) \/ RunCommand(d)

Spec == Init /\ [][Next]_vars

------------------------------------------------------------------------------
(* Properties.                                                             *)

\* What was shown to an operator runs at most once, however often it is decided on and from
\* wherever: for the client it was shown to, and only if that client allowed it and it was found harmless.
RunsOnce ==
  /\ \A r, t \in ran : r.on = t.on => r = t
  /\ \A r \in ran :
       /\ decision[r.by].client = preview[r.on].client /\ decision[r.by].says = "allow"
       /\ preview[r.on].harmless /\ preview[r.on].risk # "high"
==============================================================================
