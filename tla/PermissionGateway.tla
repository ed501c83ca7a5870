--------------------------- MODULE PermissionGateway ---------------------------
(***************************************************************************)
(* One call of a tool by an engine: the hook program posts it, the server  *)
(* judges it (Gateway.Evaluate: hard rules, the agent's policy, safe       *)
(* commands, the allow-all flag of a workflow, session grants, the JEVOS   *)
(* reviewer), asks a person when the judgement is REVIEW, remembers a      *)
(* grant, writes the audit row and answers the hook                        *)
(* (Service.HandlePermissionRequest).  Many calls are under way at once,   *)
(* policies are edited, workflow nodes start, hooks give up and the        *)
(* process restarts meanwhile.                                             *)
(*                                                                         *)
(* The wait for a person is what PermissionGate promises, which            *)
(* PermissionHub implements.  What the classifiers find in a call is a set *)
(* of traits; the signature that a session grant is kept under is a        *)
(* function of the call which the code does not promise to be one-to-one   *)
(* (it keeps the first command of a compound one).                         *)
(***************************************************************************)
CONSTANTS
  Hooks,          \* tool calls, one run of the hook program each
  Conversations,
  Visitors,       \* conversations of front-desk visitors
  Agents,
  Actions,        \* what tool calls do
  traits,         \* what the classifiers find in an action
  Signatures,
  signature,      \* ToolAction.Signature
  Policies,       \* the policies an administrator gives
  Nothing         \* no agent (the main chat), no policy

Permissions == {"write", "network", "rm"}
Traits == Permissions \cup
  {"hard", "fetch", "browser", "outside", "safe", "delete", "effect"}

ASSUME VisitorsAssumption == Visitors \subseteq Conversations
ASSUME TraitsAssumption == traits \in [Actions -> SUBSET Traits]
ASSUME SignatureAssumption == signature \in [Actions -> Signatures]
ASSUME PoliciesAssumption == Policies \subseteq SUBSET Permissions
ASSUME NothingAssumption == Nothing \notin Agents \cup Policies

VARIABLES
  policy,         \* managed_agents: what an agent is permitted
  flags,          \* Hub.allowAllNoRm
  grants,         \* session_permissions: <<conversation, signature>>
  audit,          \* command_audits: [hook, decision, by]
  call,           \* what a hook asks for: [conv, agent, action]
  pc,             \* where the handler of the call is
  seen,           \* the policy it has read
  pd,             \* its PermissionDecision: [verdict, rule]
  decision,       \* the person's decision in the hub, see PermissionGate
  answer,         \* what the hub's Wait returned
  source,         \* where the decision came from
  ended,          \* how a Wait ended
  dead,           \* calls whose context has ended: the hook has gone
  told            \* what the engine was told

asked == <<decision, answer>>
config == <<policy, flags>>
vars == <<config, grants, audit, call, pc, seen, pd, asked, source, ended, dead, told>>

Gate == INSTANCE PermissionGate WITH Calls <- Hooks

Places == {"new", "policy", "judge", "jevos", "visitor", "register", "wait",
           "remember", "record", "reply", "done"}
Rules == {"none", "hard_deny", "agent_policy", "agent_policy_network", "safe_allow",
          "workflow_allow_all", "session", "unknown_readonly", "jevos"}
Risks == {"none", "low", "high"}   \* "none": the reviewer failed
Deciders == {"static_rule", "session", "jevos", "system", "human", "timeout", "disconnect"}
Calls == [conv : Conversations, agent : Agents \cup {Nothing}, action : Actions]

TypeOK ==
  /\ policy \in [Agents -> Policies]
  /\ flags \in SUBSET Conversations
  /\ grants \in SUBSET (Conversations \X Signatures)
  /\ audit \in SUBSET [hook : Hooks, decision : {"allow", "deny"}, by : Deciders]
  /\ call \in [Hooks -> Calls \cup {Nothing}]
  /\ pc \in [Hooks -> Places]
  /\ seen \in [Hooks -> Policies \cup {Nothing}]
  /\ pd \in [Hooks -> [verdict : {"none", "allow", "deny", "review"}, rule : Rules]]
  /\ decision \in [Hooks -> {"none", "allow", "deny"}]
  /\ answer \in [Hooks -> {"none", "allow", "deny"}]
  /\ source \in [Hooks -> {"none", "person", "session", "dropped"}]
  /\ ended \in [Hooks -> {"none", "decided", "timeout", "context", "gone"}]
  /\ dead \in SUBSET Hooks
  /\ told \in [Hooks -> {"none", "allow", "deny"}]

Init ==
  /\ policy \in [Agents -> Policies]
  /\ flags = {}
  /\ grants = {}
  /\ audit = {}
  /\ call = [h \in Hooks |-> Nothing]
  /\ pc = [h \in Hooks |-> "new"]
  /\ seen = [h \in Hooks |-> Nothing]
  /\ pd = [h \in Hooks |-> [verdict |-> "none", rule |-> "none"]]
  /\ decision = [h \in Hooks |-> "none"]
  /\ answer = [h \in Hooks |-> "none"]
  /\ source = [h \in Hooks |-> "none"]
  /\ ended = [h \in Hooks |-> "none"]
  /\ dead = {}
  /\ told = [h \in Hooks |-> "none"]

------------------------------------------------------------------------------
(* The rules.                                                              *)

Has(h, trait) == trait \in traits[call[h].action]

\* ApplyAgentPolicy: a web tool is judged by the network permission alone.
PolicyDenies(a, p) ==
  IF traits[a] \cap {"fetch", "browser"} # {}
  THEN "network" \notin p
  ELSE "outside" \in traits[a] \/ (traits[a] \cap Permissions) \ p # {}

PolicyForbids(h) == seen[h] # Nothing /\ PolicyDenies(call[h].action, seen[h])
PolicyOffers(h) == seen[h] # Nothing /\ "network" \in seen[h] /\ Has(h, "fetch")
FlagCovers(h) == call[h].conv \in flags /\ ~Has(h, "delete") /\ ~Has(h, "rm")
GrantOf(h) == <<call[h].conv, signature[call[h].action]>>
GrantCovers(h) == GrantOf(h) \in grants

Ruling(verdict, rule) == [verdict |-> verdict, rule |-> rule]

\* Mutant: the workflow's flag is asked first.
EvaluateFlagFirst(h) ==
  IF Has(h, "hard")                 THEN Ruling("deny", "hard_deny")
  ELSE IF FlagCovers(h)             THEN Ruling("allow", "workflow_allow_all")
  ELSE IF PolicyForbids(h)          THEN Ruling("deny", "agent_policy")
  ELSE IF PolicyOffers(h)           THEN Ruling("allow", "agent_policy_network")
  ELSE IF Has(h, "safe")            THEN Ruling("allow", "safe_allow")
  ELSE IF GrantCovers(h)            THEN Ruling("allow", "session")
  ELSE IF ~Has(h, "effect")         THEN Ruling("review", "unknown_readonly")
  ELSE Ruling("review", "jevos")

\* Gateway.Evaluate up to the reviewer, whose turn it is when the rule is "jevos".
Evaluate(h) ==
  IF Has(h, "hard")                 THEN Ruling("deny", "hard_deny")
  ELSE IF PolicyForbids(h)          THEN Ruling("deny", "agent_policy")
  ELSE IF PolicyOffers(h)           THEN Ruling("allow", "agent_policy_network")
  ELSE IF Has(h, "safe")            THEN Ruling("allow", "safe_allow")
  ELSE IF FlagCovers(h)             THEN Ruling("allow", "workflow_allow_all")
  ELSE IF GrantCovers(h)            THEN Ruling("allow", "session")
  ELSE IF ~Has(h, "effect")         THEN Ruling("review", "unknown_readonly")
  ELSE Ruling("review", "jevos")

\* Harm or a wish for review above the band is a REVIEW, never a refusal.
DecisionFromJevos(risk) == IF risk = "low" THEN "allow" ELSE "review"

------------------------------------------------------------------------------
(* A call.                                                                 *)

Goto(h, place) == pc' = [pc EXCEPT ![h] = place]
Active(h) == pc[h] \notin {"new", "done"}

Ask(h, c, g, a) ==
  /\ pc[h] = "new"
  /\ call' = [call EXCEPT ![h] = [conv |-> c, agent |-> g, action |-> a]]
  /\ Goto(h, "policy")
  /\ UNCHANGED <<config, grants, audit, seen, pd, asked, source, ended, dead, told>>

\* GetManagedAgent through the hook's context: without it there is no policy.
ReadPolicy(h) ==
  /\ pc[h] = "policy"
  /\ seen' = IF call[h].agent = Nothing \/ h \in dead THEN seen
             ELSE [seen EXCEPT ![h] = policy[call[h].agent]]
  /\ Goto(h, "judge")
  /\ UNCHANGED <<config, grants, audit, call, pd, asked, source, ended, dead, told>>

Judge(h) ==
  /\ pc[h] = "judge"
  /\ pd' = [pd EXCEPT ![h] = Evaluate(h)]
  /\ Goto(h, IF Evaluate(h).verdict # "review" THEN "record"
             ELSE IF Evaluate(h).rule = "jevos" THEN "jevos" ELSE "visitor")
  /\ UNCHANGED <<config, grants, audit, call, seen, asked, source, ended, dead, told>>

\* The reviewer answers with a score ("none": it failed, always so once the
\* context has ended).
Review(h, risk) ==
  /\ pc[h] = "jevos"
  /\ h \in dead => risk = "none"
  /\ pd' = [pd EXCEPT ![h] = [verdict |-> DecisionFromJevos(risk), rule |-> "jevos"]]
  /\ Goto(h, IF DecisionFromJevos(risk) = "allow" THEN "record" ELSE "visitor")
  /\ UNCHANGED <<config, grants, audit, call, seen, asked, source, ended, dead, told>>

\* ConversationHasVisitor: an error counts as no.
CheckVisitor(h) ==
  /\ pc[h] = "visitor"
  /\ IF call[h].conv \in Visitors /\ h \notin dead
     THEN /\ pd' = [pd EXCEPT ![h] = [verdict |-> "deny", rule |-> @.rule]]
          /\ Goto(h, "record")
     ELSE UNCHANGED pd /\ Goto(h, "register")
  /\ UNCHANGED <<config, grants, audit, call, seen, asked, source, ended, dead, told>>

\* Hub.Register: the front end shows a card from now on.
Register(h) ==
  /\ pc[h] = "register"
  /\ Goto(h, "wait")
  /\ UNCHANGED <<config, grants, audit, call, seen, pd, asked, source, ended, dead, told>>

\* Hub.Decide by a person, or Hub.DropByConv at the end of an ask.
Decide(h, b, from) ==
  /\ pc[h] = "wait"
  /\ from \in {"session", "person", "dropped"}
  /\ from = "session" => b = "allow"
  /\ from = "dropped" => b = "deny"
  /\ Gate!Decide(h, b)
  /\ source' = [source EXCEPT ![h] = from]
  /\ UNCHANGED <<config, grants, audit, call, pc, seen, pd, ended, dead, told>>

\* Mutant: the grant is read from the click instead of Wait's result.
WaitReturnsByClick(h, why) ==
  /\ pc[h] = "wait"
  /\ why = "decided" => decision[h] # "none"
  /\ why = "context" => h \in dead
  /\ IF why = "decided" /\ decision[h] = "allow" THEN Gate!Allow(h) ELSE Gate!Refuse(h)
  /\ ended' = [ended EXCEPT ![h] = why]
  /\ Goto(h, IF source[h] = "session" THEN "remember" ELSE "record")
  /\ UNCHANGED <<config, grants, audit, call, seen, pd, source, dead, told>>

\* Mutant: no timer.
WaitReturnsUntimed(h, why) ==
  /\ pc[h] = "wait"
  /\ why = "decided" => decision[h] # "none"
  /\ why = "context" => h \in dead
  /\ why \in {"decided", "context"}
  /\ IF why = "decided" /\ decision[h] = "allow" THEN Gate!Allow(h) ELSE Gate!Refuse(h)
  /\ ended' = [ended EXCEPT ![h] = why]
  /\ Goto(h, IF answer'[h] = "allow" /\ source[h] = "session" THEN "remember" ELSE "record")
  /\ UNCHANGED <<config, grants, audit, call, seen, pd, source, dead, told>>

\* Hub.Wait: the decision, the timer, the end of the context, or an id the hub
\* does not know (it was full, or the decision came before the wait).
WaitReturns(h, why) ==
  /\ pc[h] = "wait"
  /\ why = "decided" => decision[h] # "none"
  /\ why = "context" => h \in dead
  /\ IF why = "decided" /\ decision[h] = "allow" THEN Gate!Allow(h) ELSE Gate!Refuse(h)
  /\ ended' = [ended EXCEPT ![h] = why]
  /\ Goto(h, IF answer'[h] = "allow" /\ source[h] = "session" THEN "remember" ELSE "record")
  /\ UNCHANGED <<config, grants, audit, call, seen, pd, source, dead, told>>

\* Mutant: an early return once the grant is stored.
RememberAndReply(h) ==
  /\ pc[h] = "remember"
  /\ grants' = grants \cup {GrantOf(h)}
  /\ Goto(h, "reply")
  /\ UNCHANGED <<config, audit, call, seen, pd, asked, source, ended, dead, told>>

\* RememberSession, through context.Background().
Remember(h) ==
  /\ pc[h] = "remember"
  /\ grants' = grants \cup {GrantOf(h)}
  /\ Goto(h, "record")
  /\ UNCHANGED <<config, audit, call, seen, pd, asked, source, ended, dead, told>>

\* What the handler answers.
Outcome(h) == IF answer[h] = "none" THEN pd[h].verdict ELSE answer[h]

\* Mutant: the rule instead of who decided.
RecordedByRule(h) == pd[h].rule

\* Who is said to have decided: after a wait the reason's text is searched for
\* the timeout and for the end of the context, everything else is a person.
RecordedBy(h) ==
  IF ended[h] = "timeout"        THEN "timeout"
  ELSE IF ended[h] = "context"   THEN "disconnect"
  ELSE IF ended[h] # "none"      THEN "human"
  ELSE IF pd[h].rule = "session" THEN "session"
  ELSE IF pd[h].rule = "jevos"   THEN IF pd[h].verdict = "deny" THEN "system" ELSE "jevos"
  ELSE IF pd[h].rule = "unknown_readonly" THEN "system"
  ELSE "static_rule"

\* Mutant: what the person said is recorded, whatever became of it.
RecordClick(h) ==
  /\ pc[h] = "record"
  /\ audit' = IF h \in dead THEN audit
              ELSE audit \cup {[hook |-> h, by |-> RecordedBy(h), decision |->
                     IF decision[h] = "none" THEN Outcome(h) ELSE decision[h]]}
  /\ Goto(h, "reply")
  /\ UNCHANGED <<config, grants, call, seen, pd, asked, source, ended, dead, told>>

\* recordPerm, through the hook's context.
Record(h) ==
  /\ pc[h] = "record"
  /\ audit' = IF h \in dead THEN audit
              ELSE audit \cup {[hook |-> h, decision |-> Outcome(h), by |-> RecordedBy(h)]}
  /\ Goto(h, "reply")
  /\ UNCHANGED <<config, grants, call, seen, pd, asked, source, ended, dead, told>>

\* The response; the hook that has gone was told "deny" by its own program.
Reply(h) ==
  /\ pc[h] = "reply"
  /\ told' = IF h \in dead THEN told ELSE [told EXCEPT ![h] = Outcome(h)]
  /\ Goto(h, "done")
  /\ UNCHANGED <<config, grants, audit, call, seen, pd, asked, source, ended, dead>>

------------------------------------------------------------------------------
(* Around the calls.                                                       *)

\* The hook's client gives up, or the engine that started it is killed: nothing
\* runs, and the server's context ends.
HookLeaves(h) ==
  /\ Active(h)
  /\ h \notin dead
  /\ dead' = dead \cup {h}
  /\ told' = [told EXCEPT ![h] = "deny"]
  /\ UNCHANGED <<config, grants, audit, call, pc, seen, pd, asked, source, ended>>

\* An administrator edits an agent.
SetPolicy(g, p) ==
  /\ policy' = [policy EXCEPT ![g] = p]
  /\ UNCHANGED <<flags, grants, audit, call, pc, seen, pd, asked, source, ended, dead, told>>

\* A node of a workflow that allows all commands starts in its conversation; the flag
\* is never cleared.
NodeStarts(c) ==
  /\ flags' = flags \cup {c}
  /\ UNCHANGED <<policy, grants, audit, call, pc, seen, pd, asked, source, ended, dead, told>>

\* The process restarts: the calls under way end with an error, which the hook
\* program takes for a refusal; grants, audit and policies are in the database.
Restart ==
  /\ \E h \in Hooks : Active(h)
  /\ flags' = {}
  /\ pc' = [h \in Hooks |-> IF Active(h) THEN "done" ELSE pc[h]]
  /\ dead' = dead \cup {h \in Hooks : Active(h)}
  /\ told' = [h \in Hooks |-> IF Active(h) THEN "deny" ELSE told[h]]
  /\ UNCHANGED <<policy, grants, audit, call, seen, pd, asked, source, ended>>

------------------------------------------------------------------------------
HandlerStep(h) ==
  \/ ReadPolicy(h) \/ Judge(h) \/ CheckVisitor(h) \/ Register(h)
  \/ Remember(h) \/ Record(h) \/ Reply(h)
  \/ \E risk \in Risks : Review(h, risk)
  \/ \E why \in {"decided", "timeout", "context", "gone"} : WaitReturns(h, why)

Next ==
  \/ \E h \in Hooks :
       \/ HandlerStep(h)
       \/ HookLeaves(h)
       \/ \E c \in Conversations, g \in Agents \cup {Nothing}, a \in Actions : Ask(h, c, g, a)
       \/ \E b \in {"allow", "deny"}, from \in {"person", "session", "dropped"} :
            Decide(h, b, from)
  \/ \E g \in Agents, p \in Policies : SetPolicy(g, p)
  \/ \E c \in Conversations : NodeStarts(c)
  \/ Restart

Spec == Init /\ [][Next]_vars

\* The handler runs, the reviewer answers or times out, the hub's timer fires.
FairSpec == Spec /\ \A h \in Hooks : WF_vars(HandlerStep(h))

------------------------------------------------------------------------------
(* Properties.                                                             *)

\* A tool never runs against a hard rule or against the policy its agent had when
\* the call was judged: no flag, grant, reviewer or person overrides them.
HardRulesWin ==
  \A h \in Hooks : told[h] = "allow" =>
    /\ ~Has(h, "hard")
    /\ call[h].agent # Nothing =>
         seen[h] # Nothing /\ ~PolicyDenies(call[h].action, seen[h])

\* Every grant of a session was given by a person who was shown a call with its
\* signature in its conversation, and that call was itself let through.
GrantsAreGiven ==
  \A x \in grants : \E h \in Hooks :
    /\ pc[h] # "new"
    /\ x = GrantOf(h)
    /\ source[h] = "session"
    /\ answer[h] = "allow"

\* What ran is in the audit, as allowed.
RanIsRecorded ==
  \A h \in Hooks : told[h] = "allow" =>
    \E e \in audit : e.hook = h /\ e.decision = "allow"

\* The audit does not lie about who let a call through: "human" means that a person
\* allowed this very call, "session" that one granted the action before; and a hook
\* that waited for its answer was told what is recorded.
RecordIsTrue ==
  \A e \in audit :
    /\ e.decision = "allow" /\ e.by = "human" => source[e.hook] \in {"person", "session"}
    /\ e.by = "session" => GrantCovers(e.hook)
    /\ pc[e.hook] = "done" /\ e.hook \notin dead => told[e.hook] = e.decision

\* Every call is answered, whether or not anybody clicks.
HookIsAnswered == \A h \in Hooks : pc[h] = "policy" ~> told[h] # "none"

------------------------------------------------------------------------------
(* What the documents say and the code does not do.                        *)

\* productManual.js, section 8, and service.go: every decision is recorded, allowed
\* or refused.
EveryDecisionIsRecorded ==
  \A h \in Hooks : pc[h] = "reply" => \E e \in audit : e.hook = h
==============================================================================
