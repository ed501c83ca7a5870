------------------------ MODULE PermissionGateway_proofs ------------------------
(***************************************************************************)
(* Proofs about PermissionGateway for every set of hooks, conversations,   *)
(* agents, actions and policies, and whatever the classifiers find.        *)
(***************************************************************************)
EXTENDS PermissionGateway, TLAPS

Rulings == [verdict : {"none", "allow", "deny", "review"}, rule : Rules]

Whys == {"decided", "timeout", "context", "gone"}

\* What happens to one call, by whatever actor.
HookStep(h) ==
  \/ HandlerStep(h)
  \/ HookLeaves(h)
  \/ \E c \in Conversations, g \in Agents \cup {Nothing}, a \in Actions : Ask(h, c, g, a)
  \/ \E b \in {"allow", "deny"}, from \in {"person", "session", "dropped"} : Decide(h, b, from)

Around ==
  \/ \E g \in Agents, p \in Policies : SetPolicy(g, p)
  \/ \E c \in Conversations : NodeStarts(c)

LEMMA NextSteps ==
  ASSUME [Next]_vars
  PROVE  \/ \E h \in Hooks : HookStep(h)
         \/ Around
         \/ Restart
         \/ UNCHANGED vars
BY DEF Next, HookStep, Around

------------------------------------------------------------------------------
(* Types.                                                                  *)

LEMMA EvaluateType ==
  ASSUME NEW h \in Hooks
  PROVE  /\ Evaluate(h) \in Rulings
         /\ Evaluate(h).verdict \in {"allow", "deny", "review"}
BY DEF Evaluate, Ruling, Rulings, Rules

LEMMA OutcomeType ==
  ASSUME TypeOK, NEW h \in Hooks, pd[h].verdict # "none", pd[h].verdict # "review" \/ answer[h] # "none"
  PROVE  Outcome(h) \in {"allow", "deny"}
BY DEF TypeOK, Outcome

LEMMA RecordedByType ==
  ASSUME TypeOK, NEW h \in Hooks
  PROVE  RecordedBy(h) \in Deciders
BY DEF RecordedBy, Deciders

\* A call that is about to be recorded or answered has an outcome.
Settled ==
  \A h \in Hooks :
    /\ pc[h] # "new" => call[h] \in Calls
    /\ pc[h] \in {"visitor", "register", "wait", "remember", "record", "reply"} => pd[h].verdict # "none"
    /\ pc[h] \in {"record", "reply"} => pd[h].verdict # "review" \/ answer[h] # "none"
    /\ pc[h] = "remember" => answer[h] # "none"

TypeInv == TypeOK /\ Settled

LEMMA TypeInit == Init => TypeInv
BY DEF Init, TypeInv, TypeOK, Settled, Places, Rules

LEMMA TypeHandler ==
  ASSUME TypeInv, NEW h \in Hooks, HandlerStep(h)
  PROVE  TypeInv'
<1> USE DEF TypeInv, TypeOK, Settled, Places, Goto, config, asked
<1>1. CASE ReadPolicy(h)
  BY <1>1 DEF ReadPolicy, Calls
<1>2. CASE Judge(h)
  BY <1>2, EvaluateType DEF Judge, Rulings
<1>3. CASE \E risk \in Risks : Review(h, risk)
  BY <1>3 DEF Review, Risks, Rules, DecisionFromJevos
<1>4. CASE CheckVisitor(h)
  <2>1. [verdict |-> "deny", rule |-> pd[h].rule] \in Rulings
    BY DEF Rulings
  <2>2. CASE pd' = pd /\ pc' = [pc EXCEPT ![h] = "register"]
    BY <1>4, <2>2 DEF CheckVisitor
  <2>3. CASE /\ pd' = [pd EXCEPT ![h] = [verdict |-> "deny", rule |-> @.rule]]
             /\ pc' = [pc EXCEPT ![h] = "record"]
    <3>1. /\ pd' \in [Hooks -> Rulings]
          /\ pd'[h].verdict = "deny"
          /\ \A j \in Hooks \ {h} : pd'[j] = pd[j]
      BY <2>1, <2>3 DEF Rulings
    <3> QED BY <1>4, <2>3, <3>1 DEF CheckVisitor, Rulings
  <2> QED BY <1>4, <2>2, <2>3 DEF CheckVisitor
<1>5. CASE Register(h)
  BY <1>5 DEF Register
<1>6. CASE \E why \in Whys : WaitReturns(h, why)
  <2> PICK why \in Whys : WaitReturns(h, why)
    BY <1>6
  <2>1. /\ answer' \in [Hooks -> {"none", "allow", "deny"}]
        /\ answer'[h] # "none"
        /\ \A j \in Hooks \ {h} : answer'[j] = answer[j]
        /\ decision' = decision
    BY DEF WaitReturns, Gate!Allow, Gate!Refuse
  <2>2. /\ pc' \in [Hooks -> Places]
        /\ pc'[h] \in {"remember", "record"}
        /\ \A j \in Hooks \ {h} : pc'[j] = pc[j]
    BY DEF WaitReturns
  <2> QED BY <2>1, <2>2 DEF WaitReturns, Whys
<1>7. CASE Remember(h)
  <2>1. GrantOf(h) \in Conversations \X Signatures
    BY <1>7, SignatureAssumption DEF Remember, Calls, GrantOf
  <2> QED BY <1>7, <2>1 DEF Remember
<1>8. CASE Record(h)
  BY <1>8, OutcomeType, RecordedByType DEF Record
<1>9. CASE Reply(h)
  BY <1>9, OutcomeType DEF Reply
<1> QED BY <1>1, <1>2, <1>3, <1>4, <1>5, <1>6, <1>7, <1>8, <1>9 DEF HandlerStep, Whys

LEMMA TypeNext == TypeInv /\ [Next]_vars => TypeInv'
<1> SUFFICES ASSUME TypeInv, [Next]_vars PROVE TypeInv'
  OBVIOUS
<1> USE DEF TypeInv, TypeOK, Settled, Places, Goto, config, asked
<1>1. ASSUME NEW h \in Hooks, HookStep(h) PROVE TypeInv'
  <2>1. CASE HandlerStep(h)
    BY <2>1, TypeHandler
  <2>2. CASE HookLeaves(h)
    BY <2>2 DEF HookLeaves
  <2>3. CASE \E c \in Conversations, g \in Agents \cup {Nothing}, a \in Actions : Ask(h, c, g, a)
    BY <2>3 DEF Ask, Calls
  <2>4. CASE \E b \in {"allow", "deny"}, from \in {"person", "session", "dropped"} : Decide(h, b, from)
    BY <2>4 DEF Decide, Gate!Decide
  <2> QED BY <1>1, <2>1, <2>2, <2>3, <2>4 DEF HookStep
<1>2. CASE Around
  <2>1. /\ policy' \in [Agents -> Policies]
        /\ flags' \subseteq Conversations
    BY <1>2 DEF Around, SetPolicy, NodeStarts
  <2>2. UNCHANGED <<grants, audit, call, pc, seen, pd, asked, source, ended, dead, told>>
    BY <1>2 DEF Around, SetPolicy, NodeStarts
  <2> QED BY <2>1, <2>2
<1>3. CASE Restart
  BY <1>3 DEF Restart, Active
<1>4. CASE UNCHANGED vars
  BY <1>4 DEF vars
<1> QED BY <1>1, <1>2, <1>3, <1>4, NextSteps

\* Every reachable state is well typed, and a call that is recorded or answered has
\* been decided.
THEOREM TypeCorrect == Spec => []TypeOK
<1>1. TypeInv => TypeOK
  BY DEF TypeInv
<1> QED BY <1>1, TypeInit, TypeNext, PTL DEF Spec

------------------------------------------------------------------------------
(* What a step of one call leaves alone.                                   *)

Same(j) ==
  /\ call'[j] = call[j] /\ pc'[j] = pc[j] /\ seen'[j] = seen[j] /\ pd'[j] = pd[j]
  /\ answer'[j] = answer[j] /\ source'[j] = source[j] /\ told'[j] = told[j]
  /\ decision'[j] = decision[j] /\ ended'[j] = ended[j] /\ (j \in dead' <=> j \in dead)

LEMMA OthersSame ==
  ASSUME TypeOK, NEW h \in Hooks, HookStep(h)
  PROVE  /\ \A j \in Hooks \ {h} : Same(j)
         /\ grants \subseteq grants'
         /\ audit \subseteq audit'
<1> USE DEF TypeOK, Same, Goto, config, asked
<1>1. CASE ReadPolicy(h) \/ Judge(h) \/ \E risk \in Risks : Review(h, risk)
  BY <1>1 DEF ReadPolicy, Judge, Review
<1>2. CASE CheckVisitor(h) \/ Register(h)
  BY <1>2 DEF CheckVisitor, Register
<1>3. CASE \E why \in Whys : WaitReturns(h, why)
  BY <1>3 DEF WaitReturns, Gate!Allow, Gate!Refuse
<1>4. CASE Remember(h) \/ Record(h) \/ Reply(h)
  BY <1>4 DEF Remember, Record, Reply
<1>5. CASE HookLeaves(h)
  BY <1>5 DEF HookLeaves
<1>6. CASE \E c \in Conversations, g \in Agents \cup {Nothing}, a \in Actions : Ask(h, c, g, a)
  BY <1>6 DEF Ask
<1>7. CASE \E b \in {"allow", "deny"}, from \in {"person", "session", "dropped"} : Decide(h, b, from)
  BY <1>7 DEF Decide, Gate!Decide
<1> QED BY <1>1, <1>2, <1>3, <1>4, <1>5, <1>6, <1>7 DEF HookStep, HandlerStep, Whys

LEMMA AroundSame ==
  ASSUME Around \/ UNCHANGED vars
  PROVE  /\ UNCHANGED <<grants, audit, call, pc, seen, pd, asked, source, ended, dead, told>>
BY DEF Around, SetPolicy, NodeStarts, vars, config

------------------------------------------------------------------------------
(* Hard rules.                                                             *)

\* Neither a hard rule nor the agent's policy is against the call.
Permitted(h) ==
  /\ ~Has(h, "hard")
  /\ call[h].agent # Nothing => seen[h] # Nothing /\ ~PolicyDenies(call[h].action, seen[h])

HardInv(h) ==
  /\ pc[h] \in {"judge", "jevos", "visitor", "register"} => answer[h] = "none"
  /\ pc[h] \in {"new", "policy"} => answer[h] = "none"
  /\ pc[h] = "judge" /\ call[h].agent # Nothing => seen[h] # Nothing \/ h \in dead
  /\ pc[h] \in {"jevos", "visitor", "register", "wait", "remember"} => Permitted(h) \/ h \in dead
  /\ pc[h] \in {"record", "reply"} /\ Outcome(h) = "allow" => Permitted(h) \/ h \in dead
  /\ told[h] = "allow" => pc[h] = "done" /\ Permitted(h)

Hard == \A h \in Hooks : HardInv(h)

LEMMA HardKept ==
  ASSUME NEW j \in Hooks, HardInv(j), Same(j)
  PROVE  HardInv(j)'
BY DEF HardInv, Same, Permitted, Outcome, Has, PolicyDenies

LEMMA HardStep ==
  ASSUME TypeInv, NEW h \in Hooks, HardInv(h), HookStep(h)
  PROVE  HardInv(h)'
<1> USE DEF TypeInv, TypeOK, Settled, HardInv, Permitted, Outcome, Goto, asked, config
<1>1. CASE ReadPolicy(h)
  <2>1. call[h] \in Calls
    BY <1>1 DEF ReadPolicy
  <2>2. call[h].agent # Nothing /\ h \notin dead => seen'[h] # Nothing
    BY <1>1, <2>1, NothingAssumption DEF ReadPolicy, Calls
  <2> QED BY <1>1, <2>2 DEF ReadPolicy
<1>2. CASE Judge(h)
  <2>1. Evaluate(h).verdict # "deny" =>
          ~Has(h, "hard") /\ (seen[h] # Nothing => ~PolicyDenies(call[h].action, seen[h]))
    BY DEF Evaluate, Ruling, PolicyForbids
  <2>2. pd'[h] = Evaluate(h) /\ answer'[h] = "none" /\ UNCHANGED <<call, seen, dead, told>>
    BY <1>2 DEF Judge
  <2>3. pc'[h] \in {"record", "jevos", "visitor"} /\ (pc'[h] # "record" => Evaluate(h).verdict = "review")
    BY <1>2, EvaluateType DEF Judge
  <2>4. Evaluate(h).verdict # "deny" => Permitted(h) \/ h \in dead
    BY <1>2, <2>1 DEF Judge
  <2>5. Permitted(h)' <=> Permitted(h)
    BY <2>2 DEF Has, PolicyDenies
  <2> QED BY <1>2, <2>2, <2>3, <2>4, <2>5 DEF Judge
<1>3. CASE \E risk \in Risks : Review(h, risk)
  BY <1>3 DEF Review, Has, PolicyDenies
<1>4. CASE CheckVisitor(h)
  BY <1>4 DEF CheckVisitor, Has, PolicyDenies
<1>5. CASE Register(h) \/ Remember(h) \/ Record(h)
  BY <1>5 DEF Register, Remember, Record, Has, PolicyDenies
<1>6. CASE \E why \in Whys : WaitReturns(h, why)
  <2> PICK why \in Whys : WaitReturns(h, why)
    BY <1>6
  <2>1. pc[h] = "wait" /\ pc'[h] \in {"remember", "record"} /\ UNCHANGED <<call, seen, dead, told>>
    BY DEF WaitReturns
  <2>2. Permitted(h)' <=> Permitted(h)
    BY <2>1 DEF Has, PolicyDenies
  <2> QED BY <2>1, <2>2
<1>7. CASE Reply(h)
  BY <1>7 DEF Reply, Has, PolicyDenies
<1>8. CASE HookLeaves(h)
  BY <1>8 DEF HookLeaves, Has, PolicyDenies
<1>9. CASE \E c \in Conversations, g \in Agents \cup {Nothing}, a \in Actions : Ask(h, c, g, a)
  BY <1>9 DEF Ask
<1>10. CASE \E b \in {"allow", "deny"}, from \in {"person", "session", "dropped"} : Decide(h, b, from)
  BY <1>10 DEF Decide, Gate!Decide, Has, PolicyDenies
<1> QED BY <1>1, <1>2, <1>3, <1>4, <1>5, <1>6, <1>7, <1>8, <1>9, <1>10
        DEF HookStep, HandlerStep, Whys

LEMMA HardNext == TypeInv /\ Hard /\ [Next]_vars => Hard'
<1> SUFFICES ASSUME TypeInv, Hard, [Next]_vars, NEW j \in Hooks PROVE HardInv(j)'
  BY DEF Hard
<1> USE DEF Hard
<1>1. ASSUME NEW h \in Hooks, HookStep(h) PROVE HardInv(j)'
  BY <1>1, HardStep, HardKept, OthersSame DEF TypeInv
<1>2. CASE Around \/ UNCHANGED vars
  BY <1>2, AroundSame, HardKept DEF Same, asked
<1>3. CASE Restart
  BY <1>3 DEF Restart, Active, HardInv, Permitted, Outcome, Has, PolicyDenies, asked, TypeInv, TypeOK
<1> QED BY <1>1, <1>2, <1>3, NextSteps

\* No flag, grant, reviewer or person lets a call run that a hard rule or the policy
\* read for it refuses, whatever races.
THEOREM HardRulesAlwaysWin == Spec => []HardRulesWin
<1>1. Init => Hard
  BY DEF Init, Hard, HardInv
<1>2. Hard => HardRulesWin
  BY DEF Hard, HardInv, HardRulesWin, Permitted
<1> QED BY <1>1, <1>2, TypeInit, TypeNext, HardNext, PTL DEF Spec

------------------------------------------------------------------------------
(* Grants.                                                                 *)

\* A call that a person let through for the whole session.
Granted(h) == pc[h] # "new" /\ source[h] = "session" /\ answer[h] = "allow"

GrantInv(h) ==
  /\ pc[h] \in {"new", "policy", "judge", "jevos", "visitor", "register", "wait"} => answer[h] = "none"
  /\ pc[h] = "remember" => Granted(h)

Granting == GrantsAreGiven /\ \A h \in Hooks : GrantInv(h)

LEMMA GrantStep ==
  ASSUME TypeInv, NEW h \in Hooks, GrantInv(h), HookStep(h)
  PROVE  /\ GrantInv(h)'
         /\ Granted(h) => Granted(h)' /\ call'[h] = call[h]
<1> USE DEF TypeInv, TypeOK, GrantInv, Granted, Goto, asked, config
<1>1. CASE ReadPolicy(h) \/ Judge(h) \/ \E risk \in Risks : Review(h, risk)
  BY <1>1, EvaluateType DEF ReadPolicy, Judge, Review
<1>2. CASE CheckVisitor(h) \/ Register(h) \/ Record(h) \/ Reply(h) \/ Remember(h)
  BY <1>2 DEF CheckVisitor, Register, Record, Reply, Remember
<1>3. CASE \E why \in Whys : WaitReturns(h, why)
  BY <1>3 DEF WaitReturns, Gate!Allow, Gate!Refuse
<1>4. CASE HookLeaves(h)
  BY <1>4 DEF HookLeaves
<1>5. CASE \E c \in Conversations, g \in Agents \cup {Nothing}, a \in Actions : Ask(h, c, g, a)
  BY <1>5 DEF Ask
<1>6. CASE \E b \in {"allow", "deny"}, from \in {"person", "session", "dropped"} : Decide(h, b, from)
  BY <1>6 DEF Decide, Gate!Decide
<1> QED BY <1>1, <1>2, <1>3, <1>4, <1>5, <1>6 DEF HookStep, HandlerStep, Whys

\* Only RememberSession adds a grant, the one of its own call.
LEMMA GrantsGrow ==
  ASSUME NEW h \in Hooks, HookStep(h)
  PROVE  \/ grants' = grants
         \/ /\ pc[h] = "remember" /\ call' = call
            /\ grants' = grants \cup {GrantOf(h)}
BY DEF HookStep, HandlerStep, ReadPolicy, Judge, Review, CheckVisitor, Register, Record, Reply,
       Remember, WaitReturns, HookLeaves, Ask, Decide

LEMMA GrantNext == TypeInv /\ Granting /\ [Next]_vars => Granting'
<1> SUFFICES ASSUME TypeInv, Granting, [Next]_vars PROVE Granting'
  OBVIOUS
<1> USE DEF Granting
<1>1. ASSUME NEW h \in Hooks, HookStep(h) PROVE Granting'
  <2>1. \A j \in Hooks : GrantInv(j)'
    BY <1>1, GrantStep, OthersSame DEF TypeInv, GrantInv, Granted, Same
  <2>2. ASSUME NEW x \in grants
        PROVE  \E j \in Hooks : Granted(j)' /\ x = GrantOf(j)'
    <3>1. PICK j \in Hooks : Granted(j) /\ x = GrantOf(j)
      BY DEF GrantsAreGiven, Granted
    <3>2. Granted(j)' /\ call'[j] = call[j]
      BY <1>1, <3>1, GrantStep, OthersSame DEF TypeInv, Granted, Same
    <3> QED BY <3>1, <3>2 DEF GrantOf
  <2>3. ASSUME NEW x \in grants', x \notin grants
        PROVE  Granted(h)' /\ x = GrantOf(h)'
    BY <1>1, <2>3, GrantsGrow, GrantStep DEF GrantInv, GrantOf
  <2>4. GrantsAreGiven'
    BY <2>2, <2>3 DEF GrantsAreGiven, Granted
  <2> QED BY <2>1, <2>4
<1>2. CASE Around \/ UNCHANGED vars
  BY <1>2, AroundSame DEF asked, GrantsAreGiven, GrantInv, Granted, GrantOf
<1>3. CASE Restart
  BY <1>3 DEF Restart, Active, asked, GrantsAreGiven, GrantInv, Granted, GrantOf, TypeInv, TypeOK
<1> QED BY <1>1, <1>2, <1>3, NextSteps

\* A session grant always comes from a person who let a call with that signature
\* through in that conversation for the session.
THEOREM GrantsAlwaysGiven == Spec => []GrantsAreGiven
<1>1. Init => Granting
  BY DEF Init, Granting, GrantsAreGiven, GrantInv
<1>2. Granting => GrantsAreGiven
  BY DEF Granting
<1> QED BY <1>1, <1>2, TypeInit, TypeNext, GrantNext, PTL DEF Spec

------------------------------------------------------------------------------
(* The audit.                                                              *)

\* There is a row for the call that agrees with what it is or was told.
RowFor(h) == \E e \in audit : e.hook = h /\ e.decision = Outcome(h)

AuditInv(h) ==
  /\ pc[h] = "reply" => h \in dead \/ RowFor(h)
  /\ told[h] = "allow" => pc[h] = "done" /\ \E e \in audit : e.hook = h /\ e.decision = "allow"

Audited == \A h \in Hooks : AuditInv(h)

\* The steps that neither record a call nor answer it.
LEMMA AuditQuiet ==
  ASSUME TypeInv, NEW h \in Hooks, AuditInv(h), HookStep(h)
  PROVE  \/ Record(h) \/ Reply(h) \/ HookLeaves(h)
         \/ pc[h] # "done" /\ pc'[h] # "reply" /\ told'[h] = told[h]
<1> USE DEF TypeInv, TypeOK, Goto, asked, config
<1>1. CASE ReadPolicy(h) \/ Judge(h) \/ \E risk \in Risks : Review(h, risk)
  BY <1>1 DEF ReadPolicy, Judge, Review
<1>2. CASE CheckVisitor(h) \/ Register(h) \/ Remember(h)
  BY <1>2 DEF CheckVisitor, Register, Remember
<1>3. CASE \E why \in Whys : WaitReturns(h, why)
  BY <1>3 DEF WaitReturns
<1>4. CASE \E c \in Conversations, g \in Agents \cup {Nothing}, a \in Actions : Ask(h, c, g, a)
  BY <1>4 DEF Ask
<1>5. CASE \E b \in {"allow", "deny"}, from \in {"person", "session", "dropped"} : Decide(h, b, from)
  BY <1>5 DEF Decide, Gate!Decide
<1> QED BY <1>1, <1>2, <1>3, <1>4, <1>5 DEF HookStep, HandlerStep, Whys

LEMMA AuditStep ==
  ASSUME TypeInv, NEW h \in Hooks, AuditInv(h), HookStep(h)
  PROVE  AuditInv(h)'
<1>1. CASE Record(h)
  <2>1. /\ pc[h] = "record" /\ pc'[h] = "reply" /\ told' = told
        /\ Outcome(h)' = Outcome(h) /\ dead' = dead
    BY <1>1 DEF Record, Goto, TypeInv, TypeOK, Outcome, asked
  <2>2. h \notin dead => [hook |-> h, decision |-> Outcome(h), by |-> RecordedBy(h)] \in audit'
    BY <1>1 DEF Record
  <2>3. h \notin dead => RowFor(h)'
    BY <2>1, <2>2 DEF RowFor
  <2> QED BY <2>1, <2>3 DEF AuditInv
<1>2. CASE Reply(h)
  <2>1. /\ pc[h] = "reply" /\ pc'[h] = "done" /\ audit' = audit /\ dead' = dead
        /\ told'[h] = IF h \in dead THEN told[h] ELSE Outcome(h)
    BY <1>2 DEF Reply, Goto, TypeInv, TypeOK
  <2>2. told[h] # "allow"
    BY <2>1 DEF AuditInv
  <2> QED BY <2>1, <2>2 DEF AuditInv, RowFor
<1>3. CASE HookLeaves(h)
  BY <1>3 DEF HookLeaves, AuditInv, TypeInv, TypeOK
<1>4. CASE pc[h] # "done" /\ pc'[h] # "reply" /\ told'[h] = told[h]
  BY <1>4 DEF AuditInv
<1> QED BY <1>1, <1>2, <1>3, <1>4, AuditQuiet

LEMMA AuditNext == TypeInv /\ Audited /\ [Next]_vars => Audited'
<1> SUFFICES ASSUME TypeInv, Audited, [Next]_vars, NEW j \in Hooks PROVE AuditInv(j)'
  BY DEF Audited
<1> USE DEF Audited
<1>1. ASSUME NEW h \in Hooks, HookStep(h) PROVE AuditInv(j)'
  <2>1. CASE j = h
    BY <1>1, <2>1, AuditStep
  <2>2. CASE j # h
    BY <1>1, <2>2, OthersSame DEF TypeInv, AuditInv, RowFor, Outcome, Same
  <2> QED BY <2>1, <2>2
<1>2. CASE Around \/ UNCHANGED vars
  BY <1>2, AroundSame DEF asked, AuditInv, RowFor, Outcome
<1>3. CASE Restart
  BY <1>3 DEF Restart, Active, asked, AuditInv, RowFor, Outcome, TypeInv, TypeOK
<1> QED BY <1>1, <1>2, <1>3, NextSteps

\* A tool that was let run has its row in the audit, whoever let it run.
THEOREM RanAlwaysRecorded == Spec => []RanIsRecorded
<1>1. Init => Audited
  BY DEF Init, Audited, AuditInv
<1>2. Audited => RanIsRecorded
  BY DEF Audited, AuditInv, RanIsRecorded
<1> QED BY <1>1, <1>2, TypeInit, TypeNext, AuditNext, PTL DEF Spec

------------------------------------------------------------------------------
(* What the audit says.                                                    *)

\* Where an answer comes from, and what a session rule rests on.
OriginInv(h) ==
  /\ answer[h] = "allow" => decision[h] = "allow"
  /\ decision[h] = "allow" => source[h] \in {"person", "session"}
  /\ ended[h] = "none" <=> answer[h] = "none"
  /\ pd[h].rule = "session" => pc[h] # "new" /\ GrantCovers(h)

\* What a row says is what the call it names came to.
RowInv(h) ==
  /\ pc[h] = "done" /\ h \notin dead => told[h] = Outcome(h)
  /\ \A e \in audit : e.hook = h =>
       pc[h] \in {"reply", "done"} /\ e.decision = Outcome(h) /\ e.by = RecordedBy(h)

Truthful == \A h \in Hooks : OriginInv(h) /\ RowInv(h)

LEMMA OriginStep ==
  ASSUME TypeInv, NEW h \in Hooks, OriginInv(h), HookStep(h)
  PROVE  OriginInv(h)'
<1> USE DEF TypeInv, TypeOK, OriginInv, Goto, asked, config
<1>1. CASE ReadPolicy(h) \/ Register(h) \/ Record(h) \/ Reply(h) \/ HookLeaves(h)
  BY <1>1 DEF ReadPolicy, Register, Record, Reply, HookLeaves, GrantCovers, GrantOf
<1>2. CASE Judge(h)
  <2>1. Evaluate(h).rule = "session" => GrantCovers(h)
    BY DEF Evaluate, Ruling
  <2>2. pd'[h] = Evaluate(h) /\ UNCHANGED <<call, grants, asked, source, ended>> /\ pc'[h] # "new"
    BY <1>2 DEF Judge
  <2> QED BY <2>1, <2>2 DEF GrantCovers, GrantOf
<1>3. CASE \E risk \in Risks : Review(h, risk)
  BY <1>3 DEF Review
<1>4. CASE CheckVisitor(h)
  <2>1. pd'[h].rule = pd[h].rule /\ UNCHANGED <<call, grants, asked, source, ended>> /\ pc'[h] # "new"
    BY <1>4 DEF CheckVisitor
  <2> QED BY <2>1 DEF GrantCovers, GrantOf
<1>5. CASE \E why \in Whys : WaitReturns(h, why)
  <2> PICK why \in Whys : WaitReturns(h, why)
    BY <1>5
  <2>1. /\ answer'[h] \in {"allow", "deny"} /\ (answer'[h] = "allow" => decision[h] = "allow")
        /\ ended'[h] # "none" /\ pc'[h] # "new" /\ UNCHANGED <<call, grants, pd, decision, source>>
    BY DEF WaitReturns, Whys, Gate!Allow, Gate!Refuse
  <2> QED BY <2>1 DEF GrantCovers, GrantOf
<1>6. CASE Remember(h)
  BY <1>6 DEF Remember, GrantCovers, GrantOf
<1>7. CASE \E c \in Conversations, g \in Agents \cup {Nothing}, a \in Actions : Ask(h, c, g, a)
  BY <1>7 DEF Ask
<1>8. CASE \E b \in {"allow", "deny"}, from \in {"person", "session", "dropped"} : Decide(h, b, from)
  BY <1>8 DEF Decide, Gate!Decide, GrantCovers, GrantOf
<1> QED BY <1>1, <1>2, <1>3, <1>4, <1>5, <1>6, <1>7, <1>8 DEF HookStep, HandlerStep, Whys

LEMMA RowStep ==
  ASSUME TypeInv, NEW h \in Hooks, RowInv(h), HookStep(h)
  PROVE  RowInv(h)'
<1>1. CASE Record(h)
  <2>1. /\ pc[h] = "record" /\ pc'[h] = "reply"
        /\ Outcome(h)' = Outcome(h) /\ RecordedBy(h)' = RecordedBy(h)
        /\ audit' \subseteq audit \cup {[hook |-> h, decision |-> Outcome(h), by |-> RecordedBy(h)]}
    BY <1>1 DEF Record, Goto, TypeInv, TypeOK, Outcome, RecordedBy, asked
  <2> QED BY <2>1 DEF RowInv
<1>2. CASE Reply(h)
  <2>1. /\ pc[h] = "reply" /\ pc'[h] = "done" /\ audit' = audit /\ dead' = dead
        /\ Outcome(h)' = Outcome(h) /\ RecordedBy(h)' = RecordedBy(h)
        /\ h \notin dead => told'[h] = Outcome(h)
    BY <1>2 DEF Reply, Goto, TypeInv, TypeOK, Outcome, RecordedBy, asked
  <2> QED BY <2>1 DEF RowInv
<1>3. CASE HookLeaves(h)
  <2>1. /\ pc[h] # "done" /\ pc' = pc /\ audit' = audit
        /\ Outcome(h)' = Outcome(h) /\ RecordedBy(h)' = RecordedBy(h)
    BY <1>3 DEF HookLeaves, Active, Outcome, RecordedBy, asked
  <2> QED BY <2>1 DEF RowInv
<1>4. CASE ~Record(h) /\ ~Reply(h) /\ ~HookLeaves(h)
  <2> USE DEF TypeInv, TypeOK, Goto, asked, config
  <2>1. pc[h] \notin {"reply", "done"} /\ pc'[h] # "done" /\ audit' = audit
    <3>1. CASE ReadPolicy(h) \/ Judge(h) \/ \E risk \in Risks : Review(h, risk)
      BY <3>1 DEF ReadPolicy, Judge, Review
    <3>2. CASE CheckVisitor(h) \/ Register(h) \/ Remember(h)
      BY <3>2 DEF CheckVisitor, Register, Remember
    <3>3. CASE \E why \in Whys : WaitReturns(h, why)
      BY <3>3 DEF WaitReturns
    <3>4. CASE \E c \in Conversations, g \in Agents \cup {Nothing}, a \in Actions : Ask(h, c, g, a)
      BY <3>4 DEF Ask
    <3>5. CASE \E b \in {"allow", "deny"}, from \in {"person", "session", "dropped"} : Decide(h, b, from)
      BY <3>5 DEF Decide, Gate!Decide
    <3> QED BY <1>4, <3>1, <3>2, <3>3, <3>4, <3>5 DEF HookStep, HandlerStep, Whys
  <2> QED BY <2>1 DEF RowInv
<1> QED BY <1>1, <1>2, <1>3, <1>4

\* A row that is new names the call that wrote it.
LEMMA AuditGrows ==
  ASSUME NEW h \in Hooks, HookStep(h)
  PROVE  \A e \in audit' : e \in audit \/ e.hook = h
BY DEF HookStep, HandlerStep, ReadPolicy, Judge, Review, CheckVisitor, Register, Record, Reply,
       Remember, WaitReturns, HookLeaves, Ask, Decide

LEMMA TruthNext == TypeInv /\ Truthful /\ [Next]_vars => Truthful'
<1> SUFFICES ASSUME TypeInv, Truthful, [Next]_vars, NEW j \in Hooks
             PROVE  OriginInv(j)' /\ RowInv(j)'
  BY DEF Truthful
<1> USE DEF Truthful
<1>1. ASSUME NEW h \in Hooks, HookStep(h) PROVE OriginInv(j)' /\ RowInv(j)'
  <2>1. CASE j = h
    BY <1>1, <2>1, OriginStep, RowStep
  <2>2. CASE j # h
    <3>1. Same(j) /\ grants \subseteq grants' /\ audit \subseteq audit'
      BY <1>1, <2>2, OthersSame DEF TypeInv
    <3>2. OriginInv(j)'
      BY <3>1 DEF OriginInv, GrantCovers, GrantOf, Same
    <3>3. RowInv(j)'
      BY <1>1, <2>2, <3>1, AuditGrows DEF RowInv, Outcome, RecordedBy, Same
    <3> QED BY <3>2, <3>3
  <2> QED BY <2>1, <2>2
<1>2. CASE Around \/ UNCHANGED vars
  BY <1>2, AroundSame DEF asked, OriginInv, RowInv, GrantCovers, GrantOf, Outcome, RecordedBy
<1>3. CASE Restart
  <2>1. OriginInv(j)'
    BY <1>3 DEF Restart, Active, asked, OriginInv, GrantCovers, GrantOf, TypeInv, TypeOK
  <2>2. RowInv(j)'
    BY <1>3 DEF Restart, Active, asked, RowInv, Outcome, RecordedBy, TypeInv, TypeOK
  <2> QED BY <2>1, <2>2
<1> QED BY <1>1, <1>2, <1>3, NextSteps

\* The audit is true: "human" and "session" rows of allowed calls go back to a person,
\* and a hook that was there for its answer was told what its row says.
THEOREM RecordsAreTrue == Spec => []RecordIsTrue
<1>1. Init => Truthful
  <2> SUFFICES ASSUME Init, NEW h \in Hooks
               PROVE  OriginInv(h) /\ RowInv(h)
    BY DEF Truthful
  <2>1. /\ answer[h] = "none" /\ decision[h] = "none" /\ ended[h] = "none"
        /\ pd[h].rule = "none" /\ pc[h] = "new" /\ audit = {}
    BY DEF Init
  <2> QED BY <2>1 DEF OriginInv, RowInv
<1>2. TypeInv /\ Truthful => RecordIsTrue
  <2> SUFFICES ASSUME TypeInv, Truthful, NEW e \in audit
               PROVE  /\ e.decision = "allow" /\ e.by = "human" => source[e.hook] \in {"person", "session"}
                      /\ e.by = "session" => GrantCovers(e.hook)
                      /\ pc[e.hook] = "done" /\ e.hook \notin dead => told[e.hook] = e.decision
    BY DEF RecordIsTrue
  <2>1. e.hook \in Hooks
    BY DEF TypeInv, TypeOK
  <2>2. OriginInv(e.hook) /\ RowInv(e.hook)
    BY <2>1 DEF Truthful
  <2>3. e.by = RecordedBy(e.hook) /\ e.decision = Outcome(e.hook)
    BY <2>2 DEF RowInv
  <2>4. e.by = "human" => ended[e.hook] # "none"
    BY <2>3 DEF RecordedBy
  <2>5. e.by = "session" => pd[e.hook].rule = "session"
    BY <2>3 DEF RecordedBy
  <2>6. ended[e.hook] # "none" => e.decision = answer[e.hook]
    BY <2>2, <2>3 DEF OriginInv, Outcome
  <2> QED BY <2>2, <2>3, <2>4, <2>5, <2>6 DEF OriginInv, RowInv
<1> QED BY <1>1, <1>2, TypeInit, TypeNext, TruthNext, PTL DEF Spec

==============================================================================
