---------------------------- MODULE FrontDesk_proofs ----------------------------
(* Theorems about FrontDesk, for any agents, browsers, asks and renewals.  *)
EXTENDS FrontDesk, TLAPS

\* Visitors and conversations are numbered; a call is an ask or a renewal.
Parameters ==
  /\ MaxVisitors \in Nat /\ MaxConvs \in Nat
  /\ Nothing \notin Nat /\ Nothing \notin Agents /\ Nothing \notin Browsers
  /\ Nothing \notin Asks \cup Renewals /\ Asks \cap Renewals = {}

-------------------------------------------------------------------------------
(* The inductive invariant.                                                *)

\* No two browsers have one visitor, and a visitor's conversation is its own.
Owned ==
  /\ \A b \in Browsers : cookie[b] # Nothing =>
       /\ cookie[b] \in DOMAIN current
       /\ \A d \in Browsers : cookie[d] = cookie[b] => d = b
  /\ \A v \in DOMAIN current : current[v] # Nothing =>
       current[v] \in DOMAIN conv /\ conv[current[v]].visitor = v

OwnConv(q, c) == c \in DOMAIN conv /\ conv[c].visitor = call[q].visitor

\* A call works for its browser's visitor, in that visitor's conversations.
Served(q) ==
  /\ call[q].browser \in Browsers
  /\ call[q].visitor \in DOMAIN current
  /\ \A b \in Browsers : cookie[b] = call[q].visitor => b = call[q].browser
  /\ call[q].seen # Nothing => OwnConv(q, call[q].seen)
  /\ call[q].conv # Nothing => OwnConv(q, call[q].conv)
  /\ call[q].at \notin {"receptionist", "over"} => call[q].agent \in Agents
  /\ call[q].at \notin {"receptionist", "ensure", "create", "over"} => call[q].conv # Nothing
  /\ q \in Renewals => call[q].at \in {"receptionist", "create", "bind", "over"}

CallsServed ==
  \A q \in Calls : IF call[q].at = "new" THEN call[q].conv = Nothing ELSE Served(q)

\* The rows of a conversation are of asks that work for its visitor.
RowsOwned ==
  \A c \in DOMAIN conv : \A r \in conv[c].rows :
    call[r.ask].at # "new" /\ call[r.ask].visitor = conv[c].visitor

\* What the log, the answer and the rows say of an ask at each place.
Before == {"new", "receptionist", "ensure", "create", "bind", "admit", "slot", "store", "begin"}
Has(q, row) == Exists(call[q].conv) => row \in conv[call[q].conv].rows
LogAt(q) ==
  /\ At(q, "begin") => Has(q, QuestionOf(q))
  /\ call[q].at \in Before => log[q] = "none"
  /\ call[q].at \in {"engine", "audit"} =>
       log[q] \in {"none", "processing"} /\ (log[q] = "processing" => Has(q, QuestionOf(q)))
  /\ At(q, "audit") =>
       /\ answer[q] # "none"
       /\ answer[q] = "stopped" => q \in dead
       /\ answer[q] = "error" => call[q].failed
       /\ answer[q] = "full" => ~call[q].failed
       /\ Has(q, AnswerOf(q))
  /\ At(q, "over") =>
       /\ log[q] # "processing"
       /\ log[q] = "success" =>
            answer[q] = "full" /\ Has(q, QuestionOf(q)) /\ Has(q, AnswerOf(q))
       /\ log[q] = "error" => answer[q] = "error"

Logged == \A q \in Asks : LogAt(q)

IInv == TypeOK /\ Owned /\ CallsServed /\ RowsOwned /\ Logged

-------------------------------------------------------------------------------
(* Types.                                                                  *)

CallRec == [at : Places, browser : Browsers \cup {Nothing}, visitor : Visitors \cup {Nothing},
            seen : Convs \cup {Nothing}, agent : Agents \cup {Nothing},
            conv : Convs \cup {Nothing}, failed : BOOLEAN]
ConvRec == [visitor : Visitors, agent : Agents, rows : SUBSET Rows, here : BOOLEAN]

LEMMA InitIInv == ASSUME Parameters PROVE Init => IInv
<1> SUFFICES ASSUME Init PROVE IInv
  OBVIOUS
<1> USE DEF Init, Parameters, Calls
<1>1. NewCall \in CallRec
  BY DEF NewCall, CallRec, Places
<1>2. TypeOK
  <2>1. current \in Seq(Convs \cup {Nothing}) /\ Len(current) = 0
    OBVIOUS
  <2>2. conv \in Seq(ConvRec) /\ Len(conv) = 0
    OBVIOUS
  <2>3. call \in [Calls -> CallRec]
    BY <1>1
  <2>4. /\ agents \subseteq Agents /\ recv \in agents \cup {Nothing}
        /\ clearing \in Agents \cup {Nothing} /\ dismissing \in agents \cup {Nothing}
        /\ cookie \in [Browsers -> Visitors \cup {Nothing}]
    OBVIOUS
  <2>5. /\ dead \subseteq Calls /\ slot \in [Agents -> Asks \cup {Nothing}]
        /\ answer \in [Asks -> Answers] /\ log \in [Asks -> Logs]
    BY DEF Answers, Logs
  <2>6. Len(current) <= MaxVisitors /\ Len(conv) <= MaxConvs
    BY <2>1, <2>2
  <2> HIDE DEF Init
  <2>7. QED
    BY <2>1, <2>2, <2>3, <2>4, <2>5, <2>6, Zenon DEF TypeOK, CallRec, ConvRec
<1>3. Owned /\ RowsOwned
  BY DEF Owned, RowsOwned
<1>4. CallsServed
  BY DEF CallsServed, NewCall
<1>5. Logged
  BY DEF Logged, LogAt, At, NewCall, Before
<1>6. QED
  BY <1>2, <1>3, <1>4, <1>5 DEF IInv

\* A call that moves, or reads something, keeps its type.
LEMMA CallType ==
  ASSUME TypeOK, NEW q \in Calls, NEW r \in CallRec, call' = [call EXCEPT ![q] = r]
  PROVE  call' \in [Calls -> CallRec]
BY DEF TypeOK, CallRec

LEMMA GoType ==
  ASSUME TypeOK, NEW q \in Calls, NEW p \in Places, Go(q, p)
  PROVE  /\ call' \in [Calls -> CallRec]
         /\ call' = [call EXCEPT ![q] = [call[q] EXCEPT !.at = p]]
<1>1. call \in [Calls -> CallRec]
  BY DEF TypeOK, CallRec
<1>2. [call[q] EXCEPT !.at = p] \in CallRec
  BY <1>1 DEF CallRec
<1>3. QED
  BY <1>1, <1>2 DEF Go

LEMMA AddRowType ==
  ASSUME TypeOK, NEW c, NEW r \in Rows, AddRow(c, r)
  PROVE  conv' \in Seq(ConvRec) /\ Len(conv') = Len(conv)
<1>1. conv \in Seq(ConvRec)
  BY DEF TypeOK, ConvRec
<1>2. CASE Exists(c)
  <2>0. conv[c] \in ConvRec
    BY <1>1, <1>2 DEF Exists
  <2>1. [conv[c] EXCEPT !.rows = @ \cup {r}] \in ConvRec
    <3>1. conv[c].rows \cup {r} \in SUBSET Rows
      BY <2>0 DEF ConvRec
    <3>2. QED
      BY <2>0, <3>1 DEF ConvRec
  <2>2. conv' = [conv EXCEPT ![c] = [conv[c] EXCEPT !.rows = @ \cup {r}]]
    BY <1>2 DEF AddRow
  <2>3. QED
    BY <1>1, <1>2, <2>1, <2>2 DEF Exists
<1>3. CASE ~Exists(c)
  BY <1>1, <1>3 DEF AddRow
<1>4. QED
  BY <1>2, <1>3

LEMMA TypeStep ==
  ASSUME Parameters, IInv, [Next]_vars
  PROVE  TypeOK'
<1> USE DEF Parameters, Calls
<1>0. /\ TypeOK /\ call \in [Calls -> CallRec] /\ conv \in Seq(ConvRec)
      /\ current \in Seq(Convs \cup {Nothing})
  BY DEF IInv, TypeOK, CallRec, ConvRec
<1>a. \A q \in Calls : call[q] \in CallRec
  BY <1>0
<1>1. ASSUME agents' \subseteq Agents, recv' \in agents' \cup {Nothing},
             clearing' \in Agents \cup {Nothing}, dismissing' \in agents' \cup {Nothing},
             cookie' \in [Browsers -> Visitors \cup {Nothing}],
             current' \in Seq(Convs \cup {Nothing}), Len(current') <= MaxVisitors,
             conv' \in Seq(ConvRec), Len(conv') <= MaxConvs, call' \in [Calls -> CallRec],
             dead' \subseteq Calls, slot' \in [Agents -> Asks \cup {Nothing}],
             answer' \in [Asks -> Answers], log' \in [Asks -> Logs]
      PROVE  TypeOK'
  BY <1>1 DEF TypeOK, CallRec, ConvRec
<1>2. ASSUME UNCHANGED <<cookie, current, conv, call, answer, log>>,
             agents' \subseteq Agents, recv' \in agents' \cup {Nothing},
             clearing' \in Agents \cup {Nothing}, dismissing' \in agents' \cup {Nothing},
             dead' \subseteq Calls, slot' \in [Agents -> Asks \cup {Nothing}]
      PROVE  TypeOK'
  BY <1>0, <1>2 DEF TypeOK
<1>3. ASSUME NEW b \in Browsers, Register(b) PROVE TypeOK'
  <2>1. current' \in Seq(Convs \cup {Nothing}) /\ Len(current') = Len(current) + 1
    BY <1>0, <1>3 DEF Register
  <2>2. cookie' \in [Browsers -> Visitors \cup {Nothing}] /\ Len(current') <= MaxVisitors
    BY <1>0, <1>3, <2>1 DEF Register, TypeOK, Visitors
  <2>3. QED
    BY <1>0, <1>3, <2>1, <2>2 DEF Register, desk, asked, TypeOK
<1>4. ASSUME call' \in [Calls -> CallRec], UNCHANGED <<desk, cookie, current, conv, asked>>
      PROVE  TypeOK'
  BY <1>0, <1>4 DEF TypeOK, desk, asked, CallRec
<1>5. ASSUME NEW q \in Calls, NEW b \in Browsers, RequireVisitor(q, b) PROVE TypeOK'
  <2> DEFINE v == cookie[b]
  <2>1. v \in Visitors /\ v \in DOMAIN current /\ current[v] \in Convs \cup {Nothing}
    BY <1>0, <1>5 DEF RequireVisitor, Parse, IInv, Owned, TypeOK
  <2>2. [call[q] EXCEPT !.at = "receptionist", !.browser = b, !.visitor = v,
                        !.seen = current[v]] \in CallRec
    <3> HIDE DEF v
    <3>1. QED
      BY <1>a, <2>1 DEF CallRec, Places
  <2>3. call' \in [Calls -> CallRec]
    BY <1>0, <1>5, <2>2 DEF RequireVisitor, Parse, GetVisitorByPublicID
  <2>4. QED
    BY <1>4, <1>5, <2>3 DEF RequireVisitor
<1>6. ASSUME NEW q \in Calls, ReadReceptionist(q) PROVE TypeOK'
  <2>1. recv \in Agents \cup {Nothing}
    BY <1>0 DEF TypeOK
  <2>2. \A p \in Places : [call[q] EXCEPT !.at = p] \in CallRec
    BY <1>a DEF CallRec
  <2>3. \A p \in Places : [call[q] EXCEPT !.agent = recv, !.at = p] \in CallRec
    BY <1>a, <2>1 DEF CallRec
  <2>4. call' \in [Calls -> CallRec]
    BY <1>0, <1>6, <2>2, <2>3 DEF ReadReceptionist, GetReceptionist, Go, Places
  <2>5. QED
    BY <1>4, <1>6, <2>4 DEF ReadReceptionist
<1>7. ASSUME NEW q \in Calls, EnsureVisitorConversation(q) PROVE TypeOK'
  <2>1. \A p \in Places : [call[q] EXCEPT !.at = p] \in CallRec
    BY <1>a DEF CallRec
  <2>2. [call[q] EXCEPT !.at = "admit", !.conv = call[q].seen] \in CallRec
    <3>1. call[q].seen \in Convs \cup {Nothing}
      BY <1>a DEF CallRec
    <3>2. QED
      BY <1>a, <3>1 DEF CallRec, Places
  <2>3. call' \in [Calls -> CallRec]
    BY <1>0, <1>7, <2>1, <2>2 DEF EnsureVisitorConversation, Go, Places
  <2>4. QED
    BY <1>4, <1>7, <2>3 DEF EnsureVisitorConversation
<1>8. ASSUME NEW q \in Calls, CreateVisitorConversation(q) PROVE TypeOK'
  <2>1. [call[q] EXCEPT !.at = "over"] \in CallRec
    BY <1>a DEF CallRec, Places
  <2>2. CASE q \in dead
    BY <1>0, <1>4, <1>8, <2>1, <2>2 DEF CreateVisitorConversation, Go
  <2>3. CASE q \notin dead
    <3> DEFINE c == [visitor |-> call[q].visitor, agent |-> call[q].agent, rows |-> {},
                     here |-> TRUE]
    <3>1. c \in ConvRec
      <4>1. Served(q)
        BY <1>8 DEF CreateVisitorConversation, At, IInv, CallsServed
      <4>2. call[q].visitor \in Visitors /\ call[q].agent \in Agents
        BY <1>0, <1>8, <4>1 DEF Served, CreateVisitorConversation, At, CallRec, TypeOK
      <4>3. QED
        BY <4>2 DEF ConvRec
    <3>2. conv' = Append(conv, c) /\ Len(conv) < MaxConvs
      BY <1>8, <2>3 DEF CreateVisitorConversation
    <3>3. conv' \in Seq(ConvRec) /\ Len(conv') <= MaxConvs /\ Len(conv) + 1 \in Convs
      <4> HIDE DEF c
      <4>1. Len(conv) \in Nat /\ Len(Append(conv, c)) = Len(conv) + 1
        BY <1>0, <3>1
      <4>2. QED
        BY <1>0, <3>1, <3>2, <4>1 DEF Convs
    <3>4. [call[q] EXCEPT !.at = "bind", !.conv = Len(conv) + 1] \in CallRec
      BY <1>a, <3>3 DEF CallRec, Places
    <3>5. call' \in [Calls -> CallRec]
      BY <1>0, <1>8, <2>3, <3>4 DEF CreateVisitorConversation
    <3>6. QED
      BY <1>0, <1>8, <3>3, <3>5 DEF CreateVisitorConversation, desk, asked, TypeOK, CallRec, ConvRec
  <2>4. QED
    BY <2>2, <2>3
<1>9. ASSUME NEW q \in Calls, SetVisitorCurrentConversation(q) PROVE TypeOK'
  <2>1. \A p \in Places : [call[q] EXCEPT !.at = p] \in CallRec
    BY <1>a DEF CallRec
  <2>2. call' \in [Calls -> CallRec]
    BY <1>0, <1>9, <2>1 DEF SetVisitorCurrentConversation, Go, Places
  <2>3. current' \in Seq(Convs \cup {Nothing}) /\ Len(current') = Len(current)
    <3>1. Served(q)
      BY <1>9 DEF SetVisitorCurrentConversation, At, IInv, CallsServed
    <3>2. call[q].visitor \in DOMAIN current /\ call[q].conv \in Convs
      BY <1>0, <1>9, <3>1 DEF Served, SetVisitorCurrentConversation, At, CallRec
    <3>3. QED
      BY <1>0, <1>9, <3>2 DEF SetVisitorCurrentConversation
  <2>4. QED
    BY <1>0, <1>9, <2>2, <2>3 DEF SetVisitorCurrentConversation, desk, asked, TypeOK, CallRec
<1>10. ASSUME NEW q \in Calls, AskReceptionist(q) PROVE TypeOK'
  <2>1. \A p \in Places : [call[q] EXCEPT !.at = p] \in CallRec
    BY <1>a DEF CallRec
  <2>2. call' \in [Calls -> CallRec]
    BY <1>0, <1>10, <2>1 DEF AskReceptionist, Go, Places
  <2>3. QED
    BY <1>4, <1>10, <2>2 DEF AskReceptionist
<1>11. ASSUME NEW q \in Calls, TakeSlot(q) PROVE TypeOK'
  <2>1. [call[q] EXCEPT !.at = "store"] \in CallRec
    BY <1>a DEF CallRec, Places
  <2>2. call' \in [Calls -> CallRec]
    BY <1>0, <1>11, <2>1 DEF TakeSlot, Go
  <2>3. call[q].agent \in Agents /\ q \in Asks
    <3>1. Served(q)
      BY <1>11 DEF TakeSlot, At, IInv, CallsServed
    <3>2. QED
      BY <1>11, <3>1 DEF Served, TakeSlot, At
  <2>4. dead' \subseteq Calls /\ slot' \in [Agents -> Asks \cup {Nothing}]
    BY <1>0, <1>11, <2>3 DEF TakeSlot, TypeOK
  <2>5. QED
    BY <1>0, <1>11, <2>2, <2>4 DEF TakeSlot, desk, TypeOK, CallRec
<1>12. ASSUME NEW q \in Calls, StoreQuestion(q) \/ SaveAnswer(q) PROVE TypeOK'
  <2>0. q \in Asks
    <3>1. Served(q)
      BY <1>12 DEF StoreQuestion, SaveAnswer, At, IInv, CallsServed
    <3>2. QED
      BY <1>12, <3>1 DEF Served, StoreQuestion, SaveAnswer, At
  <2>1. \A p \in Places : [call[q] EXCEPT !.at = p] \in CallRec
    BY <1>a DEF CallRec
  <2>2. \A f \in BOOLEAN : [call[q] EXCEPT !.at = "audit", !.failed = f] \in CallRec
    BY <1>a DEF CallRec, Places
  <2>3. call' \in [Calls -> CallRec]
    BY <1>0, <1>12, <2>1, <2>2 DEF StoreQuestion, SaveAnswer, Go, Places
  <2>4. QuestionOf(q) \in Rows /\ AnswerOf(q) \in Rows
    BY <2>0 DEF QuestionOf, AnswerOf, Rows
  <2>5. conv' \in Seq(ConvRec) /\ Len(conv') = Len(conv)
    BY <1>0, <1>12, <2>4, AddRowType DEF StoreQuestion, SaveAnswer
  <2>6. answer' \in [Asks -> Answers]
    BY <1>0, <1>12, <2>0 DEF StoreQuestion, SaveAnswer, asked, TypeOK, Answers
  <2>7. QED
    BY <1>0, <1>12, <2>3, <2>5, <2>6 DEF StoreQuestion, SaveAnswer, desk, asked, TypeOK, CallRec, ConvRec
<1>13. ASSUME NEW q \in Calls, BeginVisitorAskLog(q) \/ FinalizeVisitorAskAudit(q) PROVE TypeOK'
  <2>0. q \in Asks
    <3>1. Served(q)
      BY <1>13 DEF BeginVisitorAskLog, FinalizeVisitorAskAudit, At, IInv, CallsServed
    <3>2. QED
      BY <1>13, <3>1 DEF Served, BeginVisitorAskLog, FinalizeVisitorAskAudit, At
  <2>1. \A p \in Places : [call[q] EXCEPT !.at = p] \in CallRec
    BY <1>a DEF CallRec
  <2>2. call' \in [Calls -> CallRec]
    BY <1>0, <1>13, <2>1 DEF BeginVisitorAskLog, FinalizeVisitorAskAudit, Go, Places
  <2>3. log' \in [Asks -> Logs]
    BY <1>0, <1>13, <2>0 DEF BeginVisitorAskLog, FinalizeVisitorAskAudit, FinishVisitorAskLog,
       TypeOK, Logs
  <2>4. slot' \in [Agents -> Asks \cup {Nothing}]
    BY <1>0, <1>13 DEF BeginVisitorAskLog, FinalizeVisitorAskAudit, LeaveSlot, TypeOK
  <2>5. QED
    BY <1>0, <1>13, <2>2, <2>3, <2>4
       DEF BeginVisitorAskLog, FinalizeVisitorAskAudit, desk, TypeOK, CallRec
<1>14. ASSUME NEW q \in Calls, Disconnect(q) PROVE TypeOK'
  BY <1>0, <1>14 DEF Disconnect, desk, TypeOK
<1>15. ASSUME NEW a \in Agents, SetReceptionist(a) \/ StopManaged(a) \/ DismissAgent(a)
       PROVE  TypeOK'
  <2>1. dead' \subseteq Calls /\ slot' \in [Agents -> Asks \cup {Nothing}]
    BY <1>0, <1>15 DEF SetReceptionist, StopManaged, DismissAgent, StopAgent, asked, TypeOK
  <2>2. QED
    BY <1>0, <1>2, <1>15, <2>1 DEF SetReceptionist, StopManaged, DismissAgent, desk, asked, TypeOK
<1>16. CASE FindReceptionist \/ ClearReceptionist
  BY <1>0, <1>2, <1>16 DEF FindReceptionist, ClearReceptionist, GetReceptionist, asked, TypeOK
<1>17. CASE DeleteManagedAgent
  <2> DEFINE Cut(c) ==
        IF conv[c].agent = dismissing THEN [conv[c] EXCEPT !.rows = {}, !.here = FALSE] ELSE conv[c]
  <2>1. ASSUME NEW c \in DOMAIN conv PROVE Cut(c) \in ConvRec
    <3>1. conv[c] \in ConvRec
      BY <1>0
    <3>2. QED
      BY <3>1 DEF ConvRec
  <2>2. conv' = [c \in DOMAIN conv |-> Cut(c)]
    BY <1>17 DEF DeleteManagedAgent
  <2> HIDE DEF Cut
  <2>3. DOMAIN conv = 1..Len(conv) /\ Len(conv) \in Nat
    BY <1>0
  <2>4. conv' \in Seq(ConvRec) /\ Len(conv') = Len(conv)
    BY <2>1, <2>2, <2>3
  <2>5. QED
    BY <1>0, <1>17, <2>4 DEF DeleteManagedAgent, asked, TypeOK, ConvRec
<1>18. CASE UNCHANGED vars
  BY <1>0, <1>18 DEF vars, TypeOK
<1>19. QED
  BY <1>3, <1>5, <1>6, <1>7, <1>8, <1>9, <1>10, <1>11, <1>12, <1>13, <1>14, <1>15, <1>16, <1>17,
     <1>18 DEF Next, CallStep

-------------------------------------------------------------------------------
(* What a step leaves as it is.                                            *)

\* Conversations are only added; one that is gone does not come back, and while it is
\* there it loses no row.
Kept(c) ==
  /\ c \in DOMAIN conv' /\ conv'[c].visitor = conv[c].visitor
  /\ conv'[c].here => conv[c].here /\ conv[c].rows \subseteq conv'[c].rows

LEMMA ConvKept ==
  ASSUME Parameters, TypeOK, [Next]_vars, NEW c \in DOMAIN conv
  PROVE  Kept(c)
<1>0. conv \in Seq(ConvRec) /\ conv[c] \in ConvRec
  <2>1. conv \in Seq(ConvRec)
    BY DEF TypeOK, ConvRec
  <2>2. QED
    BY <2>1
<1>1. CASE conv' = conv
  BY <1>1 DEF Kept
<1>2. ASSUME NEW q \in Calls, CreateVisitorConversation(q) PROVE Kept(c)
  <2>1. CASE conv' = conv
    BY <1>1, <2>1
  <2>2. ASSUME NEW r, conv' = Append(conv, r) PROVE Kept(c)
    <3>1. c \in DOMAIN conv' /\ conv'[c] = conv[c]
      BY <1>0, <2>2
    <3>2. QED
      BY <3>1 DEF Kept
  <2>3. QED
    BY <1>2, <2>1, <2>2 DEF CreateVisitorConversation
<1>3. ASSUME NEW d, NEW r, AddRow(d, r) PROVE Kept(c)
  <2>1. CASE Exists(d)
    <3>1. conv' = [conv EXCEPT ![d] = [conv[d] EXCEPT !.rows = @ \cup {r}]]
      BY <1>3, <2>1 DEF AddRow
    <3>2. c \in DOMAIN conv' /\ conv'[c].visitor = conv[c].visitor /\ conv'[c].here = conv[c].here
      BY <1>0, <3>1 DEF ConvRec
    <3>3. conv[c].rows \subseteq conv'[c].rows
      BY <1>0, <3>1 DEF ConvRec
    <3>4. QED
      BY <3>2, <3>3 DEF Kept
  <2>2. QED
    BY <1>1, <1>3, <2>1 DEF AddRow
<1>4. CASE DeleteManagedAgent
  <2>1. c \in DOMAIN conv' /\
        conv'[c] = IF conv[c].agent = dismissing
                   THEN [conv[c] EXCEPT !.rows = {}, !.here = FALSE] ELSE conv[c]
    BY <1>4 DEF DeleteManagedAgent
  <2>2. QED
    BY <1>0, <2>1 DEF Kept, ConvRec
<1>5. ASSUME NEW q \in Calls, StoreQuestion(q) \/ SaveAnswer(q) PROVE Kept(c)
  BY <1>1, <1>3, <1>5 DEF StoreQuestion, SaveAnswer
<1>6. QED
  BY <1>1, <1>2, <1>4, <1>5 DEF Next, Register, RequireVisitor, CallStep, ReadReceptionist,
     EnsureVisitorConversation, SetVisitorCurrentConversation, AskReceptionist, TakeSlot,
     BeginVisitorAskLog, FinalizeVisitorAskAudit, Disconnect, SetReceptionist, StopManaged,
     DismissAgent, FindReceptionist, ClearReceptionist, asked, vars

\* A step moves at most one call, which stays its browser's and its visitor's.
Same(q) ==
  /\ call'[q].at # "new" /\ call'[q].browser = call[q].browser
  /\ call'[q].visitor = call[q].visitor /\ call'[q].seen = call[q].seen
  /\ call'[q].conv = call[q].conv \/ call[q].at \in {"ensure", "create"}

LEMMA CallKept ==
  ASSUME Parameters, TypeOK, [Next]_vars, NEW q \in Calls, call[q].at # "new"
  PROVE  Same(q)
<1>0. call \in [Calls -> CallRec] /\ call[q] \in CallRec
  BY DEF TypeOK, CallRec
<1>1. CASE call' = call
  BY <1>0, <1>1 DEF Same
<1>2. ASSUME NEW p \in Calls, NEW b \in Browsers, RequireVisitor(p, b) PROVE Same(q)
  BY <1>0, <1>2 DEF RequireVisitor, At, Same
<1>3. ASSUME NEW p \in Calls, CallStep(p) PROVE Same(q)
  <2>1. CASE p # q
    <3>1. call'[q] = call[q]
      BY <1>0, <1>3, <2>1 DEF CallStep, ReadReceptionist, EnsureVisitorConversation,
         CreateVisitorConversation, SetVisitorCurrentConversation, AskReceptionist, TakeSlot,
         StoreQuestion, BeginVisitorAskLog, SaveAnswer, FinalizeVisitorAskAudit, Go
    <3>2. QED
      BY <3>1 DEF Same
  <2>2. CASE p = q
    <3> USE DEF Go, At, Same, CallRec
    <3>1. CASE ReadReceptionist(q) \/ EnsureVisitorConversation(q)
      BY <1>0, <3>1 DEF ReadReceptionist, EnsureVisitorConversation
    <3>2. CASE CreateVisitorConversation(q) \/ SetVisitorCurrentConversation(q)
      BY <1>0, <3>2 DEF CreateVisitorConversation, SetVisitorCurrentConversation
    <3>3. CASE AskReceptionist(q) \/ TakeSlot(q) \/ StoreQuestion(q)
      BY <1>0, <3>3 DEF AskReceptionist, TakeSlot, StoreQuestion
    <3>4. CASE BeginVisitorAskLog(q) \/ SaveAnswer(q) \/ FinalizeVisitorAskAudit(q)
      BY <1>0, <3>4 DEF BeginVisitorAskLog, SaveAnswer, FinalizeVisitorAskAudit
    <3>5. QED
      BY <1>3, <2>2, <3>1, <3>2, <3>3, <3>4 DEF CallStep
  <2>3. QED
    BY <2>1, <2>2
<1>4. QED
  BY <1>1, <1>2, <1>3 DEF Next, Register, Disconnect, SetReceptionist, StopManaged, DismissAgent,
     FindReceptionist, ClearReceptionist, DeleteManagedAgent, asked, vars

\* Visitors are only added, and browsers change theirs only for a new one.
LEMMA VisitorsKept ==
  ASSUME Parameters, IInv, [Next]_vars
  PROVE  /\ DOMAIN current \subseteq DOMAIN current'
         /\ \A b \in Browsers : cookie'[b] = cookie[b] \/ cookie'[b] \notin DOMAIN current
<1>0. /\ current \in Seq(Convs \cup {Nothing})
      /\ cookie \in [Browsers -> Visitors \cup {Nothing}]
  BY DEF IInv, TypeOK
<1>1. CASE current' = current /\ cookie' = cookie
  BY <1>1
<1>2. ASSUME NEW b \in Browsers, Register(b)
      PROVE  /\ DOMAIN current \subseteq DOMAIN current'
             /\ \A d \in Browsers : cookie'[d] = cookie[d] \/ cookie'[d] \notin DOMAIN current
  <2>1. DOMAIN current' = 1..(Len(current) + 1) /\ DOMAIN current = 1..Len(current)
    BY <1>0, <1>2 DEF Register, Parameters
  <2>2. \A d \in Browsers : cookie'[d] = cookie[d] \/ cookie'[d] = Len(current) + 1
    BY <1>0, <1>2 DEF Register
  <2>3. QED
    BY <1>0, <2>1, <2>2
<1>3. ASSUME NEW q \in Calls, SetVisitorCurrentConversation(q)
      PROVE  cookie' = cookie /\ DOMAIN current' = DOMAIN current
  BY <1>0, <1>3 DEF SetVisitorCurrentConversation
<1>4. QED
  BY <1>1, <1>2, <1>3 DEF Next, RequireVisitor, CallStep, ReadReceptionist,
     EnsureVisitorConversation, CreateVisitorConversation, AskReceptionist, TakeSlot, StoreQuestion,
     BeginVisitorAskLog, SaveAnswer, FinalizeVisitorAskAudit, Disconnect, SetReceptionist,
     StopManaged, DismissAgent, FindReceptionist, ClearReceptionist, DeleteManagedAgent, desk,
     asked, vars

-------------------------------------------------------------------------------
(* Visitors, conversations and rows are each their owner's.                *)

LEMMA OwnedStep ==
  ASSUME Parameters, IInv, [Next]_vars
  PROVE  Owned'
<1> USE DEF Parameters
<1>0. /\ current \in Seq(Convs \cup {Nothing})
      /\ cookie \in [Browsers -> Visitors \cup {Nothing}]
      /\ \A c \in DOMAIN conv : Kept(c)
  BY ConvKept DEF IInv, TypeOK
<1>1. ASSUME current' = current, cookie' = cookie PROVE Owned'
  BY <1>0, <1>1 DEF IInv, Owned, Kept
<1>2. ASSUME NEW b \in Browsers, Register(b) PROVE Owned'
  <2>1. /\ DOMAIN current' = DOMAIN current \cup {Len(current) + 1}
        /\ Len(current) + 1 \notin DOMAIN current
        /\ current'[Len(current) + 1] = Nothing
        /\ \A v \in DOMAIN current : current'[v] = current[v]
    BY <1>0, <1>2 DEF Register
  <2>2. cookie' = [cookie EXCEPT ![b] = Len(current) + 1] /\ Len(current) + 1 # Nothing
    BY <1>0, <1>2 DEF Register
  <2>3. ASSUME NEW d \in Browsers, cookie'[d] # Nothing
        PROVE  /\ cookie'[d] \in DOMAIN current'
               /\ \A e \in Browsers : cookie'[e] = cookie'[d] => e = d
    BY <1>0, <2>1, <2>2, <2>3 DEF IInv, Owned
  <2>4. ASSUME NEW v \in DOMAIN current', current'[v] # Nothing
        PROVE  current'[v] \in DOMAIN conv' /\ conv'[current'[v]].visitor = v
    <3>1. v \in DOMAIN current /\ current'[v] = current[v]
      BY <2>1, <2>4
    <3>2. QED
      BY <1>0, <2>4, <3>1 DEF IInv, Owned, Kept
  <2>5. QED
    BY <2>3, <2>4 DEF Owned
<1>3. ASSUME NEW q \in Calls, SetVisitorCurrentConversation(q) PROVE Owned'
  <2>1. CASE current' = current
    BY <1>1, <1>3, <2>1 DEF SetVisitorCurrentConversation
  <2>2. CASE current' = [current EXCEPT ![call[q].visitor] = call[q].conv]
    <3>1. Served(q) /\ OwnConv(q, call[q].conv)
      BY <1>3 DEF SetVisitorCurrentConversation, At, IInv, CallsServed, Served
    <3>2. cookie' = cookie /\ DOMAIN current' = DOMAIN current
      BY <1>0, <1>3, <2>2 DEF SetVisitorCurrentConversation
    <3>3. ASSUME NEW v \in DOMAIN current, current'[v] # Nothing
          PROVE  current'[v] \in DOMAIN conv' /\ conv'[current'[v]].visitor = v
      <4>1. CASE v = call[q].visitor
        BY <1>0, <2>2, <3>1, <4>1 DEF OwnConv, Kept
      <4>2. CASE v # call[q].visitor
        BY <1>0, <2>2, <3>3, <4>2 DEF IInv, Owned, Kept
      <4>3. QED
        BY <4>1, <4>2
    <3>4. QED
      BY <3>2, <3>3 DEF IInv, Owned
  <2>3. QED
    BY <1>3, <2>1, <2>2 DEF SetVisitorCurrentConversation
<1>4. QED
  BY <1>1, <1>2, <1>3 DEF Next, RequireVisitor, CallStep, ReadReceptionist,
     EnsureVisitorConversation, CreateVisitorConversation, AskReceptionist, TakeSlot, StoreQuestion,
     BeginVisitorAskLog, SaveAnswer, FinalizeVisitorAskAudit, Disconnect, SetReceptionist,
     StopManaged, DismissAgent, FindReceptionist, ClearReceptionist, DeleteManagedAgent, desk,
     asked, vars

\* The conversation is the call's visitor's after the step.
OwnNext(q, c) == c \in DOMAIN conv' /\ conv'[c].visitor = call'[q].visitor

\* A call that moves without changing what it has read is served as before.
LEMMA ServedStays ==
  ASSUME Parameters, IInv, [Next]_vars, NEW q \in Calls, Served(q), Same(q),
         call'[q].conv # Nothing => OwnNext(q, call'[q].conv),
         call'[q].at \notin {"receptionist", "over"} => call'[q].agent \in Agents,
         call'[q].at \notin {"receptionist", "ensure", "create", "over"} => call'[q].conv # Nothing,
         q \in Renewals => call'[q].at \in {"receptionist", "create", "bind", "over"}
  PROVE  Served(q)'
<1>1. \A c \in DOMAIN conv : Kept(c)
  BY ConvKept DEF IInv
<1>2. call'[q].seen # Nothing => OwnNext(q, call'[q].seen)
  BY <1>1 DEF Same, Served, OwnConv, OwnNext, Kept
<1>3. \A b \in Browsers : cookie'[b] = call'[q].visitor => b = call'[q].browser
  BY VisitorsKept DEF Same, Served
<1>4. call'[q].visitor \in DOMAIN current' /\ call'[q].browser \in Browsers
  BY VisitorsKept DEF Same, Served
<1>5. QED
  BY <1>2, <1>3, <1>4 DEF Served, OwnConv, OwnNext

LEMMA ServedStep ==
  ASSUME Parameters, IInv, [Next]_vars
  PROVE  CallsServed'
<1> SUFFICES ASSUME NEW q \in Calls
             PROVE  (IF call[q].at = "new" THEN call[q].conv = Nothing ELSE Served(q))'
  BY DEF CallsServed
<1> DEFINE Goal == (IF call[q].at = "new" THEN call[q].conv = Nothing ELSE Served(q))'
<1> USE DEF Parameters
<1>0. /\ call \in [Calls -> CallRec] /\ call[q] \in CallRec /\ conv \in Seq(ConvRec)
      /\ \A c \in DOMAIN conv : Kept(c)
  <2>1. call \in [Calls -> CallRec] /\ conv \in Seq(ConvRec)
    BY DEF IInv, TypeOK, CallRec, ConvRec
  <2>2. QED
    BY <2>1, ConvKept DEF IInv
<1>1. ASSUME call'[q] = call[q] PROVE Goal
  <2>0. CASE call[q].at = "new"
    BY <1>1, <2>0 DEF IInv, CallsServed
  <2> SUFFICES ASSUME call[q].at # "new" PROVE Served(q)'
    BY <1>1, <2>0
  <2>1. Served(q) /\ Same(q)
    BY <1>1, CallKept DEF IInv, CallsServed
  <2>2. call'[q].conv # Nothing => OwnNext(q, call'[q].conv)
    BY <1>0, <1>1, <2>1 DEF Served, OwnConv, OwnNext, Kept
  <2>3. QED
    BY <1>1, <2>1, <2>2, ServedStays DEF Served
<1>2. ASSUME NEW p \in Calls, NEW b \in Browsers, RequireVisitor(p, b) PROVE Goal
  <2>1. CASE p # q
    BY <1>0, <1>1, <1>2, <2>1 DEF RequireVisitor
  <2>2. CASE p = q
    <3>1. /\ UNCHANGED <<cookie, current, conv>> /\ cookie[b] # Nothing /\ call[q].at = "new"
          /\ call' = [call EXCEPT ![q].at = "receptionist", ![q].browser = b,
                                  ![q].visitor = cookie[b], ![q].seen = current[cookie[b]]]
      BY <1>2, <2>2 DEF RequireVisitor, At, Parse, GetVisitorByPublicID
    <3>2. /\ call'[q].browser = b /\ call'[q].visitor = cookie[b]
          /\ call'[q].seen = current[cookie[b]] /\ call'[q].at = "receptionist"
          /\ call'[q].conv = call[q].conv
      BY <1>0, <3>1 DEF CallRec
    <3>3. call[q].conv = Nothing
      BY <1>2, <2>2 DEF RequireVisitor, At, IInv, CallsServed
    <3>4. cookie[b] \in DOMAIN current /\ \A d \in Browsers : cookie[d] = cookie[b] => d = b
      BY <3>1 DEF IInv, Owned
    <3>5. current[cookie[b]] # Nothing => OwnNext(q, current[cookie[b]])
      BY <3>1, <3>2, <3>4 DEF IInv, Owned, OwnNext
    <3>6. QED
      BY <2>2, <3>1, <3>2, <3>3, <3>4, <3>5 DEF Served, OwnConv, OwnNext
  <2>3. QED
    BY <2>1, <2>2
<1>3. ASSUME NEW p \in Calls, CallStep(p), p # q PROVE Goal
  <2>1. call'[q] = call[q]
    BY <1>0, <1>3 DEF CallStep, ReadReceptionist, EnsureVisitorConversation,
       CreateVisitorConversation, SetVisitorCurrentConversation, AskReceptionist, TakeSlot,
       StoreQuestion, BeginVisitorAskLog, SaveAnswer, FinalizeVisitorAskAudit, Go
  <2>2. QED
    BY <1>1, <2>1
<1>4. ASSUME CallStep(q) PROVE call'[q].at # "new" /\ Served(q)'
  <2>0. call[q].at # "new"
    BY <1>4 DEF CallStep, ReadReceptionist, EnsureVisitorConversation, CreateVisitorConversation,
       SetVisitorCurrentConversation, AskReceptionist, TakeSlot, StoreQuestion,
       BeginVisitorAskLog, SaveAnswer, FinalizeVisitorAskAudit, At
  <2>1. Served(q) /\ Same(q)
    BY <2>0, CallKept DEF IInv, CallsServed
  <2>2. call[q].conv # Nothing /\ call'[q].conv = call[q].conv => OwnNext(q, call'[q].conv)
    BY <1>0, <2>1 DEF Served, OwnConv, OwnNext, Kept, Same
  <2> USE DEF Go, At
  <2>3. CASE ReadReceptionist(q)
    <3>1. /\ call'[q].conv = call[q].conv
          /\ \/ call'[q].at = "over"
             \/ /\ call'[q].at = (IF q \in Asks THEN "ensure" ELSE "create")
                /\ call'[q].agent = recv /\ recv # Nothing
      BY <1>0, <2>3 DEF ReadReceptionist, GetReceptionist, CallRec
    <3>2. recv # Nothing => recv \in Agents
      BY DEF IInv, TypeOK
    <3>3. q \in Renewals => q \notin Asks
      OBVIOUS
    <3>4. QED
      BY <2>1, <2>2, <3>1, <3>2, <3>3, ServedStays
  <2>4. CASE EnsureVisitorConversation(q)
    <3>1. call[q].agent \in Agents /\ q \notin Renewals /\ call'[q].agent = call[q].agent
      BY <1>0, <2>1, <2>4 DEF EnsureVisitorConversation, Served, CallRec
    <3>2. CASE call'[q].at = "admit" /\ call'[q].conv = call[q].seen /\ call[q].seen # Nothing
      <4>1. OwnNext(q, call'[q].conv)
        BY <1>0, <2>1, <3>2 DEF Served, OwnConv, OwnNext, Same, Kept
      <4>2. QED
        BY <2>1, <3>1, <3>2, <4>1, ServedStays
    <3>3. CASE call'[q].at = "create" /\ call'[q].conv = call[q].conv
      BY <2>1, <2>2, <3>1, <3>3, ServedStays
    <3>4. QED
      BY <1>0, <2>4, <3>2, <3>3 DEF EnsureVisitorConversation, CallRec
  <2>5. CASE CreateVisitorConversation(q)
    <3>1. call[q].agent \in Agents /\ call'[q].agent = call[q].agent
      BY <1>0, <2>1, <2>5 DEF CreateVisitorConversation, Served, CallRec
    <3>2. CASE q \in dead
      <4>1. call'[q].at = "over" /\ call'[q].conv = call[q].conv
        BY <1>0, <2>5, <3>2 DEF CreateVisitorConversation, CallRec
      <4>2. QED
        BY <2>1, <2>2, <4>1, ServedStays
    <3>3. CASE q \notin dead
      <4>1. call'[q].at = "bind" /\ call'[q].conv = Len(conv) + 1
        BY <1>0, <2>5, <3>3 DEF CreateVisitorConversation, CallRec
      <4>2. OwnNext(q, Len(conv) + 1)
        <5>1. conv' = Append(conv, [visitor |-> call[q].visitor, agent |-> call[q].agent,
                                    rows |-> {}, here |-> TRUE])
          BY <2>5, <3>3 DEF CreateVisitorConversation
        <5>2. Len(conv) + 1 \in DOMAIN conv' /\ conv'[Len(conv) + 1].visitor = call[q].visitor
          BY <1>0, <5>1
        <5>3. QED
          BY <2>1, <5>2 DEF OwnNext, Same
      <4>3. Len(conv) + 1 # Nothing
        BY <1>0
      <4>4. QED
        BY <2>1, <3>1, <4>1, <4>2, <4>3, ServedStays
    <3>4. QED
      BY <3>2, <3>3
  <2>6. CASE SetVisitorCurrentConversation(q) \/ AskReceptionist(q) \/ TakeSlot(q) \/
             StoreQuestion(q) \/ BeginVisitorAskLog(q) \/ SaveAnswer(q) \/ FinalizeVisitorAskAudit(q)
    <3>1. /\ call'[q].conv = call[q].conv /\ call'[q].agent = call[q].agent
          /\ call[q].at \notin {"receptionist", "ensure", "create", "over"}
          /\ call'[q].at \notin {"receptionist", "ensure", "create"}
          /\ q \in Renewals /\ call[q].at = "bind" => call'[q].at = "over"
      BY <1>0, <2>6 DEF SetVisitorCurrentConversation, AskReceptionist, TakeSlot, StoreQuestion,
         BeginVisitorAskLog, SaveAnswer, FinalizeVisitorAskAudit, CallRec
    <3>2. call[q].conv # Nothing /\ call[q].agent \in Agents
      BY <2>1, <3>1 DEF Served
    <3>3. q \in Renewals => call[q].at = "bind"
      BY <2>1, <3>1 DEF Served
    <3>4. call'[q].at # "new"
      BY <2>1 DEF Same
    <3>5. QED
      BY <2>1, <2>2, <3>1, <3>2, <3>3, <3>4, ServedStays
  <2>7. QED
    BY <1>4, <2>3, <2>4, <2>5, <2>6 DEF CallStep
<1>5. ASSUME call' = call PROVE Goal
  BY <1>1, <1>5
<1>6. QED
  BY <1>2, <1>3, <1>4, <1>5 DEF Next, Register, Disconnect, SetReceptionist, StopManaged, DismissAgent,
     FindReceptionist, ClearReceptionist, DeleteManagedAgent, asked, vars

\* A row is added only by an ask, to the conversation it works in.
LEMMA RowsStep ==
  ASSUME Parameters, IInv, [Next]_vars
  PROVE  RowsOwned'
<1> USE DEF Parameters
<1>0. /\ conv \in Seq(ConvRec) /\ \A c \in DOMAIN conv : Kept(c)
      /\ \A q \in Calls : call[q].at # "new" => Same(q)
  BY ConvKept, CallKept DEF IInv, TypeOK, ConvRec
<1>1. ASSUME NEW c \in DOMAIN conv, NEW r \in conv[c].rows
      PROVE  call'[r.ask].at # "new" /\ call'[r.ask].visitor = conv'[c].visitor
  <2>1. r.ask \in Calls
    <3>1. conv[c] \in ConvRec
      BY <1>0
    <3>2. QED
      BY <1>1, <3>1 DEF ConvRec, Rows, Calls
  <2>2. QED
    BY <1>0, <1>1, <2>1 DEF IInv, RowsOwned, Same, Kept
<1>2. ASSUME \A c \in DOMAIN conv' : c \in DOMAIN conv /\ conv'[c].rows \subseteq conv[c].rows
      PROVE  RowsOwned'
  BY <1>1, <1>2 DEF RowsOwned
<1>3. ASSUME NEW q \in Calls, CreateVisitorConversation(q) PROVE RowsOwned'
  <2>1. CASE conv' = conv
    BY <1>2, <2>1
  <2>2. ASSUME NEW v, NEW a, conv' = Append(conv, [visitor |-> v, agent |-> a, rows |-> {}, here |-> TRUE])
        PROVE  RowsOwned'
    <3>1. /\ \A c \in DOMAIN conv' : c \in DOMAIN conv \/ c = Len(conv) + 1
          /\ \A c \in DOMAIN conv : conv'[c] = conv[c]
          /\ conv'[Len(conv) + 1].rows = {}
      BY <1>0, <2>2
    <3>2. QED
      BY <1>1, <3>1 DEF RowsOwned
  <2>3. QED
    BY <1>3, <2>1, <2>2 DEF CreateVisitorConversation
<1>4. ASSUME NEW q \in Calls, NEW r, r.ask = q, AddRow(call[q].conv, r), call[q].at # "new"
      PROVE  RowsOwned'
  <2>1. CASE ~Exists(call[q].conv)
    BY <1>2, <1>4, <2>1 DEF AddRow
  <2>2. CASE Exists(call[q].conv)
    <3> DEFINE d == call[q].conv
    <3>1. d \in DOMAIN conv /\ conv' = [conv EXCEPT ![d] = [conv[d] EXCEPT !.rows = @ \cup {r}]]
      BY <1>4, <2>2 DEF AddRow, Exists
    <3>2. \A c \in DOMAIN conv : conv[c] \in ConvRec
      BY <1>0
    <3>3. /\ DOMAIN conv' = DOMAIN conv
          /\ \A c \in DOMAIN conv : conv'[c].rows \subseteq conv[c].rows \cup (IF c = d THEN {r} ELSE {})
      BY <3>1, <3>2 DEF ConvRec
    <3>4. call'[q].at # "new" /\ call'[q].visitor = conv'[d].visitor
      <4>1. Same(q) /\ Kept(d)
        BY <1>0, <1>4, <3>1
      <4>2. Served(q)
        BY <1>4 DEF IInv, CallsServed
      <4>3. d # Nothing
        BY <1>0, <3>1
      <4>4. conv[d].visitor = call[q].visitor
        BY <4>2, <4>3 DEF Served, OwnConv
      <4>5. QED
        BY <4>1, <4>4 DEF Same, Kept
    <3> HIDE DEF d
    <3>5. ASSUME NEW c \in DOMAIN conv', NEW s \in conv'[c].rows
          PROVE  call'[s.ask].at # "new" /\ call'[s.ask].visitor = conv'[c].visitor
      BY <1>1, <1>4, <3>3, <3>4, <3>5
    <3>6. QED
      BY <3>5 DEF RowsOwned
  <2>3. QED
    BY <2>1, <2>2
<1>5. ASSUME NEW q \in Calls, StoreQuestion(q) \/ SaveAnswer(q) PROVE RowsOwned'
  <2>1. CASE conv' = conv
    BY <1>2, <2>1
  <2>2. QED
    BY <1>4, <1>5, <2>1 DEF StoreQuestion, SaveAnswer, At, QuestionOf, AnswerOf
<1>6. CASE DeleteManagedAgent
  <2>1. \A c \in DOMAIN conv : conv[c] \in ConvRec
    BY <1>0
  <2>2. \A c \in DOMAIN conv' : c \in DOMAIN conv /\ conv'[c].rows \subseteq conv[c].rows
    BY <1>6, <2>1 DEF DeleteManagedAgent, ConvRec
  <2>3. QED
    BY <1>2, <2>2
<1>7. CASE conv' = conv
  BY <1>2, <1>7
<1>8. QED
  BY <1>3, <1>5, <1>6, <1>7 DEF Next, Register, RequireVisitor, CallStep, ReadReceptionist,
     EnsureVisitorConversation, SetVisitorCurrentConversation, AskReceptionist, TakeSlot,
     BeginVisitorAskLog, FinalizeVisitorAskAudit, Disconnect, SetReceptionist, StopManaged,
     DismissAgent, FindReceptionist, ClearReceptionist, asked, vars

-------------------------------------------------------------------------------
(* The log.                                                                *)

\* A row that an ask has in its conversation stays there while the conversation does.
LEMMA HasStays ==
  ASSUME Parameters, IInv, [Next]_vars, NEW q \in Calls, NEW row,
         call[q].at \notin {"new", "ensure", "create"}, Has(q, row)
  PROVE  Has(q, row)'
<1>1. Same(q) /\ Served(q)
  BY CallKept DEF IInv, CallsServed
<1>2. call'[q].conv = call[q].conv
  BY <1>1 DEF Same
<1>3. CASE call[q].conv = Nothing
  <2>1. Nothing \notin DOMAIN conv'
    BY TypeStep DEF TypeOK, Parameters
  <2>2. QED
    BY <1>2, <1>3, <2>1 DEF Has, Exists
<1>4. CASE call[q].conv # Nothing
  <2>1. call[q].conv \in DOMAIN conv
    BY <1>1, <1>4 DEF Served, OwnConv
  <2>2. Kept(call[q].conv)
    BY <2>1, ConvKept DEF IInv
  <2>3. QED
    BY <1>2, <2>1, <2>2 DEF Has, Exists, Kept
<1>5. QED
  BY <1>3, <1>4

LEMMA AddRowHas ==
  ASSUME Parameters, TypeOK, NEW q \in Calls, NEW row, AddRow(call[q].conv, row),
         call'[q].conv = call[q].conv
  PROVE  Has(q, row)'
<1>1. conv \in Seq(ConvRec)
  BY DEF TypeOK, ConvRec
<1>2. CASE Exists(call[q].conv)
  <2>1. conv[call[q].conv] \in ConvRec
    BY <1>1, <1>2 DEF Exists
  <2>2. conv' = [conv EXCEPT ![call[q].conv] = [conv[call[q].conv] EXCEPT !.rows = @ \cup {row}]]
    BY <1>2 DEF AddRow
  <2>3. row \in conv'[call[q].conv].rows
    BY <1>1, <1>2, <2>1, <2>2 DEF ConvRec, Exists
  <2>4. QED
    BY <2>3 DEF Has
<1>3. CASE ~Exists(call[q].conv)
  BY <1>3 DEF AddRow, Has, Exists
<1>4. QED
  BY <1>2, <1>3

\* An ask that does not move is logged as before.
LEMMA LogStays ==
  ASSUME Parameters, IInv, [Next]_vars, NEW q \in Asks, call'[q] = call[q],
         log'[q] = log[q], answer'[q] = answer[q], dead \subseteq dead'
  PROVE  LogAt(q)'
<1>1. LogAt(q) /\ q \in Calls
  BY DEF IInv, Logged, Calls
<1>2. \A row : call[q].at \notin {"new", "ensure", "create"} /\ Has(q, row) => Has(q, row)'
  BY <1>1, HasStays
<1>3. QED
  BY <1>1, <1>2 DEF LogAt, At

\* One that moves: what is written where.
LEMMA LogMoves ==
  ASSUME Parameters, IInv, [Next]_vars, NEW q \in Asks, CallStep(q)
  PROVE  LogAt(q)'
<1>0. /\ q \in Calls /\ LogAt(q) /\ call \in [Calls -> CallRec] /\ call[q] \in CallRec
      /\ log \in [Asks -> Logs] /\ answer \in [Asks -> Answers] /\ TypeOK
  <2>1. q \in Calls /\ call \in [Calls -> CallRec]
    BY DEF IInv, TypeOK, Calls, CallRec
  <2>2. QED
    BY <2>1 DEF IInv, Logged, TypeOK
<1>1. \A row : call[q].at \notin {"new", "ensure", "create"} /\ Has(q, row) => Has(q, row)'
  BY <1>0, HasStays
<1>2. ASSUME log[q] = "none", log' = log, call'[q].at \in (Before \ {"begin"}) \cup {"over"}
      PROVE  LogAt(q)'
  BY <1>2 DEF LogAt, At, Before
<1> USE DEF Go, At
<1>3. CASE ReadReceptionist(q) \/ EnsureVisitorConversation(q) \/ CreateVisitorConversation(q) \/
           SetVisitorCurrentConversation(q) \/ AskReceptionist(q) \/ TakeSlot(q)
  <2>0. call[q].at \in Before /\ log' = log
    BY <1>3 DEF ReadReceptionist, EnsureVisitorConversation, CreateVisitorConversation,
       SetVisitorCurrentConversation, AskReceptionist, TakeSlot, Before, asked
  <2>1. call'[q].at \in (Before \ {"begin"}) \cup {"over"}
    <3> USE DEF Before, CallRec
    <3>1. CASE ReadReceptionist(q) \/ EnsureVisitorConversation(q)
      BY <1>0, <3>1 DEF ReadReceptionist, EnsureVisitorConversation
    <3>2. CASE CreateVisitorConversation(q) \/ SetVisitorCurrentConversation(q)
      BY <1>0, <3>2 DEF CreateVisitorConversation, SetVisitorCurrentConversation
    <3>3. CASE AskReceptionist(q) \/ TakeSlot(q)
      BY <1>0, <3>3 DEF AskReceptionist, TakeSlot
    <3>4. QED
      BY <1>3, <3>1, <3>2, <3>3
  <2>2. QED
    BY <1>0, <1>2, <2>0, <2>1 DEF LogAt
<1>4. CASE StoreQuestion(q)
  <2>1. log' = log /\ call[q].at = "store" /\ call'[q].at \in {"begin", "engine"}
    BY <1>0, <1>4 DEF StoreQuestion, asked, CallRec
  <2>2. log'[q] = "none"
    BY <1>0, <2>1 DEF LogAt, Before
  <2>3. call'[q].at = "begin" => Has(q, QuestionOf(q))'
    <3>1. CASE q \notin dead /\ Exists(call[q].conv)
      <4>1. AddRow(call[q].conv, QuestionOf(q)) /\ call'[q].conv = call[q].conv
        BY <1>0, <1>4, <3>1 DEF StoreQuestion, CallRec
      <4>2. Has(q, QuestionOf(q))'
        <5> DEFINE row == QuestionOf(q)
        <5>1. AddRow(call[q].conv, row)
          BY <4>1
        <5> HIDE DEF row
        <5>2. Has(q, row)'
          BY <1>0, <4>1, <5>1, AddRowHas
        <5>3. QED
          BY <5>2 DEF row
      <4>3. QED
        BY <4>2
    <3>2. CASE ~(q \notin dead /\ Exists(call[q].conv))
      BY <1>0, <1>4, <3>2 DEF StoreQuestion, CallRec
    <3>3. QED
      BY <3>1, <3>2
  <2>4. QED
    BY <2>1, <2>2, <2>3 DEF LogAt, Before
<1>5. CASE BeginVisitorAskLog(q)
  <2>1. /\ call[q].at = "begin" /\ call'[q].at = "engine"
        /\ log'[q] \in {log[q], "processing"}
    BY <1>0, <1>5 DEF BeginVisitorAskLog, CallRec
  <2>2. log[q] = "none" /\ Has(q, QuestionOf(q))
    BY <1>0, <2>1 DEF LogAt, Before
  <2>3. Has(q, QuestionOf(q))'
    BY <1>1, <2>1, <2>2
  <2>4. QED
    BY <2>1, <2>2, <2>3 DEF LogAt, Before
<1>6. CASE SaveAnswer(q)
  <2>1. PICK failed \in BOOLEAN :
          /\ call' = [call EXCEPT ![q].at = "audit", ![q].failed = failed]
          /\ answer' = [answer EXCEPT ![q] =
               IF q \in dead THEN "stopped" ELSE IF failed THEN "error" ELSE "full"]
    BY <1>6 DEF SaveAnswer
  <2>2. /\ call'[q].at = "audit" /\ call'[q].failed = failed /\ call'[q].conv = call[q].conv
        /\ answer'[q] = IF q \in dead THEN "stopped" ELSE IF failed THEN "error" ELSE "full"
    BY <1>0, <2>1 DEF CallRec
  <2>3. /\ log' = log /\ dead' = dead /\ call[q].at = "engine"
        /\ AddRow(call[q].conv, AnswerOf(q))
    BY <1>6 DEF SaveAnswer
  <2>4. Has(q, AnswerOf(q))'
    <3> DEFINE row == AnswerOf(q)
    <3>1. AddRow(call[q].conv, row)
      BY <2>3
    <3> HIDE DEF row
    <3>2. Has(q, row)'
      BY <1>0, <2>2, <3>1, AddRowHas
    <3>3. QED
      BY <3>2 DEF row
  <2>5. log[q] \in {"none", "processing"} /\ (log[q] = "processing" => Has(q, QuestionOf(q)))
    BY <1>0, <2>3 DEF LogAt
  <2>6. log'[q] = "processing" => Has(q, QuestionOf(q))'
    BY <1>1, <2>3, <2>5
  <2>7. QED
    BY <2>2, <2>3, <2>4, <2>5, <2>6 DEF LogAt, Before
<1>7. CASE FinalizeVisitorAskAudit(q)
  <2>1. /\ call[q].at = "audit" /\ call'[q].at = "over" /\ answer' = answer
        /\ log'[q] = IF log[q] = "none" THEN log[q]
                     ELSE IF q \in dead THEN "cancelled"
                     ELSE IF call[q].failed THEN "error" ELSE "success"
    BY <1>0, <1>7 DEF FinalizeVisitorAskAudit, FinishVisitorAskLog, CallRec
  <2>2. /\ log[q] \in {"none", "processing"} /\ Has(q, AnswerOf(q))
        /\ log[q] = "processing" => Has(q, QuestionOf(q))
        /\ answer[q] \in {"full", "error", "stopped"}
        /\ answer[q] = "stopped" => q \in dead
        /\ answer[q] = "error" => call[q].failed
        /\ answer[q] = "full" => ~call[q].failed
    BY <1>0, <2>1 DEF LogAt, Answers
  <2>3. Has(q, AnswerOf(q))' /\ (log[q] = "processing" => Has(q, QuestionOf(q))')
    BY <1>1, <2>1, <2>2
  <2>4. QED
    BY <2>1, <2>2, <2>3 DEF LogAt, Before
<1>8. QED
  BY <1>3, <1>4, <1>5, <1>6, <1>7 DEF CallStep

LEMMA LoggedStep ==
  ASSUME Parameters, IInv, [Next]_vars
  PROVE  Logged'
<1> SUFFICES ASSUME NEW q \in Asks PROVE LogAt(q)'
  BY DEF Logged
<1>0. /\ q \in Calls /\ call \in [Calls -> CallRec] /\ call[q] \in CallRec
      /\ log \in [Asks -> Logs] /\ answer \in [Asks -> Answers] /\ LogAt(q)
  <2>1. q \in Calls /\ call \in [Calls -> CallRec]
    BY DEF IInv, TypeOK, Calls, CallRec
  <2>2. QED
    BY <2>1 DEF IInv, TypeOK, Logged
<1>1. ASSUME call'[q] = call[q], log'[q] = log[q], answer'[q] = answer[q], dead \subseteq dead'
      PROVE  LogAt(q)'
  BY <1>1, LogStays
<1>2. ASSUME NEW p \in Calls, NEW b \in Browsers, RequireVisitor(p, b) PROVE LogAt(q)'
  <2>1. CASE p # q
    BY <1>0, <1>1, <1>2, <2>1 DEF RequireVisitor, asked
  <2>2. CASE p = q
    <3>1. call[q].at = "new" /\ call'[q].at = "receptionist" /\ log' = log
      BY <1>0, <1>2, <2>2 DEF RequireVisitor, At, asked, CallRec
    <3>2. QED
      BY <1>0, <3>1 DEF LogAt, At, Before
  <2>3. QED
    BY <2>1, <2>2
<1>3. ASSUME NEW p \in Calls, CallStep(p), p # q PROVE LogAt(q)'
  <2>1. call'[q] = call[q]
    BY <1>0, <1>3 DEF CallStep, ReadReceptionist, EnsureVisitorConversation,
       CreateVisitorConversation, SetVisitorCurrentConversation, AskReceptionist, TakeSlot,
       StoreQuestion, BeginVisitorAskLog, SaveAnswer, FinalizeVisitorAskAudit, Go
  <2>2. log'[q] = log[q] /\ answer'[q] = answer[q]
    BY <1>0, <1>3 DEF CallStep, ReadReceptionist, EnsureVisitorConversation,
       CreateVisitorConversation, SetVisitorCurrentConversation, AskReceptionist, TakeSlot,
       StoreQuestion, BeginVisitorAskLog, SaveAnswer, FinalizeVisitorAskAudit,
       FinishVisitorAskLog, asked
  <2>3. dead \subseteq dead'
    BY <1>3 DEF CallStep, ReadReceptionist, EnsureVisitorConversation,
       CreateVisitorConversation, SetVisitorCurrentConversation, AskReceptionist, TakeSlot,
       StoreQuestion, BeginVisitorAskLog, SaveAnswer, FinalizeVisitorAskAudit, asked
  <2>4. QED
    BY <1>1, <2>1, <2>2, <2>3
<1>4. CASE CallStep(q)
  BY <1>4, LogMoves
<1>5. ASSUME UNCHANGED <<call, log, answer>>, dead \subseteq dead' PROVE LogAt(q)'
  BY <1>1, <1>5
<1>6. QED
  BY <1>2, <1>3, <1>4, <1>5 DEF Next, Register, Disconnect, SetReceptionist, StopManaged, StopAgent,
     DismissAgent, FindReceptionist, ClearReceptionist, DeleteManagedAgent, asked, vars

-------------------------------------------------------------------------------
(* The theorems.                                                           *)

LEMMA Invariant == ASSUME Parameters PROVE Spec => []IInv
<1>1. Init => IInv
  BY InitIInv
<1>2. IInv /\ [Next]_vars => IInv'
  <2> SUFFICES ASSUME IInv, [Next]_vars PROVE IInv'
    OBVIOUS
  <2>1. TypeOK' /\ Owned' /\ CallsServed' /\ RowsOwned' /\ Logged'
    BY TypeStep, OwnedStep, ServedStep, RowsStep, LoggedStep
  <2>2. QED
    BY <2>1 DEF IInv
<1>3. QED
  BY <1>1, <1>2, PTL DEF Spec

\* The types, and with them that the receptionist is an agent that is not dismissed.
THEOREM TypeCorrect == ASSUME Parameters PROVE Spec => []TypeOK
BY Invariant, PTL DEF IInv

\* Visitors ask in isolated conversations (receptionist.go:91): whatever calls of a browser
\* and of the administrator cross, nobody reads another's question or answer.
THEOREM AnswersPrivate == ASSUME Parameters PROVE Spec => []AnswersStayPrivate
<1>1. IInv => AnswersStayPrivate
  <2> SUFFICES ASSUME IInv, NEW b \in Browsers, cookie[b] # Nothing,
                      current[cookie[b]] \in DOMAIN conv, NEW r \in conv[current[cookie[b]]].rows
               PROVE  call[r.ask].browser = b
    <3>1. Nothing \notin DOMAIN conv
      BY DEF IInv, TypeOK, Parameters
    <3>2. QED
      BY <3>1 DEF AnswersStayPrivate
  <2> DEFINE c == current[cookie[b]]
  <2>1. cookie[b] \in DOMAIN current /\ conv[c].visitor = cookie[b]
    <3>1. c # Nothing
      BY DEF IInv, TypeOK, Parameters
    <3>2. QED
      BY <3>1 DEF IInv, Owned
  <2>2. r.ask \in Calls
    <3>0. conv \in Seq(ConvRec)
      BY DEF IInv, TypeOK, ConvRec
    <3>1. conv[c] \in ConvRec
      BY <3>0
    <3>2. QED
      BY <3>1 DEF ConvRec, Rows, Calls
  <2>3. call[r.ask].at # "new" /\ call[r.ask].visitor = cookie[b]
    BY <2>1 DEF IInv, RowsOwned
  <2>4. QED
    BY <2>2, <2>3 DEF IInv, CallsServed, Served
<1>2. QED
  BY <1>1, Invariant, PTL

\* The audit of an ask that is over is closed and tells what happened
\* (visitor_ask_audit.go, FinalizeVisitorAskAudit).
THEOREM LogTrue == ASSUME Parameters PROVE Spec => []LogIsTrue
<1>1. IInv => LogIsTrue
  BY DEF IInv, LogIsTrue, Logged, LogAt, Has
<1>2. QED
  BY <1>1, Invariant, PTL
==============================================================================
