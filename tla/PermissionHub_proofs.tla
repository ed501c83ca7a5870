-------------------------- MODULE PermissionHub_proofs --------------------------
(***************************************************************************)
(* Proofs about PermissionHub for every set of calls, clicks, sweeps and   *)
(* conversations and every capacity of the map.                            *)
(***************************************************************************)
EXTENDS PermissionHub, TLAPS

------------------------------------------------------------------------------
(* Types.                                                                  *)

LEMMA TypeInit == Init => TypeOK
BY DEF Init, TypeOK, Places, Answers, ClickStates, SweepStates

\* A step of Wait or Register keeps the types.
LEMMA TypeWait ==
  ASSUME TypeOK, NEW r \in Calls,
         WaitStep(r) \/ WaitEnds(r) \/ \E c \in Conversations : Register(r, c)
  PROVE  TypeOK'
<1> USE DEF TypeOK, Places, Answers, Goto
<1>1. CASE \E c \in Conversations : Register(r, c)
  BY <1>1 DEF Register
<1>2. CASE WaitStarts(r) \/ WaitGone(r)
  BY <1>2 DEF WaitStarts, WaitGone
<1>3. CASE WaitTakes(r) \/ WaitExpires(r) \/ WaitEnds(r)
  BY <1>3 DEF WaitTakes, WaitExpires, WaitEnds, Answer
<1>4. CASE WaitRemoves(r) \/ WaitTells(r)
  BY <1>4 DEF WaitRemoves, WaitTells
<1> QED BY <1>1, <1>2, <1>3, <1>4 DEF WaitStep

\* What a click is about while it is under way.
LEMMA ClickFacts ==
  ASSUME TypeOK, NEW k \in Clicks
  PROVE  /\ click[k].at \in {"new", "decide", "remove", "tell", "done"}
         /\ click[k].at \in {"decide", "remove", "tell"} =>
              click[k].on \in Calls /\ click[k].says \in {"allow", "deny"}
         /\ click[k].at \in {"new", "done"} =>
              click[k].on = Nothing /\ click[k].says = "deny"
BY DEF TypeOK, ClickStates

\* What a move of a click does to the function of all clicks.
LEMMA ClickMove ==
  ASSUME TypeOK, NEW k \in Clicks, NEW place, NEW r, NEW b,
         ClickMoves(k, place, r, b),
         \/ place \in {"decide", "remove", "tell"} /\ r \in Calls /\ b \in {"allow", "deny"}
         \/ place \in {"new", "done"} /\ r = Nothing /\ b = "deny"
  PROVE  /\ click' \in [Clicks -> ClickStates]
         /\ click'[k].at = place /\ click'[k].on = r
         /\ \A j \in Clicks \ {k} : click'[j] = click[j]
<1> DEFINE s == [at |-> place, on |-> r, says |-> b]
<1>1. s \in ClickStates
  BY DEF ClickStates
<1>2. click \in [Clicks -> ClickStates] /\ click' = [click EXCEPT ![k] = s]
  BY DEF TypeOK, ClickMoves
<1>3. click' \in [Clicks -> ClickStates] /\ click'[k] = s
  BY <1>1, <1>2
<1>4. \A j \in Clicks \ {k} : click'[j] = click[j]
  BY <1>2
<1> QED BY <1>3, <1>4

\* What a sweep is about while it is under way.
LEMMA SweepFacts ==
  ASSUME TypeOK, NEW p \in Sweeps
  PROVE  /\ sweep[p].at \in {"new", "next", "decide", "remove", "tell", "done"}
         /\ sweep[p].all \in BOOLEAN
         /\ sweep[p].todo \in SUBSET Calls
         /\ sweep[p].at \in {"decide", "remove", "tell"} => sweep[p].on \in Calls
         /\ sweep[p].at \in {"new", "next", "done"} => sweep[p].on = Nothing
BY DEF TypeOK, SweepStates

\* What a move of a sweep does to the function of all sweeps.
LEMMA SweepMove ==
  ASSUME TypeOK, NEW p \in Sweeps, NEW place, NEW all \in BOOLEAN, NEW ids \in SUBSET Calls, NEW r,
         sweep' = [sweep EXCEPT ![p] = [at |-> place, all |-> all, todo |-> ids, on |-> r]],
         \/ place \in {"decide", "remove", "tell"} /\ r \in Calls
         \/ place \in {"new", "next", "done"} /\ r = Nothing
  PROVE  /\ sweep' \in [Sweeps -> SweepStates]
         /\ sweep'[p].at = place /\ sweep'[p].on = r
         /\ \A j \in Sweeps \ {p} : sweep'[j] = sweep[j]
<1> DEFINE s == [at |-> place, all |-> all, todo |-> ids, on |-> r]
<1>1. s \in SweepStates
  BY DEF SweepStates
<1>2. sweep \in [Sweeps -> SweepStates]
  BY DEF TypeOK
<1>3. sweep' \in [Sweeps -> SweepStates] /\ sweep'[p] = s
  BY <1>1, <1>2
<1>4. \A j \in Sweeps \ {p} : sweep'[j] = sweep[j]
  BY <1>2
<1> QED BY <1>3, <1>4

LEMMA SweepMoveOn ==
  ASSUME TypeOK, NEW p \in Sweeps, NEW place, NEW ids \in SUBSET Calls, NEW r,
         SweepMoves(p, place, ids, r),
         \/ place \in {"decide", "remove", "tell"} /\ r \in Calls
         \/ place \in {"new", "next", "done"} /\ r = Nothing
  PROVE  /\ sweep' \in [Sweeps -> SweepStates]
         /\ sweep'[p].at = place /\ sweep'[p].on = r
         /\ \A j \in Sweeps \ {p} : sweep'[j] = sweep[j]
<1>1. sweep[p].all \in BOOLEAN
  BY SweepFacts
<1>2. sweep' = [sweep EXCEPT ![p] = [at |-> place, all |-> sweep[p].all, todo |-> ids, on |-> r]]
  BY DEF SweepMoves
<1> QED BY <1>1, <1>2, SweepMove

\* Every step of a Decide moves the click it belongs to and no other.
LEMMA ClickStepMoves ==
  ASSUME TypeOK, NEW k \in Clicks,
         \/ ClickStep(k)
         \/ \E r \in Calls, b \in {"allow", "deny"} : ClickFinds(k, r, b)
  PROVE  /\ click' \in [Clicks -> ClickStates]
         /\ \A j \in Clicks \ {k} : click'[j] = click[j]
         /\ click'[k].at # "done" => click'[k].on \in Calls
         /\ ClickStep(k) /\ click'[k].at # "done" => click'[k].on = click[k].on
         /\ click'[k].at = "decide" => click'[k].on \in m
         /\ click'[k].at = "remove" => click[k].at = "decide"
         /\ click'[k].at = "tell" => click[k].at = "remove"
         /\ click'[k].at \in {"decide", "remove", "tell", "done"}
<1>1. CASE \E r \in Calls, b \in {"allow", "deny"} : ClickFinds(k, r, b)
  BY <1>1, ClickMove DEF ClickFinds, ClickDone, ClickStep, ClickDecides, ClickRemoves, ClickTells
<1>2. CASE ClickDecides(k)
  BY <1>2, ClickMove, ClickFacts DEF ClickDecides, ClickGoto, ClickDone
<1>3. CASE ClickRemoves(k)
  BY <1>3, ClickMove, ClickFacts DEF ClickRemoves, ClickGoto
<1>4. CASE ClickTells(k)
  BY <1>4, ClickMove, ClickFacts DEF ClickTells, ClickDone
<1> QED BY <1>1, <1>2, <1>3, <1>4 DEF ClickStep

\* Every step of a sweep moves that sweep and no other.
LEMMA SweepStepMoves ==
  ASSUME TypeOK, NEW p \in Sweeps,
         SweepStep(p) \/ CloseAll(p) \/ \E c \in Conversations : DropByConv(p, c)
  PROVE  /\ sweep' \in [Sweeps -> SweepStates]
         /\ \A j \in Sweeps \ {p} : sweep'[j] = sweep[j]
         /\ sweep'[p].at = "decide" => sweep'[p].on \in m
         /\ sweep'[p].at = "remove" => sweep[p].at = "decide" /\ sweep'[p].on = sweep[p].on
         /\ sweep'[p].at = "tell" => sweep[p].at = "remove" /\ sweep'[p].on = sweep[p].on
<1> USE SweepFacts
<1>1. CASE CloseAll(p) \/ \E c \in Conversations : DropByConv(p, c)
  <2>1. PICK ids \in SUBSET Calls, all \in BOOLEAN : SweepStarts(p, ids, all)
    BY <1>1 DEF CloseAll, DropByConv, TypeOK
  <2> QED BY <2>1, SweepMove DEF SweepStarts
<1>2. CASE \E r \in Calls : SweepFinds(p, r)
  <2>1. PICK r \in Calls : SweepFinds(p, r)
    BY <1>2
  <2>2. sweep[p].todo \ {r} \in SUBSET Calls
    OBVIOUS
  <2>3. CASE r \in m
    <3>1. SweepMoves(p, "decide", sweep[p].todo \ {r}, r)
      BY <2>1, <2>3 DEF SweepFinds
    <3> QED BY <2>2, <2>3, <3>1, SweepMoveOn
  <2>4. CASE r \notin m
    BY <2>1, <2>2, <2>4, SweepMoveOn DEF SweepFinds
  <2> QED BY <2>3, <2>4
<1>3. CASE SweepDecides(p)
  <2>1. sweep[p].at = "decide" /\ sweep[p].on \in Calls /\ sweep[p].todo \in SUBSET Calls
    BY <1>3 DEF SweepDecides
  <2>2. SweepMoves(p, "remove", sweep[p].todo, sweep[p].on)
        \/ SweepMoves(p, "next", sweep[p].todo, Nothing)
    BY <1>3 DEF SweepDecides, SweepGoto, SweepNext
  <2> HIDE SweepFacts
  <2>3. /\ sweep' \in [Sweeps -> SweepStates]
        /\ sweep'[p].at \in {"remove", "next"}
        /\ sweep'[p].at = "remove" => sweep'[p].on = sweep[p].on
        /\ \A j \in Sweeps \ {p} : sweep'[j] = sweep[j]
    BY <2>1, <2>2, SweepMoveOn
  <2> QED BY <2>1, <2>3
<1>4. CASE SweepRemoves(p)
  BY <1>4, SweepMoveOn DEF SweepRemoves, SweepGoto, SweepNext
<1>5. CASE SweepTells(p)
  BY <1>5, SweepMoveOn DEF SweepTells, SweepNext
<1>6. CASE SweepEnds(p)
  BY <1>6, SweepMoveOn DEF SweepEnds, SweepGoto
<1> QED BY <1>1, <1>2, <1>3, <1>4, <1>5, <1>6 DEF SweepStep

\* A step of Decide keeps the types.
LEMMA TypeClick ==
  ASSUME TypeOK, NEW k \in Clicks,
         \/ ClickStep(k)
         \/ \E r \in Calls, b \in {"allow", "deny"} : ClickFinds(k, r, b)
  PROVE  TypeOK'
<1> USE DEF TypeOK, waitVars
<1>1. click' \in [Clicks -> ClickStates]
  BY ClickStepMoves
<1>2. CASE ClickDecides(k)
  BY <1>1, <1>2, ClickFacts DEF ClickDecides
<1>3. CASE ~ClickDecides(k)
  BY <1>1, <1>3, ClickFacts DEF ClickStep, ClickFinds, ClickRemoves, ClickTells
<1> QED BY <1>2, <1>3

\* A step of DropByConv or CloseAll keeps the types.
LEMMA TypeSweep ==
  ASSUME TypeOK, NEW p \in Sweeps,
         SweepStep(p) \/ CloseAll(p) \/ \E c \in Conversations : DropByConv(p, c)
  PROVE  TypeOK'
<1> USE DEF TypeOK, waitVars
<1>1. sweep' \in [Sweeps -> SweepStates]
  BY SweepStepMoves
<1>2. CASE CloseAll(p) \/ \E c \in Conversations : DropByConv(p, c)
  BY <1>1, <1>2 DEF CloseAll, DropByConv, SweepStarts
<1>3. CASE SweepDecides(p)
  BY <1>1, <1>3, SweepFacts DEF SweepDecides
<1>4. CASE SweepStep(p) /\ ~SweepDecides(p)
  BY <1>1, <1>4, SweepFacts DEF SweepStep, SweepFinds, SweepRemoves, SweepTells, SweepEnds
<1> QED BY <1>2, <1>3, <1>4

LEMMA TypeStep == TypeOK /\ [Next]_vars => TypeOK'
<1> SUFFICES ASSUME TypeOK, [Next]_vars PROVE TypeOK'
  OBVIOUS
<1>1. CASE UNCHANGED vars
  BY <1>1 DEF vars, TypeOK
<1>2. CASE Next
  BY <1>2, TypeWait, TypeClick, TypeSweep DEF Next
<1> QED BY <1>1, <1>2

\* Every reachable state of the hub is well typed: in particular no operation ever
\* works on a call it did not find in the map.
THEOREM TypeCorrect == Spec => []TypeOK
BY TypeInit, TypeStep, PTL DEF Spec

------------------------------------------------------------------------------
(* What is out of the map stays out of it.                                 *)

\* Only Register puts a call into the map, at its very beginning; whoever is to
\* tell the front end has taken the call out before.  Both are needed to see that
\* a call that was told of, or has returned, is not in the map.
Unregistered ==
  /\ m \subseteq {r \in Calls : pc[r] # "new"}
  /\ told \subseteq {r \in Calls : pc[r] # "new"}
  /\ told \cap m = {}
  /\ \A r \in Calls : pc[r] \in {"tell", "returned"} => r \notin m
  /\ \A k \in Clicks : click[k].at \in {"decide", "remove", "tell"} => pc[click[k].on] # "new"
  /\ \A k \in Clicks : click[k].at = "tell" => click[k].on \notin m
  /\ \A p \in Sweeps : sweep[p].at \in {"decide", "remove", "tell"} => pc[sweep[p].on] # "new"
  /\ \A p \in Sweeps : sweep[p].at = "tell" => sweep[p].on \notin m

LEMMA UnregisteredInit == Init => Unregistered
BY DEF Init, Unregistered

LEMMA UnregisteredWait ==
  ASSUME TypeOK, Unregistered, NEW r \in Calls,
         WaitStep(r) \/ WaitEnds(r) \/ \E c \in Conversations : Register(r, c)
  PROVE  Unregistered'
<1> USE ClickFacts, SweepFacts DEF TypeOK, Unregistered, Goto
<1>1. CASE \E c \in Conversations : Register(r, c)
  BY <1>1 DEF Register
<1>2. CASE WaitStarts(r) \/ WaitGone(r)
  BY <1>2 DEF WaitStarts, WaitGone
<1>3. CASE WaitTakes(r) \/ WaitExpires(r) \/ WaitEnds(r)
  BY <1>3 DEF WaitTakes, WaitExpires, WaitEnds, Answer
<1>4. CASE WaitRemoves(r)
  BY <1>4 DEF WaitRemoves
<1>5. CASE WaitTells(r)
  BY <1>5 DEF WaitTells
<1> QED BY <1>1, <1>2, <1>3, <1>4, <1>5 DEF WaitStep

LEMMA UnregisteredClick ==
  ASSUME TypeOK, Unregistered, NEW k \in Clicks,
         \/ ClickStep(k)
         \/ \E r \in Calls, b \in {"allow", "deny"} : ClickFinds(k, r, b)
  PROVE  Unregistered'
<1> USE ClickStepMoves, ClickFacts, SweepFacts DEF TypeOK, Unregistered, waitVars
<1>1. CASE \E r \in Calls, b \in {"allow", "deny"} : ClickFinds(k, r, b)
  BY <1>1 DEF ClickFinds
<1>2. CASE ClickDecides(k)
  BY <1>2 DEF ClickDecides, ClickStep
<1>3. CASE ClickRemoves(k)
  BY <1>3 DEF ClickRemoves, ClickStep
<1>4. CASE ClickTells(k)
  BY <1>4 DEF ClickTells, ClickStep
<1> QED BY <1>1, <1>2, <1>3, <1>4 DEF ClickStep

LEMMA UnregisteredSweep ==
  ASSUME TypeOK, Unregistered, NEW p \in Sweeps,
         SweepStep(p) \/ CloseAll(p) \/ \E c \in Conversations : DropByConv(p, c)
  PROVE  Unregistered'
<1> USE SweepStepMoves, ClickFacts, SweepFacts DEF TypeOK, Unregistered, waitVars
<1>1. CASE CloseAll(p) \/ \E c \in Conversations : DropByConv(p, c)
  BY <1>1 DEF CloseAll, DropByConv, SweepStarts
<1>2. CASE \E r \in Calls : SweepFinds(p, r)
  BY <1>2 DEF SweepFinds
<1>3. CASE SweepDecides(p)
  BY <1>3 DEF SweepDecides
<1>4. CASE SweepRemoves(p)
  BY <1>4 DEF SweepRemoves
<1>5. CASE SweepTells(p) \/ SweepEnds(p)
  BY <1>5 DEF SweepTells, SweepEnds
<1> QED BY <1>1, <1>2, <1>3, <1>4, <1>5 DEF SweepStep

LEMMA UnregisteredAlways == Spec => [](TypeOK /\ Unregistered)
<1>1. Init => TypeOK /\ Unregistered
  BY TypeInit, UnregisteredInit
<1>2. TypeOK /\ Unregistered /\ [Next]_vars => (TypeOK /\ Unregistered)'
  <2> SUFFICES ASSUME TypeOK, Unregistered, [Next]_vars PROVE TypeOK' /\ Unregistered'
    OBVIOUS
  <2>1. TypeOK'
    BY TypeStep
  <2>2. CASE UNCHANGED vars
    BY <2>1, <2>2 DEF vars, Unregistered
  <2>3. CASE Next
    BY <2>1, <2>3, UnregisteredWait, UnregisteredClick, UnregisteredSweep DEF Next
  <2> QED BY <2>1, <2>2, <2>3
<1> QED BY <1>1, <1>2, PTL DEF Spec

\* A call whose handler has returned is not pending any more: the list the front
\* end fetches and the capacity of the map are not used up by answered calls.
THEOREM ReturnedCallsAreGone == Spec => []ReturnedIsGone
<1>1. Unregistered => ReturnedIsGone
  BY DEF Unregistered, ReturnedIsGone
<1> QED BY <1>1, UnregisteredAlways, PTL

\* The "resolved" event of a call is broadcast only after the call left the map.
THEOREM ToldCallsAreGone == Spec => []ToldIsGone
<1>1. Unregistered => ToldIsGone
  BY DEF Unregistered, ToldIsGone
<1> QED BY <1>1, UnregisteredAlways, PTL

------------------------------------------------------------------------------
(* The hub implements the gate.                                            *)

\* A call is answered once: until the select of Wait fires there is no answer.
Unanswered ==
  \A r \in Calls : pc[r] \in {"new", "registered", "waiting"} => answer[r] = "none"

LEMMA UnansweredStep == TypeOK /\ Unanswered /\ [Next]_vars => Unanswered'
<1> SUFFICES ASSUME TypeOK, Unanswered, [Next]_vars PROVE Unanswered'
  OBVIOUS
<1> USE DEF TypeOK, Unanswered
<1>1. CASE UNCHANGED <<pc, answer>>
  BY <1>1
<1>2. ASSUME NEW r \in Calls, NEW c \in Conversations, Register(r, c) PROVE Unanswered'
  BY <1>2 DEF Register, Goto
<1>3. ASSUME NEW r \in Calls, WaitStep(r) \/ WaitEnds(r) PROVE Unanswered'
  BY <1>3 DEF WaitStep, WaitStarts, WaitGone, WaitTakes, WaitExpires, WaitEnds, Answer,
              WaitRemoves, WaitTells, Goto
<1>4. ASSUME NEW k \in Clicks,
             \/ ClickStep(k)
             \/ \E r \in Calls, b \in {"allow", "deny"} : ClickFinds(k, r, b)
      PROVE UNCHANGED <<pc, answer>>
  BY <1>4 DEF ClickStep, ClickFinds, ClickDecides, ClickRemoves, ClickTells, waitVars
<1>5. ASSUME NEW p \in Sweeps,
             SweepStep(p) \/ CloseAll(p) \/ \E c \in Conversations : DropByConv(p, c)
      PROVE UNCHANGED <<pc, answer>>
  BY <1>5 DEF SweepStep, SweepFinds, SweepDecides, SweepRemoves, SweepTells, SweepEnds,
              CloseAll, DropByConv, SweepStarts, waitVars
<1> QED BY <1>1, <1>2, <1>3, <1>4, <1>5 DEF Next, vars

\* The answer as the hook sees it: why a call is refused does not matter to it.
Seen == [r \in Calls |-> IF answer[r] \in {"none", "allow"} THEN answer[r] ELSE "deny"]

\* Writing an answer writes what the hook sees.
LEMMA SeenStep ==
  ASSUME TypeOK, NEW r \in Calls, NEW what \in Answers \ {"none"},
         answer' = [answer EXCEPT ![r] = what]
  PROVE  Seen' = [Seen EXCEPT ![r] = IF what = "allow" THEN "allow" ELSE "deny"]
BY DEF TypeOK, Seen, Answers

\* A step of the handler is Allow or Refuse of the gate, or a stutter.
LEMMA GateWait ==
  ASSUME TypeOK, Unanswered, NEW r \in Calls,
         WaitStep(r) \/ WaitEnds(r) \/ \E c \in Conversations : Register(r, c)
  PROVE  Gate!Next \/ UNCHANGED <<decided, Seen>>
<1>1. CASE WaitGone(r)
  <2>1. Seen' = [Seen EXCEPT ![r] = "deny"] /\ Seen[r] = "none" /\ UNCHANGED decided
    BY <1>1, SeenStep DEF WaitGone, Answers, Unanswered, Seen, TypeOK
  <2>2. Gate!Refuse(r)
    BY <2>1 DEF Gate!Refuse, Seen
  <2> QED BY <2>2 DEF Gate!Next
<1>2. ASSUME NEW what \in {"allow", "deny", "timeout", "ended"}, Answer(r, what),
             what = "allow" => decided[r] = "allow"
      PROVE  Gate!Next
  <2>1. /\ Seen' = [Seen EXCEPT ![r] = IF what = "allow" THEN "allow" ELSE "deny"]
        /\ Seen[r] = "none"
        /\ UNCHANGED decided
    BY <1>2, SeenStep DEF Answer, Answers, Unanswered, Seen, TypeOK
  <2>2. CASE what = "allow"
    BY <1>2, <2>1, <2>2 DEF Gate!Next, Gate!Allow, Seen
  <2>3. CASE what # "allow"
    BY <2>1, <2>3 DEF Gate!Next, Gate!Refuse, Seen
  <2> QED BY <2>2, <2>3
<1>3. CASE WaitTakes(r)
  <2>1. decided[r] \in {"allow", "deny"} /\ Answer(r, decided[r])
    BY <1>3 DEF WaitTakes, TypeOK
  <2> QED BY <2>1, <1>2
<1>4. CASE WaitExpires(r) \/ WaitEnds(r)
  BY <1>4, <1>2 DEF WaitExpires, WaitEnds
<1>5. CASE \/ WaitStarts(r) \/ WaitRemoves(r) \/ WaitTells(r)
           \/ \E c \in Conversations : Register(r, c)
  BY <1>5 DEF WaitStarts, WaitRemoves, WaitTells, Register, Seen
<1> QED BY <1>1, <1>3, <1>4, <1>5 DEF WaitStep

\* A step of Decide is Decide of the gate or a stutter.
LEMMA GateClick ==
  ASSUME TypeOK, NEW k \in Clicks,
         \/ ClickStep(k)
         \/ \E r \in Calls, b \in {"allow", "deny"} : ClickFinds(k, r, b)
  PROVE  Gate!Next \/ UNCHANGED <<decided, Seen>>
<1>1. UNCHANGED Seen
  BY DEF ClickStep, ClickFinds, ClickDecides, ClickRemoves, ClickTells, waitVars, Seen
<1>2. CASE ClickDecides(k) /\ decided[click[k].on] = "none"
  <2>1. Gate!Decide(click[k].on, click[k].says)
    BY <1>1, <1>2 DEF ClickDecides, Gate!Decide, Seen
  <2> QED BY <1>2, <2>1, ClickFacts DEF Gate!Next, ClickDecides
<1>3. CASE ~(ClickDecides(k) /\ decided[click[k].on] = "none")
  BY <1>1, <1>3 DEF ClickStep, ClickFinds, ClickDecides, ClickRemoves, ClickTells
<1> QED BY <1>2, <1>3

\* A step of a sweep is Decide(deny) of the gate or a stutter.
LEMMA GateSweep ==
  ASSUME TypeOK, NEW p \in Sweeps,
         SweepStep(p) \/ CloseAll(p) \/ \E c \in Conversations : DropByConv(p, c)
  PROVE  Gate!Next \/ UNCHANGED <<decided, Seen>>
<1>1. UNCHANGED Seen
  BY DEF SweepStep, SweepFinds, SweepDecides, SweepRemoves, SweepTells, SweepEnds,
         CloseAll, DropByConv, SweepStarts, waitVars, Seen
<1>2. CASE SweepDecides(p) /\ decided[sweep[p].on] = "none"
  <2>1. Gate!Decide(sweep[p].on, "deny")
    BY <1>1, <1>2 DEF SweepDecides, Gate!Decide, Seen
  <2> QED BY <1>2, <2>1, SweepFacts DEF Gate!Next, SweepDecides
<1>3. CASE ~(SweepDecides(p) /\ decided[sweep[p].on] = "none")
  BY <1>1, <1>3 DEF SweepStep, SweepFinds, SweepDecides, SweepRemoves, SweepTells, SweepEnds,
                    CloseAll, DropByConv, SweepStarts
<1> QED BY <1>2, <1>3

\* The hub implements the gate for every number of calls, clicks and sweeps: an
\* answer "allow" was decided first, everything else refuses, nothing is taken back.
THEOREM HubFailsSafe == Spec => FailsSafe
<1>1. Init => Gate!Init /\ TypeOK /\ Unanswered
  BY TypeInit DEF Init, Gate!Init, Unanswered
<1>2. TypeOK /\ Unanswered /\ [Next]_vars => [Gate!Next]_<<decided, Seen>>
  <2> SUFFICES ASSUME TypeOK, Unanswered, [Next]_vars PROVE [Gate!Next]_<<decided, Seen>>
    OBVIOUS
  <2>1. CASE UNCHANGED vars
    BY <2>1 DEF vars, Seen
  <2>2. CASE Next
    BY <2>2, GateWait, GateClick, GateSweep DEF Next
  <2> QED BY <2>1, <2>2
<1>3. TypeOK /\ Unanswered /\ [Next]_vars => (TypeOK /\ Unanswered)'
  BY TypeStep, UnansweredStep
<1>4. [Gate!Next]_<<decided, Seen>> => [Gate!Next]_(Gate!gateVars)
  BY DEF Gate!gateVars, Seen
<1> QED BY <1>1, <1>2, <1>3, <1>4, PTL DEF Spec, FailsSafe, Gate!Spec
==============================================================================
