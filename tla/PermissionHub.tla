---------------------------- MODULE PermissionHub ----------------------------
(***************************************************************************)
(* permission.Hub: tool calls that wait for a person.  The HTTP handler of *)
(* a hook registers a call and blocks in Wait; the front end answers with  *)
(* Decide; the end of an ask drops what is left of its conversation        *)
(* (DropByConv) and the end of the process drops everything (CloseAll).    *)
(* All of them run concurrently.  The map m is guarded by h.mu, but every  *)
(* operation takes the lock several times: it looks a call up, acts on the *)
(* call, takes the call out of the map and only then tells the front end.  *)
(*                                                                         *)
(* Wait removes the call and broadcasts "resolved" whichever case of its   *)
(* select fires; Decide and drop do so only when their once.Do ran.        *)
(***************************************************************************)
EXTENDS FiniteSets, Naturals

CONSTANTS
  Calls,          \* requests, each with its random id
  Clicks,         \* calls of Decide
  Sweeps,         \* calls of DropByConv and CloseAll
  Conversations,
  MaxPending,     \* capacity of the map (500 in the code)
  Nothing         \* no call, no conversation

ASSUME NothingAssumption == Nothing \notin Calls \cup Conversations
ASSUME CallsAssumption == IsFiniteSet(Calls)
ASSUME MaxPendingAssumption == MaxPending \in Nat

VARIABLES
  m,              \* Hub.m: the calls that are pending
  conv,           \* the conversation of a call
  decided,        \* what went through Request.once into Request.ch, or "none"
  pc,             \* where the hook's handler is
  answer,         \* what Wait returned: "allow", or the reason of a refusal
  told,           \* calls a "resolved" event was broadcast for
  click,          \* where a Decide is, on which call and what it says
  sweep           \* where a sweep is, whether it is CloseAll, its ids and the current one

waitVars == <<pc, answer>>
vars == <<m, conv, decided, pc, answer, told, click, sweep>>

Places == {"new", "registered", "waiting", "remove", "tell", "returned"}
Answers == {"none", "allow", "deny", "timeout", "ended", "gone"}
ClickStates ==
  [at : {"new", "done"}, on : {Nothing}, says : {"deny"}]
    \cup [at : {"decide", "remove", "tell"}, on : Calls, says : {"allow", "deny"}]
SweepStates ==
  [at : {"new", "next", "done"}, all : BOOLEAN, todo : SUBSET Calls, on : {Nothing}]
    \cup [at : {"decide", "remove", "tell"}, all : BOOLEAN, todo : SUBSET Calls, on : Calls]

TypeOK ==
  /\ m \in SUBSET Calls
  /\ conv \in [Calls -> Conversations \cup {Nothing}]
  /\ decided \in [Calls -> {"none", "allow", "deny"}]
  /\ pc \in [Calls -> Places]
  /\ answer \in [Calls -> Answers]
  /\ told \in SUBSET Calls
  /\ click \in [Clicks -> ClickStates]
  /\ sweep \in [Sweeps -> SweepStates]

Init ==
  /\ m = {}
  /\ conv = [r \in Calls |-> Nothing]
  /\ decided = [r \in Calls |-> "none"]
  /\ pc = [r \in Calls |-> "new"]
  /\ answer = [r \in Calls |-> "none"]
  /\ told = {}
  /\ click = [k \in Clicks |-> [at |-> "new", on |-> Nothing, says |-> "deny"]]
  /\ sweep = [p \in Sweeps |-> [at |-> "new", all |-> FALSE, todo |-> {}, on |-> Nothing]]

------------------------------------------------------------------------------
(* The hook's handler: Register, then Wait.                                *)

Goto(r, place) == pc' = [pc EXCEPT ![r] = place]

\* A full map does not take the call, which is announced all the same.
Register(r, c) ==
  /\ pc[r] = "new"
  /\ conv' = [conv EXCEPT ![r] = c]
  /\ m' = IF Cardinality(m) < MaxPending THEN m \cup {r} ELSE m
  /\ Goto(r, "registered")
  /\ UNCHANGED <<decided, answer, told, click, sweep>>

WaitStarts(r) ==
  /\ pc[r] = "registered"
  /\ r \in m
  /\ Goto(r, "waiting")
  /\ UNCHANGED <<m, conv, decided, answer, told, click, sweep>>

\* The call is not in the map: refused at once, without an event.
WaitGone(r) ==
  /\ pc[r] = "registered"
  /\ r \notin m
  /\ answer' = [answer EXCEPT ![r] = "gone"]
  /\ Goto(r, "returned")
  /\ UNCHANGED <<m, conv, decided, told, click, sweep>>

\* The cases of the select; when several are ready Go takes any of them.
Answer(r, what) ==
  /\ pc[r] = "waiting"
  /\ answer' = [answer EXCEPT ![r] = what]
  /\ Goto(r, "remove")
  /\ UNCHANGED <<m, conv, decided, told, click, sweep>>

WaitTakes(r) == decided[r] # "none" /\ Answer(r, decided[r])

\* Mutant: the timer is armed by a decision only.
WaitExpiresDecided(r) == decided[r] # "none" /\ Answer(r, "timeout")

WaitExpires(r) == Answer(r, "timeout")

\* Mutant: a dropped connection lets through what nobody has refused.
WaitEndsOpen(r) == Answer(r, IF decided[r] = "deny" THEN "ended" ELSE "allow")

\* The hook's connection drops, or the handler's 6 minutes are over: at any time.
WaitEnds(r) == Answer(r, "ended")

\* Mutant: the call is left to Decide when the wait was not cancelled.
WaitRemovesCancelled(r) ==
  /\ pc[r] = "remove"
  /\ m' = IF answer[r] = "ended" THEN m \ {r} ELSE m
  /\ Goto(r, "tell")
  /\ UNCHANGED <<conv, decided, answer, told, click, sweep>>

WaitRemoves(r) ==
  /\ pc[r] = "remove"
  /\ m' = m \ {r}
  /\ Goto(r, "tell")
  /\ UNCHANGED <<conv, decided, answer, told, click, sweep>>

WaitTells(r) ==
  /\ pc[r] = "tell"
  /\ told' = told \cup {r}
  /\ Goto(r, "returned")
  /\ UNCHANGED <<m, conv, decided, answer, click, sweep>>

------------------------------------------------------------------------------
(* Decide.                                                                 *)

ClickMoves(k, place, r, b) ==
  click' = [click EXCEPT ![k] = [at |-> place, on |-> r, says |-> b]]
ClickGoto(k, place) == ClickMoves(k, place, click[k].on, click[k].says)

\* The click is over, and what it was about is forgotten.
ClickDone(k) == ClickMoves(k, "done", Nothing, "deny")

\* Mutant: the result of get is not compared with nil.
ClickFindsNil(k, r, b) ==
  /\ click[k].at = "new"
  /\ pc[r] # "new"
  /\ ClickMoves(k, "decide", IF r \in m THEN r ELSE Nothing, b)
  /\ UNCHANGED <<m, conv, decided, waitVars, told, sweep>>

\* get: ErrUnknown (HTTP 404) when the call is not in the map.
ClickFinds(k, r, b) ==
  /\ click[k].at = "new"
  /\ pc[r] # "new"
  /\ IF r \in m THEN ClickMoves(k, "decide", r, b) ELSE ClickDone(k)
  /\ UNCHANGED <<m, conv, decided, waitVars, told, sweep>>

\* Mutant: no once, the last click wins.
ClickOverwrites(k) ==
  /\ click[k].at = "decide"
  /\ decided' = [decided EXCEPT ![click[k].on] = click[k].says]
  /\ ClickGoto(k, "remove")
  /\ UNCHANGED <<m, conv, waitVars, told, sweep>>

\* once.Do: the first decision goes into the channel, later ones are ignored.
ClickDecides(k) ==
  /\ click[k].at = "decide"
  /\ IF decided[click[k].on] = "none"
     THEN decided' = [decided EXCEPT ![click[k].on] = click[k].says] /\ ClickGoto(k, "remove")
     ELSE UNCHANGED decided /\ ClickDone(k)
  /\ UNCHANGED <<m, conv, waitVars, told, sweep>>

\* Mutant: the waiting hook is left to tell the front end.
ClickRemovesQuietly(k) ==
  /\ click[k].at = "remove"
  /\ m' = m \ {click[k].on}
  /\ ClickDone(k)
  /\ UNCHANGED <<conv, decided, waitVars, told, sweep>>

ClickRemoves(k) ==
  /\ click[k].at = "remove"
  /\ m' = m \ {click[k].on}
  /\ ClickGoto(k, "tell")
  /\ UNCHANGED <<conv, decided, waitVars, told, sweep>>

ClickTells(k) ==
  /\ click[k].at = "tell"
  /\ told' = told \cup {click[k].on}
  /\ ClickDone(k)
  /\ UNCHANGED <<m, conv, decided, waitVars, sweep>>

------------------------------------------------------------------------------
(* DropByConv(c), and CloseAll.                                            *)

SweepMoves(p, place, ids, r) ==
  sweep' = [sweep EXCEPT ![p] = [at |-> place, all |-> sweep[p].all, todo |-> ids, on |-> r]]
SweepGoto(p, place) == SweepMoves(p, place, sweep[p].todo, sweep[p].on)
SweepNext(p) == SweepMoves(p, "next", sweep[p].todo, Nothing)

\* Under the lock: the ids to refuse.
SweepStarts(p, ids, all) ==
  /\ sweep[p].at = "new"
  /\ sweep' = [sweep EXCEPT ![p] = [at |-> "next", all |-> all, todo |-> ids, on |-> Nothing]]
  /\ UNCHANGED <<m, conv, decided, waitVars, told, click>>

DropByConv(p, c) == SweepStarts(p, {r \in m : conv[r] = c}, FALSE)
CloseAll(p) == SweepStarts(p, m, TRUE)

\* get, in the order in which the map was ranged over; an id that is gone by now
\* is skipped.
SweepFinds(p, r) ==
  /\ sweep[p].at = "next"
  /\ r \in sweep[p].todo
  /\ IF r \in m THEN SweepMoves(p, "decide", sweep[p].todo \ {r}, r)
                ELSE SweepMoves(p, "next", sweep[p].todo \ {r}, Nothing)
  /\ UNCHANGED <<m, conv, decided, waitVars, told, click>>

\* Mutant: the front end is told before the call is out of the map.
SweepTellsFirst(p) ==
  /\ sweep[p].at = "decide"
  /\ IF decided[sweep[p].on] = "none"
     THEN /\ decided' = [decided EXCEPT ![sweep[p].on] = "deny"]
          /\ told' = told \cup {sweep[p].on}
          /\ SweepGoto(p, "remove")
     ELSE UNCHANGED <<decided, told>> /\ SweepNext(p)
  /\ UNCHANGED <<m, conv, waitVars, click>>

\* once.Do; CloseAll takes the call out of the map whoever decided it.
SweepDecides(p) ==
  /\ sweep[p].at = "decide"
  /\ IF decided[sweep[p].on] = "none"
     THEN decided' = [decided EXCEPT ![sweep[p].on] = "deny"] /\ SweepGoto(p, "remove")
     ELSE /\ UNCHANGED decided
          /\ IF sweep[p].all THEN SweepGoto(p, "remove") ELSE SweepNext(p)
  /\ UNCHANGED <<m, conv, waitVars, told, click>>

\* CloseAll tells nobody.
SweepRemoves(p) ==
  /\ sweep[p].at = "remove"
  /\ m' = m \ {sweep[p].on}
  /\ IF sweep[p].all THEN SweepNext(p) ELSE SweepGoto(p, "tell")
  /\ UNCHANGED <<conv, decided, waitVars, told, click>>

SweepTells(p) ==
  /\ sweep[p].at = "tell"
  /\ told' = told \cup {sweep[p].on}
  /\ SweepNext(p)
  /\ UNCHANGED <<m, conv, decided, waitVars, click>>

SweepEnds(p) ==
  /\ sweep[p].at = "next"
  /\ sweep[p].todo = {}
  /\ SweepGoto(p, "done")
  /\ UNCHANGED <<m, conv, decided, waitVars, told, click>>

------------------------------------------------------------------------------
\* What Wait does unless its context ends.
WaitStep(r) ==
  \/ WaitStarts(r) \/ WaitGone(r) \/ WaitTakes(r) \/ WaitExpires(r)
  \/ WaitRemoves(r) \/ WaitTells(r)

ClickStep(k) == ClickDecides(k) \/ ClickRemoves(k) \/ ClickTells(k)

SweepStep(p) ==
  \/ \E r \in Calls : SweepFinds(p, r)
  \/ SweepDecides(p) \/ SweepRemoves(p) \/ SweepTells(p) \/ SweepEnds(p)

Next ==
  \/ \E r \in Calls : WaitStep(r) \/ WaitEnds(r) \/ \E c \in Conversations : Register(r, c)
  \/ \E k \in Clicks :
       \/ ClickStep(k)
       \/ \E r \in Calls, b \in {"allow", "deny"} : ClickFinds(k, r, b)
  \/ \E p \in Sweeps :
       \/ SweepStep(p)
       \/ CloseAll(p)
       \/ \E c \in Conversations : DropByConv(p, c)

Spec == Init /\ [][Next]_vars

\* Goroutines are scheduled and a timer fires.  Nobody is bound to click, to
\* drop a connection or to end an ask.
Fairness ==
  /\ \A r \in Calls : WF_vars(WaitStep(r))
  /\ \A k \in Clicks : WF_vars(ClickStep(k))
  /\ \A p \in Sweeps : WF_vars(SweepStep(p))

FairSpec == Spec /\ Fairness

------------------------------------------------------------------------------
(* Properties.                                                             *)

Gate == INSTANCE PermissionGate WITH
  decision <- decided,
  answer <- [r \in Calls |->
               IF answer[r] \in {"none", "allow"} THEN answer[r] ELSE "deny"]

\* The hub keeps the promise of PermissionGate whatever races: a hook is told
\* "allow" only if "allow" was the first decision, a timeout, a dropped
\* connection and a swept conversation refuse, and no answer or decision is
\* replaced by a later click.
FailsSafe == Gate!Spec

\* A call whose handler has returned is out of the map: it is not offered by
\* Pending any more and does not use up one of the places.
ReturnedIsGone == \A r \in Calls : pc[r] = "returned" => r \notin m

\* A front end that is told "resolved" and asks for the pending calls again does
\* not get the resolved one back.
ToldIsGone == told \cap m = {}

\* Every hook gets an answer, decided or not.
WaitReturns == \A r \in Calls : pc[r] = "registered" ~> pc[r] = "returned"

\* The popup of a call that made it into the map is taken back by an event, by
\* whatever it ends; only CloseAll, with which the process exits, tells nobody.
StoredIsTold ==
  \A r \in Calls : r \in m ~> r \in told \/ \E p \in Sweeps : sweep[p].all

------------------------------------------------------------------------------
(* What a comment says and the code does not do.                           *)

\* hub.go: Wait blocks until a decision, a timeout or the end of the context;
\* Decide wakes the waiting hook.  A call that is not decided and not timed out is
\* never refused for being unknown, and a call that was allowed even less so.
AllowedIsNotGone == \A r \in Calls : answer[r] = "gone" => decided[r] # "allow"

==============================================================================
