---------------------------- MODULE WorkflowGraph ----------------------------
(***************************************************************************)
(* The graph of a workflow definition (service/workflow_graph.go) and the  *)
(* choices the engine makes on it: whom a node hands over to.              *)
(*                                                                         *)
(* A definition is data that does not change while a run is under way.     *)
(* What a node's "data" says is a constant as well: WaitFor is the merge's *)
(* wait_for_node_ids, RejectTarget the review's reject_target_node_id.     *)
(***************************************************************************)
EXTENDS Integers, FiniteSets, SequencesExt

CONSTANTS
  Order,          \* the ids of the graph's nodes, as they are listed
  Kind,           \* the type of each node
  Edges,          \* the edges as they are listed: [source, target, branch]
  WaitFor,        \* for each node the ids a merge waits for, <<>> for all its sources
  RejectTarget    \* for each node where a rejection leads: a node, "" or "<nil>"

Node == ToSet(Order)

Kinds == {"start", "agent", "human_review", "condition", "parallel", "merge", "end"}

Branches == {"true", "false", "approve", "reject", "default"}

\* DataString prints a field that is missing as "<nil>", which is no node of the graph.
Missing == "<nil>"

Handles == Node \cup {Missing}

ASSUME GraphAssumption ==
  /\ Order \in Seq(STRING)
  /\ Kind \in [Node -> Kinds]
  /\ Edges \in Seq([source : Node, target : Node, branch : Branches])
  /\ WaitFor \in [Node -> Seq(Node)]
  /\ RejectTarget \in [Node -> Handles \cup {""}]
  /\ "" \notin Node /\ Missing \notin Node
  /\ \E n \in Node : Kind[n] = "start"

------------------------------------------------------------------------------
\* The elements of a sequence at some of its places, in their order.
AtPlaces(s, places) ==
  LET nth(k) == CHOOSE i \in places : Cardinality({j \in places : j =< i}) = k
  IN [k \in 1..Cardinality(places) |-> s[nth(k)]]

Outs(n) == AtPlaces(Edges, {i \in DOMAIN Edges : Edges[i].source = n})

Ins(n) == AtPlaces(Edges, {i \in DOMAIN Edges : Edges[i].target = n})

\* The edges out of a node that are marked for one of these branches.
Marked(n, branches) == AtPlaces(Outs(n), {i \in DOMAIN Outs(n) : Outs(n)[i].branch \in branches})

Targets(edges) == [i \in DOMAIN edges |-> edges[i].target]

Successors(n) == Targets(Outs(n))

Sources(n) == {e.source : e \in ToSet(Ins(n))}

StartNode == Order[SelectInSeq(Order, LAMBDA n : Kind[n] = "start")]

\* What a merge waits for, in the order in which it asks.
Needs(m) ==
  IF WaitFor[m] # <<>> THEN WaitFor[m] ELSE [i \in DOMAIN Ins(m) |-> Ins(m)[i].source]

\* Where a condition leads: the edges marked for its result; if there are none the
\* first edge for true and the second for false.
ConditionNext(n, ok) ==
  LET marked == Marked(n, IF ok THEN {"true", "default", "approve"} ELSE {"false", "reject"})
      place  == IF ok THEN 1 ELSE 2
  IN IF marked # <<>> THEN Targets(marked)
     ELSE IF place \in DOMAIN Outs(n) THEN <<Outs(n)[place].target>>
     ELSE <<>>

FirstTarget(edges) == IF edges = <<>> THEN "" ELSE edges[1].target

\* Where an approval leads, "" if nowhere: the first edge that is marked for it, or
\* else the first edge.
ApproveNext(n) ==
  LET marked == Marked(n, {"approve", "true", "default"})
  IN IF marked # <<>> THEN FirstTarget(marked) ELSE FirstTarget(Outs(n))

\* Where a rejection leads, "" if nowhere: the configured node, or else the first edge
\* that is marked for it.
RejectNext(n) ==
  IF RejectTarget[n] # "" THEN RejectTarget[n]
  ELSE FirstTarget(Marked(n, {"reject", "false"}))
==============================================================================
