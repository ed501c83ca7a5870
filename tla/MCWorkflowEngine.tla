--------------------------- MODULE MCWorkflowEngine ---------------------------
(* Graphs and instances of WorkflowEngine for TLC.                         *)
EXTENDS WorkflowEngine

CONSTANTS d1, d2, d3, o1, o2, o3

Edge(u, b, v) == [source |-> u, branch |-> b, target |-> v]

MCOneOp == {o1}
MCTwoOps == {o1, o2}
MCThreeOps == {o1, o2, o3}
MCTwoDrivers == {d1, d2}
MCThreeDrivers == {d1, d2, d3}

\* An agent whose work is reviewed; a rejection leads back to it.
MCReviewOrder == <<"start", "a", "review", "end">>
MCReviewEdges ==
  <<Edge("start", "default", "a"), Edge("a", "default", "review"),
    Edge("review", "approve", "end"), Edge("review", "reject", "a")>>

\* Two branches, one longer than the other, and a condition on what they did.
MCUnevenOrder == <<"start", "parallel", "a", "b", "c", "merge", "condition", "good", "bad">>
MCUnevenEdges ==
  <<Edge("start", "default", "parallel"),
    Edge("parallel", "default", "a"), Edge("parallel", "default", "b"), Edge("b", "default", "c"),
    Edge("a", "default", "merge"), Edge("c", "default", "merge"), Edge("merge", "default", "condition"),
    Edge("condition", "true", "good"), Edge("condition", "false", "bad")>>

\* Two branches and their merge.
MCForkOrder == <<"start", "a", "b", "merge", "end">>
MCForkEdges ==
  <<Edge("start", "default", "a"), Edge("start", "default", "b"),
    Edge("a", "default", "merge"), Edge("b", "default", "merge"), Edge("merge", "default", "end")>>

\* A chain whose last step is reviewed.
MCChainOrder == <<"start", "a", "b", "review", "end">>
MCChainEdges ==
  <<Edge("start", "default", "a"), Edge("a", "default", "b"), Edge("b", "default", "review"),
    Edge("review", "approve", "end"), Edge("review", "reject", "a")>>

\* In this graph every edge leads to a node that is listed later.
MCUnevenRank == [n \in ToSet(MCUnevenOrder) |-> Len(MCUnevenOrder) - SelectInSeq(MCUnevenOrder, LAMBDA m : m = n)]

ASSUME UnevenIsForkJoin == Order = MCUnevenOrder => ForkJoin(MCUnevenRank)

\* In a small graph the propagation finds what has to run again, whatever the attempts.
ASSUME PassesFindRerun ==
  Cardinality(Node) =< 5 =>
    \A latest \in [Node -> {[status |-> "none", out |-> ""], [status |-> "success", out |-> "full"],
                           [status |-> "failed", out |-> ""]}] :
      Passes(latest)[Cardinality(Node)] = NeedRerun(latest)

MCKind ==
  [n \in ToSet(Order) |->
     CASE n \in {"a", "b", "c"} -> "agent" [] n = "review" -> "human_review"
       [] n \in {"good", "bad"} -> "end" [] OTHER -> n]
MCNoWaitFor == [n \in ToSet(Order) |-> <<>>]
MCRejectEdge == [n \in ToSet(Order) |-> ""]
MCRejectMissing == [n \in ToSet(Order) |-> "<nil>"]

MCAllKinds == {"start", "stop", "approve", "reject", "abort", "retry", "resume"}
MCReviewKinds == {"start", "approve", "reject"}
MCOnlyStart == {"start"}
MCRetryEnd == {"end"}
MCNoRetry == {}
==============================================================================
