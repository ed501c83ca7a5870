----------------------------- MODULE ResumePlan -----------------------------
(***************************************************************************)
(* What a run that was interrupted takes over and where it goes on         *)
(* (service/workflow_recover.go, PlanResume).                              *)
(*                                                                         *)
(* The latest attempt of each node is a record of its status ("none": the  *)
(* node was never executed) and of what its output amounts to: "" for      *)
(* none, "bare" for one with neither summary nor result nor text, "full"   *)
(* for one that passes the self-check.                                     *)
(***************************************************************************)
EXTENDS WorkflowGraph

Outputs == {"", "bare", "full"}

\* SelfCheckNodeResult on the output of a successful attempt.
Checked(latest) == {n \in Node : latest[n].status = "success" /\ latest[n].out = "full"}

Executed(latest) == {n \in Node : latest[n].status # "none"}

\* What is taken over: the largest set of checked nodes to which no edge leads from an
\* executed node outside it. The code finds it from the other side, adding to what has
\* to run again until nothing changes.
Reusable(latest) ==
  UNION {R \in SUBSET Checked(latest) : \A n \in R : Sources(n) \cap Executed(latest) \subseteq R}

NeedRerun(latest) == Executed(latest) \ Reusable(latest)

\* How the code finds it: what fails the check, and then, over the nodes in the graph's order,
\* whatever a node that has to run again leads to, until a pass over them all changes nothing.
Widened(latest, need, n) ==
  need \cup {m \in {n} \cap Checked(latest) : Sources(m) \cap need # {}}

Pass(latest, need) ==
  LET after[i \in 0..Len(Order)] ==
        IF i = 0 THEN need ELSE Widened(latest, after[i - 1], Order[i])
  IN after[Len(Order)]

Passes(latest) ==
  LET need[k \in 0..(Cardinality(Node) + 1)] ==
        IF k = 0 THEN Executed(latest) \ Checked(latest) ELSE Pass(latest, need[k - 1])
  IN need

\* All successors of what is reused, those of the branch a condition did not take
\* included.
Frontier(latest) ==
  {n \in Node \ Reusable(latest) : Sources(n) \cap Reusable(latest) # {}}

\* The nodes to start from, in each order the plan may list them: the graph's order,
\* or that of an iteration over a map.
Roots(latest) ==
  LET need == NeedRerun(latest)
  IN IF need # {}
     THEN {AtPlaces(Order, {i \in DOMAIN Order : Order[i] \in need /\ Sources(Order[i]) \cap need = {}})}
     ELSE SetToSeqs(Frontier(latest))

EndReusable(latest) == \E n \in Reusable(latest) : Kind[n] = "end"
==============================================================================
