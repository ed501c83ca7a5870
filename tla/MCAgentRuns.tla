----------------------------- MODULE MCAgentRuns -----------------------------
(* Instances of AgentRuns for TLC.                                         *)
EXTENDS AgentRuns, TLC

CONSTANTS a1, a2, r1, r2, r3, r4, k1

MCAgents == {a1, a2}
MCOneAgent == {a1}
MCAllSources == {"DIRECT", "SCHEDULE", "WORKFLOW", "CLONE_INIT"}
MCTwoSources == {"DIRECT", "WORKFLOW"}
MCChat == {"DIRECT"}
MCRequests == {r1, r2, r3}
MCFourRequests == {r1, r2, r3, r4}
MCStops == {k1}
MCNoStop == {}

\* Agents and requests are interchangeable in every safety property.
MCSymmetry == Permutations(Agents) \cup Permutations(Requests) \cup Permutations(Stops)

\* Two workflow nodes run the two agents and have not delegated yet: a state the
\* runs from Init reach, from which each may mention the other's agent.
MCBothRun ==
  /\ runs = (a1 :> r1 @@ a2 :> r2)
  /\ occ = (a1 :> r1 @@ a2 :> r2)
  /\ status = [g \in Agents |-> "running"]
  /\ kind = [r \in Requests |-> IF r \in {r1, r2} THEN "WORKFLOW" ELSE "DIRECT"]
  /\ agent = [r \in Requests |-> IF r = r1 THEN a1 ELSE IF r = r2 THEN a2 ELSE Nobody]
  /\ caller = [r \in Requests |-> Nobody]
  /\ pc = [r \in Requests |-> IF r \in {r1, r2} THEN "plan" ELSE "new"]
  /\ cancelled = {}
  /\ stopPc = [k \in Stops |-> "new"]
  /\ stopAgent = [k \in Stops |-> Nobody]
  /\ stopSlot = [k \in Stops |-> Nobody]
  /\ stopForce = [k \in Stops |-> FALSE]

\* Both nodes may delegate, or else one further call and one stop come.
MCNarrow ==
  \/ pc'[r4] = "new"
  \/ /\ kind'[r3] = "INVOKE"
     /\ kind'[r4] = "INVOKE"
     /\ \A k \in Stops : stopPc'[k] = "new"

MCCrossedSpec == MCBothRun /\ [][Next]_vars /\ Fairness
==============================================================================
