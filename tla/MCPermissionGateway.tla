------------------------- MODULE MCPermissionGateway -------------------------
(* Instances of PermissionGateway for TLC.                                 *)
EXTENDS PermissionGateway, FiniteSets, Naturals, TLC

CONSTANTS h1, h2, c1, v1, g1

MCHooks == {h1, h2}
MCBoth == {c1, v1}
MCVisitors == {v1}
MCAgents == {g1}

\* One action for each combination of traits the rules tell apart.
MCAllActions == {"mkfs", "read", "edit", "rm", "find_delete", "fetch", "curl", "browse",
                 "query", "edit_outside", "build", "build_more"}

MCAllTraits ==
  [ mkfs |-> {"hard", "effect"}, read |-> {"safe"}, edit |-> {"write", "effect"},
    rm |-> {"rm", "delete", "effect"}, find_delete |-> {"delete", "effect"},
    fetch |-> {"fetch"}, curl |-> {"network", "effect"}, browse |-> {"browser", "effect"},
    query |-> {}, edit_outside |-> {"write", "outside", "effect"}, build |-> {"effect"},
    build_more |-> {"effect"} ]
MCTraits == [a \in Actions |-> MCAllTraits[a]]

\* A compound command and its first part.
MCSignature == [a \in Actions |-> IF a = "build_more" THEN "build" ELSE a]

\* Each permission granted and withheld, alone and with another one.
MCPolicies == {{}, {"network", "rm"}, {"write", "network"}}
MCAlone == Cardinality({h \in Hooks : call[h] # Nothing}) <= 1

\* One call of anything, or two calls of the nested commands of one conversation: an
\* action constraint.
MCNarrow ==
  \/ MCAlone'
  \/ /\ flags' = {}
     /\ policy'[g1] = {}
     /\ \A h \in Hooks : call'[h] # Nothing =>
          /\ call'[h].action \in {"build", "build_more"}
          /\ call'[h].conv = c1
          /\ call'[h].agent = Nothing
==============================================================================
