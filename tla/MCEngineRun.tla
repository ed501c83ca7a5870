----------------------------- MODULE MCEngineRun -----------------------------
EXTENDS EngineRun

CONSTANTS q1, q2, plan

MCAsks == {q1, q2, plan}
MCTalk == {q1, q2}
MCLight == {plan}
MCThreads == 1..4
MCEngines == {"claude", "codex", "cursor", "home"}
MCCodex == {"codex"}

\* q2 follows q1, or a planning call runs beside q1; a thread is lost between two asks,
\* and the chat is cleared under one engine.
MCNarrow ==
  /\ (\/ run[plan].at = "new" /\ (run[q2].at = "new" \/ run[q1].at = "done")
      \/ run[q2].at = "new" /\ engine = "claude" /\ lost = {})'
  /\ (clear # "no" => engine = "claude" /\ run[plan].at = "new")'
  /\ lost' \subseteq lost \/ (lost' = {session} /\ \A q \in Asks : ~Active(q))
==============================================================================
