---------------------------- MODULE PermissionGate ----------------------------
(***************************************************************************)
(* What the permission hub promises to the hook of an engine: a tool call  *)
(* that needs a person's approval gets one answer, the answer is "allow"   *)
(* only if "allow" is what was decided first, and neither the decision nor *)
(* the answer is ever taken back.  Everything else (no decision in time, a *)
(* dropped connection, a call nobody knows any more) is a refusal.         *)
(***************************************************************************)
CONSTANT Calls    \* tool calls that ask for an approval

VARIABLES
  decision,       \* what was decided first: "none", "allow" or "deny"
  answer          \* what the hook was told: "none", "allow" or "deny"

gateVars == <<decision, answer>>

Init ==
  /\ decision = [r \in Calls |-> "none"]
  /\ answer = [r \in Calls |-> "none"]

Decide(r, b) ==
  /\ decision[r] = "none"
  /\ decision' = [decision EXCEPT ![r] = b]
  /\ UNCHANGED answer

Allow(r) ==
  /\ answer[r] = "none"
  /\ decision[r] = "allow"
  /\ answer' = [answer EXCEPT ![r] = "allow"]
  /\ UNCHANGED decision

Refuse(r) ==
  /\ answer[r] = "none"
  /\ answer' = [answer EXCEPT ![r] = "deny"]
  /\ UNCHANGED decision

Next ==
  \E r \in Calls :
    \/ \E b \in {"allow", "deny"} : Decide(r, b)
    \/ Allow(r)
    \/ Refuse(r)

Spec == Init /\ [][Next]_gateVars
==============================================================================
