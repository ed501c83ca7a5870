--------------------------- MODULE MCPermissionHub ---------------------------
(* Instances of PermissionHub for TLC.                                     *)
EXTENDS PermissionHub, TLC

CONSTANTS q1, q2, q3, k1, p1, c1

MCCalls == {q1, q2, q3}
MCOneClick == {k1}
MCSweeps == {p1}
MCOneConversation == {c1}

\* Two calls, a click and a sweep, or three calls and a click: an action constraint.
MCNarrow == pc'[q3] = "new" \/ \A p \in Sweeps : sweep'[p].at = "new"
==============================================================================
