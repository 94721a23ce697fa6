----------------------------- MODULE DecisionRun -----------------------------
(***************************************************************************)
(* What one execution of a decision flow promises, without nodes, retries, *)
(* signals or rows: it deliberates, possibly asking a human, settles on a  *)
(* verdict, stores that verdict once and announces only what it stored.    *)
(* A verdict of ESCALATE comes only out of an unanswered question.         *)
(***************************************************************************)
CONSTANT NoVerdict

VARIABLES phase, verdict, stored, announced
vars == <<phase, verdict, stored, announced>>

Automatic == {"APPROVE", "REJECT", "MANUAL_REVIEW"}

Init ==
    /\ phase = "deliberating"
    /\ verdict = "MANUAL_REVIEW"
    /\ stored = NoVerdict
    /\ announced = {}

\* The graph moves on: to another node, to a human, or to its end.
Deliberate ==
    /\ phase = "deliberating"
    /\ phase' \in {"deliberating", "asking", "settled", "stopped"}
    /\ verdict' \in Automatic \cup {verdict}
    /\ UNCHANGED <<stored, announced>>

\* The human approves (or the question is withdrawn): the verdict so far stands.
Approved ==
    /\ phase = "asking"
    /\ phase' \in {"deliberating", "settled"}
    /\ UNCHANGED <<verdict, stored, announced>>

\* The human rejects, or does not answer in time.
Rejected ==
    /\ phase = "asking"
    /\ phase' \in {"settled", "stopped"}
    /\ verdict' \in {"REJECT", "ESCALATE"}
    /\ UNCHANGED <<stored, announced>>

Store ==
    /\ phase = "settled"
    /\ stored = NoVerdict
    /\ stored' = verdict
    /\ phase' \in {"settled", "stopped"}
    /\ UNCHANGED <<verdict, announced>>

Announce ==
    /\ phase = "settled"
    /\ stored = verdict
    /\ announced' = {stored}
    /\ phase' \in {"settled", "stopped"}
    /\ UNCHANGED <<verdict, stored>>

\* The run returns, fails, is cancelled or runs out of time.
Stop ==
    /\ phase # "stopped"
    /\ phase' = "stopped"
    /\ UNCHANGED <<verdict, stored, announced>>

Next == Deliberate \/ Approved \/ Rejected \/ Store \/ Announce \/ Stop

Spec == Init /\ [][Next]_vars

=============================================================================
