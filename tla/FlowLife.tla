------------------------------ MODULE FlowLife ------------------------------
(* What the tables of flows promise: a flow is drafted, published and        *)
(* deprecated, in this order and once each; publishing stores a snapshot,    *)
(* which stays. FlowService implements it, FlowExecutions builds on it.      *)
CONSTANTS Flows, Snapshots, NoFlow

VARIABLES
    status,    \* decision_flows.status
    snapshots  \* flow_snapshots.flow_id

vars == <<status, snapshots>>

Released == {"PUBLISHED", "DEPRECATED"}

SnapshotsOf(f) == {s \in Snapshots : snapshots[s] = f}

Init ==
    /\ status = [f \in Flows |-> "ABSENT"]
    /\ snapshots = [s \in Snapshots |-> NoFlow]

Draft(f) ==
    /\ status[f] = "ABSENT"
    /\ status' = [status EXCEPT ![f] = "DRAFT"]
    /\ UNCHANGED snapshots

Publish(f) ==
    /\ status[f] = "DRAFT"
    /\ status' = [status EXCEPT ![f] = "PUBLISHED"]
    /\ \E s \in SnapshotsOf(NoFlow) : snapshots' = [snapshots EXCEPT ![s] = f]

Deprecate(f) ==
    /\ status[f] = "PUBLISHED"
    /\ status' = [status EXCEPT ![f] = "DEPRECATED"]
    /\ UNCHANGED snapshots

Next == \E f \in Flows : Draft(f) \/ Publish(f) \/ Deprecate(f)

Spec == Init /\ [][Next]_vars

TypeOK ==
    /\ status \in [Flows -> {"ABSENT", "DRAFT"} \cup Released]
    /\ snapshots \in [Snapshots -> Flows \cup {NoFlow}]

(* A flow that has been published has exactly one snapshot, any other none.  *)
PublishedOnce ==
    \A f \in Flows :
        /\ status[f] \in Released <=> SnapshotsOf(f) # {}
        /\ \A s, t \in SnapshotsOf(f) : s = t

=============================================================================
