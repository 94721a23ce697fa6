---------------------------- MODULE FlowService ----------------------------
(* The transitions of flows: createFlow, publishFlow and deprecateFlow of    *)
(* FlowService over the repository. Publishing and deprecating load a copy   *)
(* of the flow, judge the transition on it and write afterwards, without a   *)
(* lock or a version check. A flow has one version for life (no statement    *)
(* updates the column), so UNIQUE (flow_id, version) allows one snapshot.    *)
CONSTANTS Flows, Snapshots, Editors, NoFlow

ASSUME NoFlowAssumption == NoFlow \notin Flows

VARIABLES
    status,     \* decision_flows.status
    snapshots,  \* flow_snapshots.flow_id
    edit        \* an editor's call: what it is about to write to the flow it loaded

vars == <<status, snapshots, edit>>

NoEdit == [stage |-> "idle", flow |-> NoFlow]

Released == {"PUBLISHED", "DEPRECATED"}

SnapshotsOf(f) == {s \in Snapshots : snapshots[s] = f}

Init ==
    /\ status = [f \in Flows |-> "ABSENT"]
    /\ snapshots = [s \in Snapshots |-> NoFlow]
    /\ edit = [e \in Editors |-> NoEdit]

CreateFlow(f) ==
    /\ status[f] = "ABSENT"
    /\ status' = [status EXCEPT ![f] = "DRAFT"]
    /\ UNCHANGED <<snapshots, edit>>

(* publishFlow refuses a published copy, not a deprecated one.               *)
LoadToPublish(e, f) ==
    /\ edit[e] = NoEdit
    /\ status[f] \notin {"ABSENT", "PUBLISHED"}
    /\ edit' = [edit EXCEPT ![e] = [stage |-> "publishing", flow |-> f]]
    /\ UNCHANGED <<status, snapshots>>

LoadToDeprecate(e, f) ==
    /\ edit[e] = NoEdit
    /\ status[f] = "PUBLISHED"
    /\ edit' = [edit EXCEPT ![e] = [stage |-> "deprecating", flow |-> f]]
    /\ UNCHANGED <<status, snapshots>>

\* Mutant: without the unique index.
MayInsertSnapshotAgain(f) == SnapshotsOf(NoFlow) # {}

(* UNIQUE (flow_id, version) has no row of the flow.                         *)
MayInsertSnapshot(f) == SnapshotsOf(f) = {}

(* One transaction: the snapshot, and the new status whatever the old one.   *)
Publish(e) ==
    /\ edit[e].stage = "publishing"
    /\ MayInsertSnapshot(edit[e].flow)
    /\ \E s \in SnapshotsOf(NoFlow) : snapshots' = [snapshots EXCEPT ![s] = edit[e].flow]
    /\ status' = [status EXCEPT ![edit[e].flow] = "PUBLISHED"]
    /\ edit' = [edit EXCEPT ![e] = NoEdit]

(* The copy is saved over the row.                                           *)
Deprecate(e) ==
    /\ edit[e].stage = "deprecating"
    /\ status' = [status EXCEPT ![edit[e].flow] = "DEPRECATED"]
    /\ edit' = [edit EXCEPT ![e] = NoEdit]
    /\ UNCHANGED snapshots

(* A statement is refused or fails, the transaction is rolled back.          *)
EditFails(e) ==
    /\ edit[e] # NoEdit
    /\ edit' = [edit EXCEPT ![e] = NoEdit]
    /\ UNCHANGED <<status, snapshots>>

Editor(e) ==
    \/ \E f \in Flows : LoadToPublish(e, f) \/ LoadToDeprecate(e, f)
    \/ Publish(e) \/ Deprecate(e) \/ EditFails(e)

Next ==
    \/ \E f \in Flows : CreateFlow(f)
    \/ \E e \in Editors : Editor(e)

Spec == Init /\ [][Next]_vars

-----------------------------------------------------------------------------
(* Properties.                                                               *)

(* The inductive invariant: types, one snapshot for what has been published, *)
(* and what a loaded copy still says of its flow.                            *)
Life == INSTANCE FlowLife

CopiesLag ==
    \A e \in Editors :
        /\ edit[e].stage = "publishing" => status[edit[e].flow] # "ABSENT"
        /\ edit[e].stage = "deprecating" => status[edit[e].flow] \in Released

FlowInv ==
    /\ Life!TypeOK
    /\ edit \in [Editors -> {NoEdit} \cup [stage : {"publishing", "deprecating"}, flow : Flows]]
    /\ Life!PublishedOnce
    /\ CopiesLag

(* However publications and deprecations of stale copies interleave, a flow  *)
(* is published once and never returns from DEPRECATED, and has the snapshot *)
(* its status tells of.                                                      *)
LifeSpec == Life!Spec

=============================================================================
