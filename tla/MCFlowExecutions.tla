-------------------------- MODULE MCFlowExecutions --------------------------
(* Instances of FlowExecutions for TLC.                                      *)
EXTENDS FlowExecutions, TLC

MCSymmetry ==
    Permutations(Flows) \cup Permutations(Snapshots) \cup Permutations(Executions) \cup Permutations(Clients)

=============================================================================
