-------------------------- MODULE MCDecisionGraph --------------------------
(* Instances of DecisionGraph for TLC: small snapshots and bounds.          *)
EXTENDS DecisionGraph, TLC

\* A snapshot from a function of nodes to <<kind, next, other>>; every node the
\* graph does not use is an END without edges.
MCSnapshot(entry, g) ==
    [entry |-> entry,
     kind  |-> [n \in Nodes |-> IF n \in DOMAIN g THEN g[n][1] ELSE "END"],
     next  |-> [n \in Nodes |-> IF n \in DOMAIN g THEN g[n][2] ELSE NoNode],
     other |-> [n \in Nodes |-> IF n \in DOMAIN g THEN g[n][3] ELSE {}]]

MCNodes == {"a", "b", "c", "end"}

\* SCORE, two gates in a row, then a SCORE again at the end of the line.
TwoGates == MCSnapshot("a", [a |-> <<"GATE", "b", {}>>, b |-> <<"GATE", "c", {}>>,
                             c |-> <<"SCORE", "end", {}>>])

\* A gate whose successors lead back to it, a hard block and a dangling edge.
Cyclic == MCSnapshot("a", [a |-> <<"RULE", "b", {"c", NoNode}>>, b |-> <<"GATE", "c", {}>>,
                           c |-> <<"AI", "a", {"b", "c"}>>])

MCTwoGates == {TwoGates}
MCCyclic == {Cyclic}
MCSymmetry == Permutations(Approvals) \cup Permutations(Reviewers)

=============================================================================
