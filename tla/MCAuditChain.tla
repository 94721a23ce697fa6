---------------------------- MODULE MCAuditChain ----------------------------
(* Instances of AuditChain for TLC: two loans of one tenant, one of another. *)
EXTENDS AuditChain, TLC

CONSTANTS car, home, other, bank, lender

MCTenantOf == [l \in {car, home, other} |-> IF l = other THEN lender ELSE bank]
MCSymmetry == Permutations(Calls) \cup Permutations({car, home})

=============================================================================
