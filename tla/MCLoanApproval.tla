---------------------------- MODULE MCLoanApproval ----------------------------
(* Instances of LoanApproval for TLC.                                        *)
EXTENDS LoanApproval, TLC

MCFacts(kyc, signals, violations, flags) ==
    [kyc |-> kyc, signals |-> signals, violations |-> violations, flags |-> flags]

Plain     == MCFacts(TRUE, {}, {}, {})
Large     == MCFacts(TRUE, {"INCOME_RATIO_HIGH"}, {}, {"MANUAL_REVIEW"})
Huge      == MCFacts(TRUE, {"INCOME_RATIO_HIGH"}, {}, {"MANUAL_REVIEW", "ESCALATE"})
WeakScore == MCFacts(TRUE, {"LOW_CREDIT_SCORE", "INCOME_RATIO_HIGH"}, {"HIGH"}, {})
Minor     == MCFacts(TRUE, {}, {"CRITICAL"}, {})
Unknown   == MCFacts(FALSE, {"LOW_CREDIT_SCORE", "INCOME_RATIO_HIGH"}, {"CRITICAL", "HIGH"}, {})

MCApplications == {Plain, Large, Huge, WeakScore, Minor, Unknown}

=============================================================================
