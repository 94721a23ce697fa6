------------------------- MODULE MCDecisionPipeline -------------------------
(* Instances of DecisionPipeline for TLC.                                    *)
EXTENDS DecisionPipeline, TLC

\* A sound application, and one whose retrieval decides: it is risky enough to
\* need documents.
Sound == [creditScore |-> 720, dti |-> 3000, fraudScore |-> 0, amlRiskScore |-> 0,
          sanctionsHits |-> 0, kycVerified |-> TRUE, filled |-> 10, flags |-> 0,
          employment |-> "EMPLOYED"]
Sparse == [Sound EXCEPT !.creditScore = 550, !.dti = Undefined, !.filled = 9,
                        !.employment = "UNKNOWN"]
Unverified == [Sound EXCEPT !.kycVerified = FALSE, !.flags = 1]
Sanctioned == [Sound EXCEPT !.sanctionsHits = 1, !.fraudScore = 8000]
MCRequests == {Sound, Sparse, Unverified, Sanctioned}
MCSparse == {Sparse}

\* Enough similar documents, and a single one.
MCRetrievals == {[count |-> 8, similarity |-> 9000], [count |-> 1, similarity |-> 7200]}
MCFound == {[count |-> 1, similarity |-> 7200]}

\* A policy that allows, one that flags and does not allow, one that blocks.
Allows == [allow |-> TRUE, decision |-> "ALLOW", violations |-> << >>]
Flags == [allow |-> FALSE, decision |-> "MANUAL_REVIEW", violations |-> << >>]
Blocks == [allow |-> FALSE, decision |-> "DENY", violations |-> <<"ERROR">>]
MCEvaluations == {Allows, Blocks}
MCOpinions == {Allows, Flags, Blocks}

Approval == [risk |-> 2000, confidence |-> 9500, recommendation |-> "APPROVE", adverse |-> {}]
Rejection == [risk |-> 8000, confidence |-> 9000, recommendation |-> "REJECT",
              adverse |-> {[factor |-> "debt", weight |-> 4000]}]
MCApproval == {Approval}
MCAssessments == {Approval, Rejection}
=============================================================================
