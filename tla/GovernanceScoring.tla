------------------------- MODULE GovernanceScoring --------------------------
(***************************************************************************)
(* How the synchronous decision is computed from its evidence: the request,*)
(* what retrieval found, what the policy service answered and what the AI  *)
(* service analysed.  Scores run from 0 to Scale, which is a toFixed(4).   *)
(***************************************************************************)
EXTENDS Integers, Sequences, FiniteSets, FiniteSetsExt

CONSTANTS
    Paths,       \* the policies of the kind of decision (3, or 6 for a REVIEW)
    TopK,        \* RAG_TOP_K
    Unavailable, \* a policy evaluation that threw
    Undefined    \* a debtToIncomeRatio the request does not give

Scale == 10000
Score == 0 .. Scale
Recommendations == {"APPROVE", "REJECT", "MANUAL_REVIEW"}
Severities == {"LOW", "MEDIUM", "HIGH", "CRITICAL", "INFO", "WARNING", "ERROR"}

\* The body of a request.  A creditScore, a hit or a score of 0 stands for one
\* that is not given; filled counts the checks of computeDataCompleteness that
\* are met, kycVerified aside; flags are all the flags the AI service is given for
\* a request, sanctions hits aside.
Request == [creditScore : {0} \cup 300 .. 900, dti : Score \cup {Undefined},
            fraudScore : Score, amlRiskScore : Score, sanctionsHits : Nat,
            kycVerified : BOOLEAN, filled : 0 .. 10, flags : Nat,
            employment : {"EMPLOYED", "SELF_EMPLOYED", "UNEMPLOYED", "UNKNOWN"}]

Evaluation == [allow : BOOLEAN, decision : {"ALLOW", "DENY", "ESCALATE", "MANUAL_REVIEW"},
               violations : Seq(Severities)]
Retrieval == [count : 0 .. TopK, similarity : Score]
Analysis == [risk : Score, confidence : Score, recommendation : Recommendations,
             adverse : SUBSET [factor : STRING, weight : Score]]

ASSUME PathsAssumption == IsFiniteSet(Paths) /\ Paths # {}
ASSUME TopKAssumption == TopK \in Nat \ {0}
ASSUME UnavailableAssumption == Unavailable \notin Evaluation
ASSUME UndefinedAssumption == Undefined \notin Score

Lower(a, b) == IF a <= b THEN a ELSE b
Higher(a, b) == IF a >= b THEN a ELSE b
Rounded(num, den) == (2 * num + den) \div (2 * den)

-----------------------------------------------------------------------------
(* Evidence.                                                                *)

\* The answers that stand for a failure: no documents, whatever went wrong; the
\* denial of a policy service that cannot reach OPA; the escalating analysis.
EmptyOutput == [count |-> 0, similarity |-> 0]
OpaUnavailable == [allow |-> FALSE, decision |-> "DENY", violations |-> <<"CRITICAL">>]

\* Mutant: an AI service that is down rejects the applicant.
FallbackRejects == [risk |-> Scale, confidence |-> 8000, recommendation |-> "REJECT",
                    adverse |-> {[factor |-> "ai_service_unavailable", weight |-> Scale]}]
EscalateFallback == [risk |-> Scale, confidence |-> 0, recommendation |-> "MANUAL_REVIEW",
                     adverse |-> {[factor |-> "ai_service_unavailable", weight |-> Scale]}]

QualityScore(rag) ==
    IF rag.count = 0 THEN 0
    ELSE LET target == Higher(TopK, 2)
         IN  Rounded(4000 * Lower(2 * rag.count, target), target) + Rounded(6 * rag.similarity, 10)

Passed(answer) == answer # Unavailable /\ answer.allow

HardBlock(answer) ==
    /\ answer # Unavailable
    /\ answer.decision = "DENY"
    /\ \E i \in DOMAIN answer.violations : answer.violations[i] = "ERROR"

\* policyFailures: one for each violation of a policy that did not pass, and one
\* for an evaluation that threw.
Failures(policies) ==
    UNION {{p} \X (IF policies[p] = Unavailable THEN {1} ELSE DOMAIN policies[p].violations) :
             p \in {q \in Paths : ~Passed(policies[q])}}
AllPassed(policies) == Failures(policies) = {}

HardBlocked(policies) == \E p \in Paths : ~Passed(policies[p]) /\ HardBlock(policies[p])

-----------------------------------------------------------------------------
(* ConfidenceScorer.                                                        *)

NegativeSignals(request, policies, ai) ==
    {[signal |-> f.factor, value |-> f.weight, weight |-> 35] : f \in ai.adverse}
      \cup {[signal |-> "credit_score", value |-> request.creditScore * Scale, weight |-> 25] :
              x \in {x \in {request.creditScore} : x # 0 /\ x < 600}}
      \cup {[signal |-> "debt_to_income_ratio", value |-> x, weight |-> 20] :
              x \in {x \in {request.dti} \ {Undefined} : x >= 5000}}
      \cup {[signal |-> "fraud_risk", value |-> x, weight |-> 30] :
              x \in {x \in {request.fraudScore} : x > 6000}}
      \cup {[signal |-> "aml_risk", value |-> x, weight |-> 35] :
              x \in {x \in {request.amlRiskScore} : x > 3000}}
      \cup {[signal |-> "sanctions_hits", value |-> x * Scale, weight |-> 100] :
              x \in {request.sanctionsHits} \ {0}}
      \cup {[signal |-> "kyc_not_verified", value |-> Scale, weight |-> 40] :
              x \in {request.kycVerified} \ {TRUE}}
      \cup {[signal |-> "policy_violations", value |-> x * Scale, weight |-> 50] :
              x \in {Cardinality(Failures(policies))} \ {0}}

\* The values of the signals are no scores: a credit score below 600, or two
\* hits, already saturate the weighted mean.
RiskScore(request, policies, ai) ==
    LET negative == NegativeSignals(request, policies, ai)
        weights  == MapThenSumSet(LAMBDA s : s.weight, negative)
        total    == MapThenSumSet(LAMBDA s : s.value * s.weight, negative)
        policy   == IF HardBlocked(policies) THEN Scale
                    ELSE Lower(1000 * Cardinality(Failures(policies)), Scale)
    IN  IF negative = {} THEN Rounded(45 * ai.risk + 20 * policy, 100)
        ELSE Rounded(45 * ai.risk * weights + 35 * Lower(total, Scale * weights)
                       + 20 * policy * weights, 100 * weights)

DataCompleteness(request) ==
    Rounded(Scale * (request.filled + IF request.kycVerified THEN 1 ELSE 0), 11)

PolicyConfidence(policies) ==
    IF HardBlocked(policies) THEN 0
    ELSE Rounded(Scale * Cardinality({p \in Paths : Passed(policies[p])}), Cardinality(Paths))

\* Mutant: the quality of the retrieval counts against the decision.
CompositeAgainstRetrieval(e) ==
    Lower(Rounded(40 * e.ai.confidence + 25 * PolicyConfidence(e.policies)
                    + 15 * (Scale - QualityScore(e.rag)) + 20 * DataCompleteness(e.request), 100), Scale)
CompositeConfidence(e) ==
    Lower(Rounded(40 * e.ai.confidence + 25 * PolicyConfidence(e.policies)
                    + 15 * QualityScore(e.rag) + 20 * DataCompleteness(e.request), 100), Scale)

EscalationReasons(e) ==
    LET confidence == CompositeConfidence(e)
        hardBlocked == HardBlocked(e.policies)
    IN {reason \in {"LOW_CONFIDENCE", "POLICY_CONFLICT", "MISSING_DATA", "HIGH_AML_RISK",
                    "SANCTIONS_PROXIMITY", "UNUSUAL_PATTERN", "HARD_POLICY_VIOLATION",
                    "RETRIEVAL_FAILURE"} :
          \/ reason = "LOW_CONFIDENCE" /\ (confidence < 7500 \/ e.ai.confidence = 0)
          \/ /\ reason = "POLICY_CONFLICT"
             /\ hardBlocked /\ ~AllPassed(e.policies) /\ confidence > 5000
          \/ /\ reason = "MISSING_DATA"
             /\ DataCompleteness(e.request) < 6000 \/ ~e.request.kycVerified
          \/ reason = "HIGH_AML_RISK" /\ e.request.amlRiskScore > 7000
          \/ reason = "SANCTIONS_PROXIMITY" /\ e.request.sanctionsHits > 0
          \/ reason = "UNUSUAL_PATTERN" /\ e.request.fraudScore > 7500
          \/ reason = "HARD_POLICY_VIOLATION" /\ hardBlocked
          \/ /\ reason = "RETRIEVAL_FAILURE"
             /\ e.rag.count = 0 /\ RiskScore(e.request, e.policies, e.ai) > 5000}

\* Mutant: what escalates is only noted.
FinalDecisionIgnoresEscalation(e) ==
    IF HardBlocked(e.policies) THEN "REJECT"
    ELSE IF ~AllPassed(e.policies) THEN "MANUAL_REVIEW" ELSE e.ai.recommendation
FinalDecision(e) ==
    IF HardBlocked(e.policies) THEN "REJECT"
    ELSE IF EscalationReasons(e) # {} THEN "MANUAL_REVIEW"
    ELSE IF ~AllPassed(e.policies) THEN "MANUAL_REVIEW" ELSE e.ai.recommendation

-----------------------------------------------------------------------------
(* Evidence, compared.                                                      *)

\* d is e where e's services answered; where they failed, d may know more.
Completes(d, e) ==
    /\ d.request = e.request
    /\ e.rag = EmptyOutput \/ d.rag = e.rag
    /\ \A p \in Paths : e.policies[p] = Unavailable \/ d.policies[p] = e.policies[p]
    /\ e.ai = EscalateFallback \/ d.ai = e.ai
=============================================================================
