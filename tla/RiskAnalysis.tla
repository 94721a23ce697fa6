---------------------------- MODULE RiskAnalysis ----------------------------
(***************************************************************************)
(* The analyses of the AI service: the rules of its deterministic analyser *)
(* (AI_MOCK_MODE), and the answers of the model it asks otherwise, which   *)
(* may be anything the tool schema lets through.                           *)
(***************************************************************************)
EXTENDS GovernanceScoring

CONSTANTS
    MockMode,   \* AI_MOCK_MODE, or no API key
    Assessments \* what the model may submit

ASSUME MockModeAssumption == MockMode \in BOOLEAN
ASSUME AssessmentsAssumption == Assessments \subseteq Analysis

Clamped(score) == Higher(0, Lower(Scale, score))

\* A rule of the analyser: the factor it reports, and what it adds to the risk.
Rule(factor, impact, weight, risk) ==
    [factor |-> factor, impact |-> impact, weight |-> weight, risk |-> risk]

CreditRule(score) ==
    CASE score >= 750                 -> Rule("credit_score", "POSITIVE", 3000, -500)
      [] score >= 680 /\ score < 750  -> Rule("credit_score", "POSITIVE", 1500, 0)
      [] score >= 580 /\ score < 680  -> Rule("credit_score", "NEGATIVE", 2000, 1500)
      [] OTHER                        -> Rule("credit_score", "NEGATIVE", 3500, 3500)

DebtRule(dti) ==
    CASE dti > 4500                -> Rule("debt_to_income_ratio", "NEGATIVE", 2500, 2500)
      [] dti > 3500 /\ dti <= 4500 -> Rule("debt_to_income_ratio", "NEGATIVE", 1000, 1000)
      [] OTHER                     -> Rule("debt_to_income_ratio", "POSITIVE", 1500, -500)

NoRule == Rule("none", "NONE", 0, 0)

EmploymentRule(employment) ==
    CASE employment = "EMPLOYED"      -> Rule("employment_stability", "POSITIVE", 1500, -500)
      [] employment = "SELF_EMPLOYED" -> Rule("employment_stability", "NEUTRAL", 1000, 500)
      [] employment = "UNEMPLOYED"    -> Rule("employment_stability", "NEGATIVE", 3000, 3000)
      [] OTHER                        -> NoRule

FraudRule(score) ==
    IF score > 5000 THEN Rule("fraud_indicators", "NEGATIVE", 2000, (3 * score) \div 10) ELSE NoRule
FlagsRule(n) ==
    IF n > 0 THEN Rule("policy_flags", "NEGATIVE", 1000, 500 * n) ELSE NoRule
KycRule(verified) ==
    IF verified THEN Rule("kyc_verified", "POSITIVE", 500, -300) ELSE NoRule

\* The payload of the AI client: what is not given counts as 0, a sanctions hit
\* is a policy flag.
PolicyFlags(request) == request.flags + IF request.sanctionsHits > 0 THEN 1 ELSE 0

\* The rules in the order in which they report.
Rules(request) ==
    <<CreditRule(request.creditScore),
      DebtRule(IF request.dti = Undefined THEN 0 ELSE request.dti),
      EmploymentRule(request.employment), FraudRule(request.fraudScore),
      FlagsRule(PolicyFlags(request)), KycRule(request.kycVerified)>>

MockAnalysis(request) ==
    LET rules == Rules(request)
        risk  == Clamped(1000 + rules[1].risk + rules[2].risk + rules[3].risk
                              + rules[4].risk + rules[5].risk + rules[6].risk)
    IN  [risk           |-> risk,
         confidence     |-> Higher(5000, Scale - (3 * risk) \div 10),
         recommendation |-> IF risk > 7500 THEN "REJECT"
                            ELSE IF risk > 5500 THEN "MANUAL_REVIEW" ELSE "APPROVE",
         adverse        |-> {[factor |-> rules[i].factor, weight |-> rules[i].weight] :
                               i \in {i \in DOMAIN rules : rules[i].impact = "NEGATIVE"}}]

Analyses(request) == IF MockMode THEN {MockAnalysis(request)} ELSE Assessments
=============================================================================
