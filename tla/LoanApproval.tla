----------------------------- MODULE LoanApproval -----------------------------
(***************************************************************************)
(* One loan application, from the requests that submit it under one        *)
(* idempotency key to its decision: the POST /loans handler of the         *)
(* gateway, loanApprovalWorkflow (a Temporal workflow), the activities it  *)
(* awaits, and the reviewers who signal it through POST /loans/:id/approval.*)
(*                                                                         *)
(* The workflow is a script of activity calls per phase; phases follow one *)
(* another as the workflow's conditions say.  An activity attempt may be   *)
(* lost before, between or after its writes, and is then made again,       *)
(* MaxAttempts times in all.  A workflow that runs out of attempts fails:  *)
(* it has no catch block.                                                  *)
(***************************************************************************)
EXTENDS Naturals, FiniteSets, Sequences

CONSTANTS
    Requests,      \* submissions (first tries and retries) with the same key
    Applications,  \* the applications a customer may submit
    MaxAttempts,   \* retry.maximumAttempts of the activity proxy
    OpaMayFail     \* whether OPA may be out of reach

\* What the decision depends on in an application: verified identity, signals of
\* runFraudAnalysis, and the severities of violations and required actions of
\* flags that approval.rego finds in it.
ApplicationFacts == [kyc : BOOLEAN,
                     signals : SUBSET {"LOW_CREDIT_SCORE", "INCOME_RATIO_HIGH"},
                     violations : SUBSET {"CRITICAL", "HIGH"},
                     flags : SUBSET {"MANUAL_REVIEW", "ESCALATE"}]

ASSUME RequestsAssumption == IsFiniteSet(Requests)
ASSUME ApplicationsAssumption ==
    /\ Applications \subseteq ApplicationFacts
    /\ \A a \in Applications :
        /\ ~a.kyc => "CRITICAL" \in a.violations
        /\ "LOW_CREDIT_SCORE" \in a.signals => "HIGH" \in a.violations
        /\ "ESCALATE" \in a.flags => "MANUAL_REVIEW" \in a.flags
ASSUME AttemptsAssumption == MaxAttempts \in Nat \ {0}
ASSUME OpaAssumption == OpaMayFail \in BOOLEAN

VARIABLES
    application,   \* the submitted application
    request,       \* where each submission stands in the handler
    loans,         \* loan_requests rows with the key, by the request that created them
    loan,          \* status column of the row
    run,           \* the workflow_runs row
    status,        \* the Temporal run
    phase, at,     \* the call the workflow awaits: Script[phase][at]
    attempt, part, \* attempt number of that activity, and how far it has come
    foundRun,      \* finalizeDecision: workflowRun?.id, read before its writes
    policy,        \* policyResult
    fraudScore,    \* fraudResult.fraudScore, in tenths
    ai,            \* aiResult
    signal,        \* humanApprovalDecision
    approval,      \* the answer the gate took
    decisions,     \* loan_decisions rows
    approvals,     \* number of approval_records rows
    audit, events, artifacts  \* records, Kafka events and MinIO objects

gatewayVars  == <<application, request, loans>>
positionVars == <<status, phase, at, attempt, part>>
resultVars   == <<policy, fraudScore, ai, foundRun>>
humanVars    == <<signal, approval>>
recordVars   == <<decisions, approvals, audit, events, artifacts>>
vars == <<gatewayVars, loan, run, positionVars, resultVars, humanVars, recordVars>>

NoRun  == [status |-> "ABSENT", step |-> "NONE", loanStatus |-> "NONE"]
NoneYet == "NONE"
Stages == {"new", "missed", "stored", "started", "recorded", "accepted", "replayed", "failed"}

Steps == {"VALIDATE_REQUEST", "EVALUATE_POLICY", "FRAUD_ANALYSIS", "AI_RISK_ANALYSIS",
          "HUMAN_APPROVAL", "FINALIZE_DECISION"}
LoanStatuses == {"ABSENT", "PENDING", "APPROVED", "REJECTED", "ESCALATED"}

Init ==
    /\ application \in Applications
    /\ request = [r \in Requests |-> "new"]
    /\ loans = {} /\ loan = "ABSENT" /\ run = NoRun
    /\ status = "UNSTARTED" /\ phase = "intake" /\ at = 1
    /\ attempt = 1 /\ part = "called"
    /\ policy = [allow |-> FALSE, decision |-> NoneYet, flags |-> {}]
    /\ fraudScore = 0 /\ ai = [highRisk |-> FALSE, recommendation |-> NoneYet]
    /\ foundRun = FALSE
    /\ signal = NoneYet /\ approval = NoneYet
    /\ decisions = {} /\ approvals = 0
    /\ audit = {} /\ events = {} /\ artifacts = {}

-----------------------------------------------------------------------------
(* POST /loans: five round trips, each of which may be the last.            *)

\* findUnique by idempotencyKey: an existing row is answered with 200 at once.
LookUp(r) ==
    /\ request[r] = "new"
    /\ request' = [request EXCEPT ![r] = IF loans # {} THEN "replayed" ELSE "missed"]
    /\ UNCHANGED <<application, loans, loan, run, positionVars, resultVars, humanVars, recordVars>>

\* Mutant: no unique index on idempotency_key.
CreateLoanUnchecked(r) ==
    /\ request[r] = "missed"
    /\ loans' = loans \cup {r} /\ loan' = "PENDING"
    /\ request' = [request EXCEPT ![r] = "stored"]
    /\ UNCHANGED <<application, run, positionVars, resultVars, humanVars, recordVars>>

\* loanRequest.create, under the unique index on idempotency_key.
CreateLoan(r) ==
    /\ request[r] = "missed"
    /\ IF loans = {}
       THEN /\ loans' = {r} /\ loan' = "PENDING"
            /\ request' = [request EXCEPT ![r] = "stored"]
       ELSE /\ request' = [request EXCEPT ![r] = "failed"]
            /\ UNCHANGED <<loans, loan>>
    /\ UNCHANGED <<application, run, positionVars, resultVars, humanVars, recordVars>>

StartWorkflow(r) ==
    /\ request[r] = "stored"
    /\ request' = [request EXCEPT ![r] = "started"]
    /\ status' = "RUNNING"
    /\ UNCHANGED <<application, loans, loan, run, phase, at, attempt, part,
                   resultVars, humanVars, recordVars>>

\* workflowRun.create: after the workflow was started, so the two race.
RecordRun(r) ==
    /\ request[r] = "started"
    /\ request' = [request EXCEPT ![r] = "recorded"]
    /\ run' = [NoRun EXCEPT !.status = "RUNNING"]
    /\ UNCHANGED <<application, loans, loan, positionVars, resultVars, humanVars, recordVars>>

\* The awaited publish of LOAN_REQUEST_SUBMITTED, then 202.
AnnounceSubmission(r) ==
    /\ request[r] = "recorded"
    /\ request' = [request EXCEPT ![r] = "accepted"]
    /\ events' = events \cup {[type |-> "LOAN_REQUEST_SUBMITTED", decision |-> NoneYet]}
    /\ UNCHANGED <<application, loans, loan, run, positionVars, resultVars, humanVars,
                   decisions, approvals, audit, artifacts>>

\* The handler throws (a dependency is down) or the gateway stops: 500 or nothing.
RequestFails(r) ==
    /\ request[r] \in {"missed", "stored", "started", "recorded"}
    /\ request' = [request EXCEPT ![r] = "failed"]
    /\ UNCHANGED <<application, loans, loan, run, positionVars, resultVars, humanVars, recordVars>>

Gateway == \E r \in Requests :
    LookUp(r) \/ CreateLoan(r) \/ StartWorkflow(r) \/ RecordRun(r)
    \/ AnnounceSubmission(r) \/ RequestFails(r)

-----------------------------------------------------------------------------
(* approval.rego and evaluateOpaPolicy.                                     *)

Allow(a) == a.violations = {} /\ "MANUAL_REVIEW" \notin a.flags
Deny(a)  == "CRITICAL" \in a.violations

\* The values the complete rule `decision` is given; OPA reports a conflict when
\* there is more than one.
RuledDecisions(a) ==
    {d \in {"DENY", "ALLOW", "ESCALATE", "MANUAL_REVIEW"} :
        \/ d = "DENY" /\ Deny(a)
        \/ d = "ALLOW" /\ Allow(a) /\ ~Deny(a)
        \/ d = "ESCALATE" /\ "ESCALATE" \in a.flags /\ ~Deny(a)
        \/ d = "MANUAL_REVIEW" /\ ~Allow(a) /\ ~Deny(a)}

\* Fail-closed: what the policy service answers when OPA does not.
Unavailable == [allow |-> FALSE, decision |-> "DENY", flags |-> {}]

PolicyAnswers(a) ==
    LET Ruled == {[allow |-> Allow(a), decision |-> d, flags |-> a.flags] : d \in RuledDecisions(a)}
    IN  IF Cardinality(RuledDecisions(a)) > 1 THEN {Unavailable}
        ELSE Ruled \cup (IF OpaMayFail THEN {Unavailable} ELSE {})

\* runFraudAnalysis, in tenths: 0.1 + 0.2 + 0.3 + 0.3.
FraudScore(a) == 1 + (IF "LOW_CREDIT_SCORE" \in a.signals THEN 2 ELSE 0)
                   + (IF "INCOME_RATIO_HIGH" \in a.signals THEN 3 ELSE 0)
                   + (IF a.kyc THEN 0 ELSE 3)

\* Mutant: the threshold of isSuspicious.
IsCriticalFraudAboveHalf(score) == score > 5

\* fraudScore > 0.9 in doubles: the sum of all four terms is 0.9000000000000001.
IsCriticalFraud(score) == score >= 9

AIResults == [highRisk : BOOLEAN, recommendation : {"APPROVE", "REJECT", "MANUAL_REVIEW"}]

\* Mutant: the policy's flags are not looked at.
NeedsHumanIgnoringFlags == ai.highRisk \/ ai.recommendation = "MANUAL_REVIEW"

NeedsHuman == \/ ai.highRisk
              \/ "MANUAL_REVIEW" \in policy.flags
              \/ ai.recommendation = "MANUAL_REVIEW"

-----------------------------------------------------------------------------
(* loanApprovalWorkflow.                                                    *)

Script ==
    [intake     |-> << <<"step", "VALIDATE_REQUEST">>, <<"event", "WORKFLOW_STEP_STARTED">>,
                       <<"call", "validateLoanRequest">> >>,
     invalid    |-> << <<"audit", "WORKFLOW_STEP_FAILED">>, <<"finalize", "decision">> >>,
     policy     |-> << <<"step", "VALIDATE_REQUEST">>, <<"step", "EVALUATE_POLICY">>,
                       <<"event", "WORKFLOW_STEP_STARTED">>, <<"call", "evaluatePolicy">>,
                       <<"audit", "POLICY_EVALUATED">>, <<"event", "POLICY_EVALUATED">> >>,
     denied     |-> << <<"step", "EVALUATE_POLICY">>, <<"finalize", "decision">> >>,
     fraud      |-> << <<"step", "EVALUATE_POLICY">>, <<"step", "FRAUD_ANALYSIS">>,
                       <<"call", "runFraudAnalysis">>, <<"audit", "FRAUD_ANALYSIS_COMPLETED">>,
                       <<"step", "FRAUD_ANALYSIS">> >>,
     fraudulent |-> << <<"finalize", "decision">> >>,
     analysis   |-> << <<"step", "AI_RISK_ANALYSIS">>, <<"event", "WORKFLOW_STEP_STARTED">>,
                       <<"call", "runAIRiskAnalysis">>, <<"audit", "AI_DECISION_MADE">>,
                       <<"event", "AI_DECISION_MADE">>, <<"artifact", "ai-decision">>,
                       <<"step", "AI_RISK_ANALYSIS">> >>,
     human      |-> << <<"step", "HUMAN_APPROVAL">>, <<"audit", "HUMAN_APPROVAL_REQUESTED">>,
                       <<"event", "HUMAN_APPROVAL_REQUESTED">>, <<"call", "requestHumanApproval">>,
                       <<"gate", "answer">> >>,
     expired    |-> << <<"audit", "HUMAN_APPROVAL_RECEIVED">>, <<"finalize", "decision">> >>,
     reviewed   |-> << <<"audit", "HUMAN_APPROVAL_RECEIVED">>, <<"step", "HUMAN_APPROVAL">>,
                       <<"finalize", "decision">>, <<"audit", "LOAN_DECIDED">>,
                       <<"event", "WORKFLOW_COMPLETED">> >>,
     automatic  |-> << <<"step", "FINALIZE_DECISION">>, <<"finalize", "decision">>,
                       <<"audit", "LOAN_DECIDED">>, <<"artifact", "workflow-snapshot">>,
                       <<"event", "WORKFLOW_COMPLETED">>, <<"step", "FINALIZE_DECISION">> >>]

Phases   == DOMAIN Script
Branches == {"intake", "policy", "fraud", "analysis", "human"}
Deciding == Phases \ Branches

\* What each deciding phase passes to finalizeDecision.
Verdict ==
    CASE phase \in {"invalid", "denied", "fraudulent"} -> [status |-> "REJECTED", by |-> "POLICY"]
      [] phase = "expired"   -> [status |-> "ESCALATED", by |-> "SYSTEM"]
      [] phase = "reviewed"  -> [status |-> IF approval = "APPROVE" THEN "APPROVED" ELSE "REJECTED",
                                 by |-> "HUMAN"]
      [] phase = "automatic" -> [status |-> IF ai.recommendation = "APPROVE" THEN "APPROVED" ELSE "REJECTED",
                                 by |-> "AI"]

\* The workflow's conditions at the end of a branching phase.
Branch ==
    CASE phase = "intake"   -> IF application.kyc THEN "policy" ELSE "invalid"
      [] phase = "policy"   -> IF ~policy.allow /\ policy.decision = "DENY" THEN "denied" ELSE "fraud"
      [] phase = "fraud"    -> IF IsCriticalFraud(fraudScore) THEN "fraudulent" ELSE "analysis"
      [] phase = "analysis" -> IF NeedsHuman THEN "human" ELSE "automatic"

Call == Script[phase][at]
Awaits(kind) == status = "RUNNING" /\ Call[1] = kind /\ part = "called"
AwaitsCall(name) == Awaits("call") /\ Call[2] = name

\* The workflow goes on to the next call: of this phase, of another, or returns.
Enter(p) == phase' = p /\ at' = 1 /\ UNCHANGED status
Advance ==
    /\ attempt' = 1 /\ part' = "called"
    /\ \/ at < Len(Script[phase]) /\ at' = at + 1 /\ UNCHANGED <<phase, status>>
       \/ at = Len(Script[phase]) /\ phase \in Branches /\ Enter(Branch)
       \/ at = Len(Script[phase]) /\ phase \in Deciding /\ status' = "RETURNED" /\ UNCHANGED <<phase, at>>

\* The attempt's answer reaches the workflow.
AttemptCompletes ==
    /\ status = "RUNNING" /\ part = "done"
    /\ Advance
    /\ UNCHANGED <<gatewayVars, loan, run, resultVars, humanVars, recordVars>>

\* Mutant: retries without maximumAttempts.
AttemptFailsForever ==
    /\ status = "RUNNING" /\ Call[1] # "gate"
    /\ part' = "called"
    /\ UNCHANGED <<gatewayVars, loan, run, status, phase, at, attempt, resultVars, humanVars, recordVars>>

\* The attempt throws, times out or loses its worker, wherever it stands.
AttemptFails ==
    /\ status = "RUNNING" /\ Call[1] # "gate"
    /\ part' = "called"
    /\ IF attempt < MaxAttempts
       THEN attempt' = attempt + 1 /\ UNCHANGED status
       ELSE status' = "FAILED" /\ UNCHANGED attempt
    /\ UNCHANGED <<gatewayVars, loan, run, phase, at, resultVars, humanVars, recordVars>>

Done == part' = "done" /\ UNCHANGED <<status, phase, at, attempt, gatewayVars, loan, humanVars>>

-----------------------------------------------------------------------------
(* The activities.                                                          *)

\* updateMany: nothing happens when the run is not recorded (yet).
UpdateWorkflowStep ==
    /\ Awaits("step") /\ Done
    /\ run' = IF run = NoRun THEN run ELSE [run EXCEPT !.step = Call[2]]
    /\ UNCHANGED <<resultVars, recordVars>>

\* The workflow's two closing entries carry the decision.
Entry(type) ==
    [type     |-> IF type # "LOAN_DECIDED" THEN type
                  ELSE IF Verdict.status = "APPROVED" THEN "LOAN_APPROVED" ELSE "LOAN_REJECTED",
     decision |-> IF type \in {"LOAN_DECIDED", "WORKFLOW_COMPLETED"} THEN Verdict.status ELSE NoneYet]

PublishWorkflowEvent ==
    /\ Awaits("event") /\ Done
    /\ events' = events \cup {Entry(Call[2])}
    /\ UNCHANGED <<run, resultVars, decisions, approvals, audit, artifacts>>

StoreAuditRecord ==
    /\ Awaits("audit") /\ Done
    /\ audit' = audit \cup {Entry(Call[2])}
    /\ UNCHANGED <<run, resultVars, decisions, approvals, events, artifacts>>

PersistArtifacts ==
    /\ Awaits("artifact") /\ Done
    /\ artifacts' = artifacts \cup {Call[2]}
    /\ UNCHANGED <<run, resultVars, decisions, approvals, audit, events>>

ValidateLoanRequest ==
    /\ AwaitsCall("validateLoanRequest") /\ Done
    /\ UNCHANGED <<run, resultVars, recordVars>>

EvaluatePolicy ==
    /\ AwaitsCall("evaluatePolicy") /\ Done
    /\ policy' \in PolicyAnswers(application)
    /\ UNCHANGED <<run, fraudScore, ai, foundRun, recordVars>>

RunFraudAnalysis ==
    /\ AwaitsCall("runFraudAnalysis") /\ Done
    /\ fraudScore' = FraudScore(application)
    /\ UNCHANGED <<run, policy, ai, foundRun, recordVars>>

RunAIRiskAnalysis ==
    /\ AwaitsCall("runAIRiskAnalysis") /\ Done
    /\ ai' \in AIResults
    /\ UNCHANGED <<run, policy, fraudScore, foundRun, recordVars>>

\* approvalRecord.create: without a run row the random workflow_run_id violates
\* the foreign key, and the attempt can only fail.
RequestHumanApproval ==
    /\ AwaitsCall("requestHumanApproval") /\ run # NoRun /\ Done
    /\ approvals' = approvals + 1
    /\ UNCHANGED <<run, resultVars, decisions, audit, events, artifacts>>

\* finalizeDecision: four statements, no transaction.
Finalizing(from, to) ==
    /\ status = "RUNNING" /\ Call[1] = "finalize" /\ part = from
    /\ part' = to
    /\ UNCHANGED <<status, phase, at, attempt, gatewayVars, policy, fraudScore, ai, humanVars,
                   approvals, audit, events, artifacts>>

FindRun ==
    /\ Finalizing("called", "found")
    /\ foundRun' = (run # NoRun)
    /\ UNCHANGED <<loan, run, decisions>>

\* Mutant: the row takes the decision last signalled, not the one the gate took.
InsertDecisionSignalled ==
    /\ Finalizing("found", "inserted")
    /\ decisions' = decisions \cup
           {[status  |-> IF phase = "reviewed" /\ signal = "APPROVE" THEN "APPROVED" ELSE "REJECTED",
             by      |-> Verdict.by,
             attempt |-> attempt]}
    /\ UNCHANGED <<loan, run, foundRun>>

InsertDecision ==
    /\ Finalizing("found", "inserted")
    /\ decisions' = decisions \cup {[status |-> Verdict.status, by |-> Verdict.by, attempt |-> attempt]}
    /\ UNCHANGED <<loan, run, foundRun>>

\* Mutant: the application is updated only together with its run.
UpdateLoanOfKnownRun ==
    /\ Finalizing("inserted", IF foundRun THEN "updated" ELSE "done")
    /\ loan' = IF foundRun THEN Verdict.status ELSE loan
    /\ UNCHANGED <<run, foundRun, decisions>>

UpdateLoan ==
    /\ Finalizing("inserted", IF foundRun THEN "updated" ELSE "done")
    /\ loan' = Verdict.status
    /\ UNCHANGED <<run, foundRun, decisions>>

CompleteRun ==
    /\ Finalizing("updated", "done")
    /\ run' = [run EXCEPT !.status = "COMPLETED", !.loanStatus = Verdict.status]
    /\ UNCHANGED <<loan, foundRun, decisions>>

-----------------------------------------------------------------------------
(* The gate and the reviewers.                                              *)

\* condition(() => humanApprovalReceived, 24h) resolves.
Gate(answer, next) ==
    /\ Awaits("gate")
    /\ approval' = answer /\ Enter(next)
    /\ attempt' = 1 /\ UNCHANGED part
    /\ UNCHANGED <<gatewayVars, loan, run, resultVars, signal, recordVars>>

GateAnswered == signal # NoneYet /\ Gate(signal, "reviewed")
GateExpires  == signal = NoneYet /\ Gate(NoneYet, "expired")

\* POST /loans/:id/approval signals the workflow and answers "recorded"; the
\* signal handler keeps the last decision, whatever the workflow is doing.
SignalApproval(d) ==
    /\ status = "RUNNING"
    /\ signal' = d
    /\ UNCHANGED <<gatewayVars, loan, run, positionVars, resultVars, approval, recordVars>>

Reviewer == \E d \in {"APPROVE", "REJECT"} : SignalApproval(d)

Worker ==
    \/ AttemptCompletes \/ AttemptFails
    \/ UpdateWorkflowStep \/ PublishWorkflowEvent \/ StoreAuditRecord \/ PersistArtifacts
    \/ ValidateLoanRequest \/ EvaluatePolicy \/ RunFraudAnalysis \/ RunAIRiskAnalysis
    \/ RequestHumanApproval
    \/ FindRun \/ InsertDecision \/ UpdateLoan \/ CompleteRun
    \/ GateAnswered \/ GateExpires

Next == Gateway \/ Worker \/ Reviewer

Spec == Init /\ [][Next]_vars

\* A worker polls the task queue as long as the workflow is open, and Temporal
\* fires its timers; submissions and reviewers may stop at any point.
FairSpec == Spec /\ WF_vars(Worker)

-----------------------------------------------------------------------------
(* Properties.                                                              *)

TypeOK ==
    /\ application \in Applications
    /\ request \in [Requests -> Stages] /\ loans \subseteq Requests
    /\ loan \in LoanStatuses
    /\ run \in [status : {"ABSENT", "RUNNING", "COMPLETED"}, step : Steps \cup {NoneYet},
                loanStatus : LoanStatuses \cup {NoneYet}]
    /\ status \in {"UNSTARTED", "RUNNING", "RETURNED", "FAILED"}
    /\ phase \in Phases /\ at \in 1..Len(Script[phase])
    /\ attempt \in 1..MaxAttempts
    /\ part \in {"called", "found", "inserted", "updated", "done"}
    /\ foundRun \in BOOLEAN
    /\ signal \in {NoneYet, "APPROVE", "REJECT"} /\ approval \in {NoneYet, "APPROVE", "REJECT"}

\* However many submissions carry the key, and however they interleave between
\* the look-up and the insert, one application is stored, and only the
\* submission that stored it starts a workflow and records a run for it.
OneLoanPerKey ==
    /\ \A r, q \in loans : r = q
    /\ \A r \in Requests : request[r] \in {"stored", "started", "recorded", "accepted"} => r \in loans
    /\ (status # "UNSTARTED" \/ run # NoRun) => loans # {}

\* Through all retries of finalizeDecision and all signals that arrive during
\* them, the decision rows, the application and the run agree on one decision.
RecordsAgree ==
    /\ \A d, e \in decisions : d.status = e.status /\ d.by = e.by
    /\ loan \notin {"ABSENT", "PENDING"} => \E d \in decisions : d.status = loan
    /\ run.status = "COMPLETED" => run.loanStatus = loan

\* What the audit trail and Kafka are told about the outcome has been decided.
AnnouncedIsDecided ==
    \A e \in audit \cup events : e.decision # NoneYet => e.decision = loan

\* What puts an application before a reviewer, and all that does.
AsksForReviewer ==
    ai.highRisk \/ ai.recommendation = "MANUAL_REVIEW" \/ "MANUAL_REVIEW" \in application.flags

\* Behind every decision to approve there is an answer of OPA itself that is no denial
\* (the fail-closed one never leads there) and no critical violation; where the risk, the
\* recommendation or a flag asks for a reviewer, a reviewer approved it, and elsewhere
\* the AI alone.  The policy's answer MANUAL_REVIEW asks for nobody: with a HIGH violation,
\* a low credit score or a high ratio of debt to income, the AI approves alone as well,
\* although README.md:218-221 of the code lists these as "auto-reject".
ApprovalIsAccountedFor ==
    \A d \in decisions : d.status = "APPROVED" =>
        /\ "CRITICAL" \notin application.violations
        /\ policy.decision \in RuledDecisions(application) \ {"DENY"}
        /\ IF AsksForReviewer THEN d.by = "HUMAN" /\ approval = "APPROVE"
                              ELSE d.by = "AI" /\ ai.recommendation = "APPROVE"

\* A workflow that returns leaves a decided application behind, on every path.
ReturnedIsDecided ==
    status = "RETURNED" => loan \notin {"ABSENT", "PENDING"} /\ loan = Verdict.status

\* Validation turns away the only applications whose fraud score, summed in
\* doubles, exceeds 0.9: the automatic rejection for fraud is dead code.
FraudRejectIsUnreachable == phase # "fraudulent"

\* A decided application keeps its decision.
DecidedOnce == [][loan \notin {"ABSENT", "PENDING"} => loan' = loan]_vars

\* A started workflow comes to rest: no dependency that stays down and no
\* reviewer who stays silent keeps it open.
WorkflowComesToRest == status = "RUNNING" ~> status \in {"RETURNED", "FAILED"}

-----------------------------------------------------------------------------
(* The implementation of LoanLedger and the inductive invariant.            *)

Ledger == INSTANCE LoanLedger WITH
    rows      <- {[status |-> d.status, by |-> d.by] : d \in decisions},
    announced <- {e.decision : e \in audit \cup events} \ {NoneYet}

\* The records of the application behave as LoanLedger promises.
LedgerSpec == Ledger!Spec

Decided == loan \notin {"ABSENT", "PENDING"}

\* Where a deciding phase calls finalizeDecision.
FinalAt == [invalid |-> 2, denied |-> 2, fraudulent |-> 1, expired |-> 2,
            reviewed |-> 3, automatic |-> 2]

AtFinal   == phase \in Deciding /\ at = FinalAt[phase]
PastFinal == phase \in Deciding /\ at > FinalAt[phase]

\* The submission that stored the application is the only one past the insert.
Owned ==
    /\ OneLoanPerKey
    /\ loan = "ABSENT" <=> loans = {}
    /\ \A r \in Requests : request[r] = "stored" => status = "UNSTARTED"
    /\ \A r \in Requests : request[r] \in {"stored", "started"} => run = NoRun
    /\ status = "UNSTARTED" => phase = "intake" /\ at = 1 /\ part = "called"

\* The parts of finalizeDecision occur in it alone, and only a deciding phase
\* at its end returns.
Placed ==
    /\ part \in {"found", "inserted", "updated"} => AtFinal
    /\ part \in {"found", "inserted", "updated"} /\ foundRun => run # NoRun
    /\ part = "updated" => foundRun
    /\ phase = "human" /\ at = 5 => part = "called"
    /\ status = "RETURNED" => PastFinal \/ (AtFinal /\ part = "called" /\ at = Len(Script[phase]))

\* The writes of finalizeDecision against the position of the workflow.
Written ==
    /\ \A d \in decisions : d.status = Verdict.status /\ d.by = Verdict.by
    /\ decisions # {} => AtFinal \/ PastFinal
    /\ AtFinal /\ part = "inserted" => decisions # {}
    /\ Decided => decisions # {} /\ loan = Verdict.status
    /\ PastFinal \/ (AtFinal /\ (part \in {"updated", "done"} \/ status = "RETURNED")) => Decided
    /\ run.status = "COMPLETED" => Decided /\ run.loanStatus = loan
    /\ \A e \in audit \cup events : e.decision # NoneYet => Decided /\ e.decision = loan

\* What the branches taken so far have established.
Vetted ==
    /\ phase \notin {"intake", "invalid"} => application.kyc
    /\ phase \notin {"intake", "invalid", "policy"} \/ (phase = "policy" /\ (at > 4 \/ (at = 4 /\ part = "done")))
          => policy \in PolicyAnswers(application)
    /\ phase \in {"fraud", "fraudulent", "analysis", "human", "expired", "reviewed", "automatic"}
          => policy.decision # "DENY"
    /\ phase = "fraud" /\ (at > 3 \/ (at = 3 /\ part = "done")) => fraudScore = FraudScore(application)
    /\ FraudRejectIsUnreachable
    /\ phase = "reviewed" => approval # NoneYet
    /\ phase = "automatic" => ~NeedsHuman
    /\ phase \in {"human", "expired", "reviewed"} => NeedsHuman

LoanInv == TypeOK /\ Owned /\ Placed /\ Written /\ Vetted

=============================================================================
