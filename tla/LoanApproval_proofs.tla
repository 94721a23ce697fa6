------------------------- MODULE LoanApproval_proofs -------------------------
(* Proofs about LoanApproval, for every set of submissions and applications  *)
(* and every number of attempts.                                             *)
EXTENDS LoanApproval, FiniteSetTheorems, TLAPS

-----------------------------------------------------------------------------
(* Facts about the script: where its calls stand.                            *)

LEMMA PhaseNames ==
    /\ Phases = {"intake", "invalid", "policy", "denied", "fraud", "fraudulent", "analysis",
                 "human", "expired", "reviewed", "automatic"}
    /\ Deciding = {"invalid", "denied", "fraudulent", "expired", "reviewed", "automatic"}
    /\ Branches = {"intake", "policy", "fraud", "analysis", "human"}
BY DEF Phases, Deciding, Branches, Script

\* A deciding phase calls finalizeDecision at FinalAt, no phase calls it elsewhere;
\* the outcome is announced after it; each result and the gate has one place.
CallPlaces(p, i) ==
    /\ Script[p][i][1] = "finalize" <=> p \in Deciding /\ i = FinalAt[p]
    /\ Script[p][i][2] \in {"LOAN_DECIDED", "WORKFLOW_COMPLETED"} => p \in {"reviewed", "automatic"} /\ i > FinalAt[p]
    /\ Script[p][i][1] = "call" /\ Script[p][i][2] = "evaluatePolicy" <=> p = "policy" /\ i = 4
    /\ Script[p][i][1] = "call" /\ Script[p][i][2] = "runFraudAnalysis" <=> p = "fraud" /\ i = 3
    /\ Script[p][i][2] = "runAIRiskAnalysis" => p = "analysis" /\ i = 3
    /\ Script[p][i][1] = "gate" <=> p = "human" /\ i = 5
    /\ Script[p][i][1] = "step" => Script[p][i][2] \in Steps

LEMMA ScriptCalls == \A p \in Phases : \A i \in 1..Len(Script[p]) : CallPlaces(p, i)
<1> SUFFICES ASSUME NEW p \in Phases, NEW i \in 1..Len(Script[p]) PROVE CallPlaces(p, i)
    OBVIOUS
<1>1. CASE p = "intake" BY <1>1, PhaseNames DEF CallPlaces, Script, FinalAt, Steps
<1>2. CASE p = "invalid" BY <1>2, PhaseNames DEF CallPlaces, Script, FinalAt, Steps
<1>3. CASE p = "policy" BY <1>3, PhaseNames DEF CallPlaces, Script, FinalAt, Steps
<1>4. CASE p = "denied" BY <1>4, PhaseNames DEF CallPlaces, Script, FinalAt, Steps
<1>5. CASE p = "fraud" BY <1>5, PhaseNames DEF CallPlaces, Script, FinalAt, Steps
<1>6. CASE p = "fraudulent" BY <1>6, PhaseNames DEF CallPlaces, Script, FinalAt, Steps
<1>7. CASE p = "analysis" BY <1>7, PhaseNames DEF CallPlaces, Script, FinalAt, Steps
<1>8. CASE p = "human" BY <1>8, PhaseNames DEF CallPlaces, Script, FinalAt, Steps
<1>9. CASE p = "expired" BY <1>9, PhaseNames DEF CallPlaces, Script, FinalAt, Steps
<1>10. CASE p = "reviewed" BY <1>10, PhaseNames DEF CallPlaces, Script, FinalAt, Steps
<1>11. CASE p = "automatic" BY <1>11, PhaseNames DEF CallPlaces, Script, FinalAt, Steps
<1> QED BY <1>1, <1>2, <1>3, <1>4, <1>5, <1>6, <1>7, <1>8, <1>9, <1>10, <1>11, PhaseNames

LEMMA ScriptLengths ==
    /\ \A p \in Phases : Len(Script[p]) \in Nat \ {0}
    /\ \A p \in Deciding : FinalAt[p] \in 1..Len(Script[p])
    /\ Len(Script["policy"]) = 6 /\ Len(Script["fraud"]) = 5
    /\ Len(Script["human"]) = 5 /\ Len(Script["intake"]) = 3
BY PhaseNames DEF Script, FinalAt

-----------------------------------------------------------------------------
(* The gateway's steps preserve the invariant.                               *)

LEMMA UnmovedVerdict ==
    ASSUME UNCHANGED <<phase, approval, ai>> PROVE Verdict' = Verdict
BY DEF Verdict

LEMMA GatewaySteps ==
    ASSUME LoanInv, NEW r \in Requests,
           \/ LookUp(r) \/ CreateLoan(r) \/ StartWorkflow(r) \/ RecordRun(r)
           \/ AnnounceSubmission(r) \/ RequestFails(r)
    PROVE  LoanInv'
<1> USE DEF gatewayVars, positionVars, resultVars, humanVars, recordVars
<1>1. UNCHANGED <<application, phase, at, attempt, part, policy, fraudScore, ai, foundRun,
                  signal, approval, decisions, audit>>
    BY DEF LookUp, CreateLoan, StartWorkflow, RecordRun, AnnounceSubmission, RequestFails
<1>2. TypeOK'
    BY <1>1 DEF LoanInv, TypeOK, LookUp, CreateLoan, StartWorkflow, RecordRun, AnnounceSubmission,
         RequestFails, Stages, NoRun, LoanStatuses, NoneYet
<1>3. Owned'
    <2>1. CASE LookUp(r)
        BY <1>1, <2>1 DEF LoanInv, TypeOK, Owned, OneLoanPerKey, LookUp
    <2>2. CASE CreateLoan(r)
        BY <1>1, <2>2 DEF LoanInv, TypeOK, Owned, OneLoanPerKey, CreateLoan
    <2>3. CASE StartWorkflow(r)
        <3>1. r \in loans /\ run = NoRun
            BY <2>3 DEF LoanInv, Owned, OneLoanPerKey, StartWorkflow
        <3>2. \A q \in Requests : request'[q] = IF q = r THEN "started" ELSE request[q]
            BY <2>3 DEF LoanInv, TypeOK, StartWorkflow
        <3>3. \A q \in Requests : request'[q] # "stored"
            BY <3>1, <3>2 DEF LoanInv, Owned, OneLoanPerKey
        <3> QED BY <1>1, <2>3, <3>1, <3>2, <3>3 DEF LoanInv, Owned, OneLoanPerKey, StartWorkflow
    <2>4. CASE RecordRun(r)
        BY <1>1, <2>4 DEF LoanInv, TypeOK, Owned, OneLoanPerKey, RecordRun
    <2>5. CASE AnnounceSubmission(r)
        BY <1>1, <2>5 DEF LoanInv, TypeOK, Owned, OneLoanPerKey, AnnounceSubmission
    <2>6. CASE RequestFails(r)
        BY <1>1, <2>6 DEF LoanInv, TypeOK, Owned, OneLoanPerKey, RequestFails
    <2> QED BY <2>1, <2>2, <2>3, <2>4, <2>5, <2>6
<1>4. Placed'
    <2>1. run # NoRun => run' # NoRun
        BY DEF LookUp, CreateLoan, StartWorkflow, RecordRun, AnnounceSubmission, RequestFails, NoRun
    <2>2. status' = "RETURNED" => status = "RETURNED"
        BY DEF LookUp, CreateLoan, StartWorkflow, RecordRun, AnnounceSubmission, RequestFails
    <2> QED BY <1>1, <2>1, <2>2 DEF LoanInv, Placed, AtFinal, PastFinal
<1>5. Written'
    <2>1. Verdict' = Verdict BY <1>1, UnmovedVerdict
    <2>2. (Decided' <=> Decided) /\ (Decided => loan' = loan)
        BY DEF LoanInv, Owned, Decided, LookUp, CreateLoan, StartWorkflow, RecordRun,
             AnnounceSubmission, RequestFails
    <2>3. \A e \in events' : e \in events \/ e.decision = NoneYet
        BY DEF LookUp, CreateLoan, StartWorkflow, RecordRun, AnnounceSubmission, RequestFails
    <2>4. run'.status = "COMPLETED" => run' = run
        BY DEF LookUp, CreateLoan, StartWorkflow, RecordRun, AnnounceSubmission, RequestFails, NoRun
    <2>5. status' = "RETURNED" => status = "RETURNED"
        BY DEF LookUp, CreateLoan, StartWorkflow, RecordRun, AnnounceSubmission, RequestFails
    <2> QED BY <1>1, <2>1, <2>2, <2>3, <2>4, <2>5 DEF LoanInv, Written, AtFinal, PastFinal
<1>6. Vetted'
    BY <1>1 DEF LoanInv, Vetted, NeedsHuman, FraudRejectIsUnreachable
<1> QED BY <1>2, <1>3, <1>4, <1>5, <1>6 DEF LoanInv

-----------------------------------------------------------------------------
(* The workflow's steps preserve the invariant.                              *)

LEMMA CallFacts == ASSUME TypeOK PROVE CallPlaces(phase, at)
BY ScriptCalls DEF TypeOK

\* No step of a running workflow disturbs who owns the application.
LEMMA OwnedByOne ==
    ASSUME LoanInv, status = "RUNNING", status' # "UNSTARTED",
           UNCHANGED <<request, loans>>,
           loan' = "ABSENT" <=> loan = "ABSENT",
           run = NoRun => run' = run
    PROVE  Owned'
BY DEF LoanInv, Owned, OneLoanPerKey

LEMMA ActivitySteps ==
    ASSUME LoanInv,
           \/ UpdateWorkflowStep \/ PublishWorkflowEvent \/ StoreAuditRecord \/ PersistArtifacts
           \/ ValidateLoanRequest \/ EvaluatePolicy \/ RunFraudAnalysis \/ RunAIRiskAnalysis
           \/ RequestHumanApproval
    PROVE  LoanInv'
<1> USE DEF gatewayVars, humanVars, resultVars, recordVars
<1> DEFINE Activity == \/ UpdateWorkflowStep \/ PublishWorkflowEvent \/ StoreAuditRecord \/ PersistArtifacts
                       \/ ValidateLoanRequest \/ EvaluatePolicy \/ RunFraudAnalysis \/ RunAIRiskAnalysis
                       \/ RequestHumanApproval
<1>0. Activity OBVIOUS
<1>1. /\ status = "RUNNING" /\ part = "called" /\ Call[1] \in {"step", "event", "audit", "artifact", "call"}
      /\ part' = "done"
      /\ UNCHANGED <<application, request, loans, phase, at, status, attempt, loan, signal, approval, decisions>>
    BY DEF UpdateWorkflowStep, PublishWorkflowEvent, StoreAuditRecord, PersistArtifacts, ValidateLoanRequest,
         EvaluatePolicy, RunFraudAnalysis, RunAIRiskAnalysis, RequestHumanApproval, AwaitsCall, Awaits, Done
<1>2. CallPlaces(phase, at) /\ TypeOK BY CallFacts DEF LoanInv
<1>3. ~AtFinal /\ ~(phase = "human" /\ at = 5)
    BY <1>1, <1>2 DEF CallPlaces, Call, AtFinal, TypeOK
<1>4. run' = run \/ (UpdateWorkflowStep /\ run # NoRun /\ run' = [run EXCEPT !.step = Call[2]] /\ Call[2] \in Steps)
    <2>1. CASE UpdateWorkflowStep
        BY <1>2, <2>1 DEF UpdateWorkflowStep, Awaits, Call, CallPlaces
    <2>2. CASE ~UpdateWorkflowStep
        BY <2>2 DEF PublishWorkflowEvent, StoreAuditRecord, PersistArtifacts, ValidateLoanRequest,
             EvaluatePolicy, RunFraudAnalysis, RunAIRiskAnalysis, RequestHumanApproval
    <2> QED BY <2>1, <2>2
<1>5. TypeOK'
    <2>1. run' \in [status : {"ABSENT", "RUNNING", "COMPLETED"}, step : Steps \cup {NoneYet},
                    loanStatus : LoanStatuses \cup {NoneYet}]
        BY <1>2, <1>4 DEF TypeOK
    <2>2. foundRun' = foundRun
        BY DEF UpdateWorkflowStep, PublishWorkflowEvent, StoreAuditRecord, PersistArtifacts, ValidateLoanRequest,
             EvaluatePolicy, RunFraudAnalysis, RunAIRiskAnalysis, RequestHumanApproval
    <2> QED BY <1>1, <1>2, <2>1, <2>2 DEF TypeOK
<1>6. Owned'
    BY <1>1, <1>4, OwnedByOne
<1>7. Placed'
    BY <1>1, <1>3 DEF LoanInv, Placed, AtFinal, PastFinal
<1>8. Written'
    <2>1. Verdict' = Verdict \/ phase = "analysis"
        <3>1. CASE RunAIRiskAnalysis
            BY <1>2, <3>1 DEF RunAIRiskAnalysis, AwaitsCall, Awaits, Call, CallPlaces
        <3>2. CASE ~RunAIRiskAnalysis
            BY <1>1, <3>2, UnmovedVerdict DEF UpdateWorkflowStep, PublishWorkflowEvent, StoreAuditRecord,
                 PersistArtifacts, ValidateLoanRequest, EvaluatePolicy, RunFraudAnalysis, RequestHumanApproval
        <3> QED BY <3>1, <3>2
    <2>2. phase = "analysis" => decisions = {} /\ ~Decided
        BY PhaseNames DEF LoanInv, Written, AtFinal, PastFinal
    <2>3. Decided' = Decided
        BY <1>1 DEF Decided
    <2>4. \A e \in (audit \cup events)' : e.decision # NoneYet => Decided /\ e.decision = loan
        <3>1. (audit \cup events)' \subseteq audit \cup events \cup {Entry(Call[2])}
            BY DEF UpdateWorkflowStep, PublishWorkflowEvent, StoreAuditRecord, PersistArtifacts,
                 ValidateLoanRequest, EvaluatePolicy, RunFraudAnalysis, RunAIRiskAnalysis, RequestHumanApproval
        <3>2. Entry(Call[2]).decision # NoneYet => PastFinal /\ Entry(Call[2]).decision = Verdict.status
            BY <1>2, PhaseNames DEF Entry, CallPlaces, Call, PastFinal
        <3> QED BY <3>1, <3>2 DEF LoanInv, Written
    <2>5. run'.status = run.status /\ run'.loanStatus = run.loanStatus
        BY <1>2, <1>4 DEF TypeOK
    <2> QED BY <1>1, <1>3, <2>1, <2>2, <2>3, <2>4, <2>5 DEF LoanInv, Written, AtFinal, PastFinal
<1>9. Vetted'
    <2>1. CASE EvaluatePolicy
        <3>1. phase = "policy" /\ at = 4
            BY <1>2, <2>1 DEF EvaluatePolicy, AwaitsCall, Awaits, Call, CallPlaces
        <3>2. policy' \in PolicyAnswers(application)
            BY <2>1 DEF EvaluatePolicy
        <3> QED BY <1>1, <3>1, <3>2 DEF LoanInv, Vetted, FraudRejectIsUnreachable
    <2>2. CASE RunFraudAnalysis
        <3>1. phase = "fraud" /\ at = 3
            BY <1>2, <2>2 DEF RunFraudAnalysis, AwaitsCall, Awaits, Call, CallPlaces
        <3>2. fraudScore' = FraudScore(application) /\ policy' = policy
            BY <2>2 DEF RunFraudAnalysis
        <3> QED BY <1>1, <3>1, <3>2 DEF LoanInv, Vetted, FraudRejectIsUnreachable
    <2>3. CASE RunAIRiskAnalysis
        <3>1. phase = "analysis"
            BY <1>2, <2>3 DEF RunAIRiskAnalysis, AwaitsCall, Awaits, Call, CallPlaces
        <3>2. fraudScore' = fraudScore /\ policy' = policy
            BY <2>3 DEF RunAIRiskAnalysis
        <3> QED BY <1>1, <3>1, <3>2 DEF LoanInv, Vetted, FraudRejectIsUnreachable
    <2>4. CASE ~EvaluatePolicy /\ ~RunFraudAnalysis /\ ~RunAIRiskAnalysis
        <3>1. UNCHANGED <<policy, fraudScore, ai>>
            BY <2>4 DEF UpdateWorkflowStep, PublishWorkflowEvent, StoreAuditRecord, PersistArtifacts,
                 ValidateLoanRequest, RequestHumanApproval
        <3>2. ~(phase = "policy" /\ at = 4) /\ ~(phase = "fraud" /\ at = 3)
            BY <1>0, <1>1, <1>2, <2>4 DEF CallPlaces, Call, UpdateWorkflowStep, PublishWorkflowEvent,
                 StoreAuditRecord, PersistArtifacts, ValidateLoanRequest, RequestHumanApproval, AwaitsCall, Awaits
        <3> QED BY <1>1, <3>1, <3>2 DEF LoanInv, Vetted, NeedsHuman, FraudRejectIsUnreachable
    <2> QED BY <2>1, <2>2, <2>3, <2>4
<1> QED BY <1>5, <1>6, <1>7, <1>8, <1>9 DEF LoanInv

\* What an answer of the policy service says when it is not a denial.
LEMMA RuledAnswers ==
    ASSUME NEW a \in ApplicationFacts, NEW p \in PolicyAnswers(a)
    PROVE  /\ p.decision = "DENY" => p.allow = FALSE
           /\ p.decision # "DENY" => /\ "CRITICAL" \notin a.violations /\ p.flags = a.flags
                                     /\ p.decision \in RuledDecisions(a)
<1>1. p = Unavailable \/ \E d \in RuledDecisions(a) : p = [allow |-> Allow(a), decision |-> d, flags |-> a.flags]
    BY DEF PolicyAnswers
<1>2. CASE p = Unavailable
    BY <1>2 DEF Unavailable
<1>3. ASSUME NEW d \in RuledDecisions(a), p = [allow |-> Allow(a), decision |-> d, flags |-> a.flags]
      PROVE  /\ p.decision = "DENY" => p.allow = FALSE
             /\ p.decision # "DENY" => /\ "CRITICAL" \notin a.violations /\ p.flags = a.flags
                                       /\ p.decision \in RuledDecisions(a)
    BY <1>3 DEF RuledDecisions, Allow, Deny
<1> QED BY <1>1, <1>2, <1>3

\* Only an unverified identity adds up to a critical fraud score.
LEMMA CriticalFraud ==
    ASSUME NEW a \in ApplicationFacts, IsCriticalFraud(FraudScore(a)) PROVE ~a.kyc
BY DEF IsCriticalFraud, FraudScore, ApplicationFacts

LEMMA CompletionStep == ASSUME LoanInv, AttemptCompletes PROVE LoanInv'
<1> USE DEF gatewayVars, humanVars, resultVars, recordVars
<1>1. /\ status = "RUNNING" /\ part = "done" /\ part' = "called" /\ attempt' = 1
      /\ UNCHANGED <<application, request, loans, loan, run, policy, fraudScore, ai, foundRun,
                     signal, approval, decisions, audit, events>>
    BY DEF AttemptCompletes, Advance
<1>2. CallPlaces(phase, at) /\ TypeOK /\ ~(phase = "human" /\ at = 5)
    BY <1>1, CallFacts DEF LoanInv, Placed
<1>3. Decided' = Decided BY <1>1 DEF Decided
<1>4. AtFinal => Decided BY <1>1 DEF LoanInv, Written
<1>5. Owned' BY <1>1, OwnedByOne DEF AttemptCompletes, Advance, Enter
<1>6. CASE at < Len(Script[phase]) /\ at' = at + 1 /\ UNCHANGED <<phase, status>>
    <2>1. TypeOK' BY <1>1, <1>2, <1>6, AttemptsAssumption DEF TypeOK
    <2>2. Placed' BY <1>1, <1>6 DEF Placed
    <2>3. Verdict' = Verdict BY <1>1, <1>6, UnmovedVerdict
    <2>4. PastFinal' <=> AtFinal \/ PastFinal
        BY <1>2, <1>6, ScriptLengths DEF PastFinal, AtFinal, TypeOK
    <2>5. AtFinal' => ~PastFinal /\ ~AtFinal
        BY <1>2, <1>6, ScriptLengths DEF PastFinal, AtFinal, TypeOK
    <2>6. Written'
        BY <1>1, <1>3, <1>4, <1>6, <2>3, <2>4, <2>5 DEF LoanInv, Written
    <2>7. Vetted'
        BY <1>1, <1>2, <1>6 DEF LoanInv, Vetted, NeedsHuman, FraudRejectIsUnreachable, TypeOK
    <2> QED BY <1>5, <2>1, <2>2, <2>6, <2>7 DEF LoanInv
<1>7. CASE at = Len(Script[phase]) /\ phase \in Branches /\ Enter(Branch)
    <2>1. phase' = Branch /\ at' = 1 /\ status' = status BY <1>7 DEF Enter
    <2>2. phase \in {"intake", "policy", "fraud", "analysis"}
        BY <1>2, <1>7, PhaseNames, ScriptLengths
    <2>3. /\ phase = "intake"   => phase' = (IF application.kyc THEN "policy" ELSE "invalid")
          /\ phase = "policy"   => phase' = (IF ~policy.allow /\ policy.decision = "DENY" THEN "denied" ELSE "fraud")
          /\ phase = "fraud"    => phase' = (IF IsCriticalFraud(fraudScore) THEN "fraudulent" ELSE "analysis")
          /\ phase = "analysis" => phase' = (IF NeedsHuman THEN "human" ELSE "automatic")
        BY <2>1, <2>2 DEF Branch
    <2>4. phase' \in Phases BY <2>2, <2>3, PhaseNames
    <2>5. TypeOK' BY <1>1, <1>2, <2>1, <2>4, ScriptLengths, AttemptsAssumption DEF TypeOK
    <2>6. Placed' BY <1>1, <2>1 DEF Placed
    <2>7. decisions = {} /\ ~Decided
        BY <2>2, PhaseNames DEF LoanInv, Written, AtFinal, PastFinal
    <2>8. ~PastFinal'
        BY <2>1, PhaseNames DEF PastFinal, FinalAt
    <2>9. Written' BY <1>1, <1>3, <2>1, <2>7, <2>8 DEF LoanInv, Written
    <2>10. application \in ApplicationFacts BY <1>2, ApplicationsAssumption DEF TypeOK
    <2>11. phase = "policy" /\ phase' = "fraud" => policy.decision # "DENY"
        <3>1. SUFFICES ASSUME phase = "policy", phase' = "fraud", policy.decision = "DENY" PROVE FALSE
            OBVIOUS
        <3>2. policy \in PolicyAnswers(application)
            BY <1>7, <3>1, ScriptLengths DEF LoanInv, Vetted
        <3> QED BY <2>3, <2>10, <3>1, <3>2, RuledAnswers
    <2>12. phase = "fraud" => ~IsCriticalFraud(fraudScore)
        <3>1. SUFFICES ASSUME phase = "fraud" PROVE ~IsCriticalFraud(fraudScore)
            OBVIOUS
        <3>2. at = 5 BY <1>7, <3>1, ScriptLengths
        <3>3. fraudScore = FraudScore(application) BY <3>1, <3>2 DEF LoanInv, Vetted
        <3>4. application.kyc BY <3>1 DEF LoanInv, Vetted
        <3> QED BY <2>10, <3>3, <3>4, CriticalFraud
    <2>13. Vetted'
        <3>1. CASE phase = "intake"
            BY <1>1, <2>1, <2>3, <3>1 DEF LoanInv, Vetted, NeedsHuman, FraudRejectIsUnreachable
        <3>2. CASE phase = "policy"
            BY <1>1, <1>7, <2>1, <2>3, <2>11, <3>2, ScriptLengths DEF LoanInv, Vetted, NeedsHuman, FraudRejectIsUnreachable
        <3>3. CASE phase = "fraud"
            BY <1>1, <2>1, <2>3, <2>12, <3>3 DEF LoanInv, Vetted, NeedsHuman, FraudRejectIsUnreachable
        <3>4. CASE phase = "analysis"
            BY <1>1, <2>1, <2>3, <3>4 DEF LoanInv, Vetted, NeedsHuman, FraudRejectIsUnreachable
        <3> QED BY <2>2, <3>1, <3>2, <3>3, <3>4
    <2> QED BY <1>5, <2>5, <2>6, <2>9, <2>13 DEF LoanInv
<1>8. CASE at = Len(Script[phase]) /\ phase \in Deciding /\ status' = "RETURNED" /\ UNCHANGED <<phase, at>>
    <2>1. TypeOK' BY <1>1, <1>2, <1>8, AttemptsAssumption DEF TypeOK
    <2>2. AtFinal \/ PastFinal BY <1>2, <1>8, ScriptLengths DEF AtFinal, PastFinal, TypeOK
    <2>3. Placed' BY <1>1, <1>8, <2>2 DEF Placed, AtFinal, PastFinal
    <2>4. Verdict' = Verdict BY <1>1, <1>8, UnmovedVerdict
    <2>5. Written' BY <1>1, <1>3, <1>4, <1>8, <2>4 DEF LoanInv, Written, AtFinal, PastFinal
    <2>6. Vetted' BY <1>1, <1>8 DEF LoanInv, Vetted, NeedsHuman, FraudRejectIsUnreachable
    <2> QED BY <1>5, <2>1, <2>3, <2>5, <2>6 DEF LoanInv
<1> QED BY <1>6, <1>7, <1>8 DEF AttemptCompletes, Advance

LEMMA FailureStep == ASSUME LoanInv, AttemptFails PROVE LoanInv'
<1> USE DEF gatewayVars, humanVars, resultVars, recordVars
<1>1. /\ status = "RUNNING" /\ part' = "called" /\ status' \in {"RUNNING", "FAILED"}
      /\ UNCHANGED <<application, request, loans, loan, run, phase, at, policy, fraudScore, ai, foundRun,
                     signal, approval, decisions, audit, events>>
    BY DEF AttemptFails
<1>2. TypeOK' BY <1>1, AttemptsAssumption DEF LoanInv, TypeOK, AttemptFails
<1>3. Owned' BY <1>1, OwnedByOne
<1>4. Placed' BY <1>1 DEF Placed
<1>5. Verdict' = Verdict BY <1>1, UnmovedVerdict
<1>6. Written' BY <1>1, <1>5 DEF LoanInv, Written, AtFinal, PastFinal, Decided
<1>7. Vetted' BY <1>1 DEF LoanInv, Vetted, NeedsHuman, FraudRejectIsUnreachable
<1> QED BY <1>2, <1>3, <1>4, <1>6, <1>7 DEF LoanInv

LEMMA FinalizingStep ==
    ASSUME LoanInv, FindRun \/ InsertDecision \/ UpdateLoan \/ CompleteRun
    PROVE  LoanInv'
<1> USE DEF gatewayVars, humanVars, resultVars, recordVars
<1>1. /\ status = "RUNNING" /\ Call[1] = "finalize"
      /\ UNCHANGED <<status, phase, at, attempt, application, request, loans, policy, fraudScore, ai,
                     signal, approval, audit, events>>
    BY DEF FindRun, InsertDecision, UpdateLoan, CompleteRun, Finalizing
<1>2. CallPlaces(phase, at) /\ TypeOK
    BY CallFacts DEF LoanInv
<1>3. AtFinal /\ ~PastFinal /\ phase \in Deciding
    <2>1. phase \in Deciding /\ at = FinalAt[phase]
        BY <1>1, <1>2 DEF CallPlaces, Call
    <2>2. FinalAt[phase] \in Nat
        BY <2>1, ScriptLengths
    <2>3. ~(at > FinalAt[phase])
        BY <2>1, <2>2
    <2> QED BY <2>1, <2>3 DEF AtFinal, PastFinal
<1>4. Verdict' = Verdict BY <1>1, UnmovedVerdict
<1>5. Verdict.status \in LoanStatuses \ {"ABSENT", "PENDING"}
    BY <1>3, PhaseNames DEF Verdict, LoanStatuses
<1>6. /\ FindRun        => part = "called"   /\ part' = "found"
      /\ InsertDecision => part = "found"    /\ part' = "inserted"
      /\ UpdateLoan     => part = "inserted" /\ part' = (IF foundRun THEN "updated" ELSE "done")
      /\ CompleteRun    => part = "updated"  /\ part' = "done"
    BY DEF FindRun, InsertDecision, UpdateLoan, CompleteRun, Finalizing
<1>7. loan' = loan \/ (UpdateLoan /\ loan' = Verdict.status)
    BY DEF FindRun, InsertDecision, UpdateLoan, CompleteRun
<1>8. Decided => loan = Verdict.status
    BY DEF LoanInv, Written
<1>9. loan # "ABSENT"
    BY <1>1 DEF LoanInv, Owned, OneLoanPerKey
<1>10. CompleteRun => Decided /\ run # NoRun /\ loan' = loan
                      /\ run' = [run EXCEPT !.status = "COMPLETED", !.loanStatus = Verdict.status]
    <2>1. SUFFICES ASSUME CompleteRun PROVE Decided /\ run # NoRun
        BY DEF CompleteRun
    <2>2. Decided BY <1>3, <1>6, <2>1 DEF LoanInv, Written
    <2>3. run # NoRun BY <1>6, <2>1 DEF LoanInv, Placed
    <2> QED BY <2>2, <2>3
<1>11. CompleteRun \/ run' = run
    BY DEF FindRun, InsertDecision, UpdateLoan
<1>12. TypeOK'
    <2>1. loan' \in LoanStatuses BY <1>2, <1>5, <1>7 DEF TypeOK
    <2>2. run' \in [status : {"ABSENT", "RUNNING", "COMPLETED"}, step : Steps \cup {NoneYet},
                    loanStatus : LoanStatuses \cup {NoneYet}]
        BY <1>2, <1>5, <1>10, <1>11 DEF TypeOK
    <2>3. part' \in {"found", "inserted", "updated", "done"} BY <1>6
    <2>4. foundRun' \in BOOLEAN BY <1>2 DEF TypeOK, FindRun, InsertDecision, UpdateLoan, CompleteRun
    <2> QED BY <1>1, <1>2, <2>1, <2>2, <2>3, <2>4 DEF TypeOK
<1>13. Owned'
    <2>1. loan' # "ABSENT" BY <1>5, <1>7, <1>9
    <2>2. run = NoRun => run' = run BY <1>10, <1>11
    <2> QED BY <1>1, <1>9, <2>1, <2>2, OwnedByOne
<1>14. Placed'
    <2>1. AtFinal' /\ phase # "human"
        BY <1>1, <1>3, PhaseNames DEF AtFinal
    <2>2. run # NoRun => run' # NoRun
        <3>1. CASE CompleteRun
            <4>1. run'.status = "COMPLETED" BY <1>2, <1>10, <3>1 DEF TypeOK
            <4>2. NoRun.status = "ABSENT" BY DEF NoRun
            <4> QED BY <4>1, <4>2
        <3> QED BY <1>11, <3>1
    <2>3. foundRun' => (IF FindRun THEN run # NoRun ELSE foundRun)
        BY DEF FindRun, InsertDecision, UpdateLoan, CompleteRun
    <2>4. ~FindRun /\ ~CompleteRun /\ foundRun => run # NoRun
        BY <1>6 DEF LoanInv, Placed
    <2>5. part' = "updated" => foundRun'
        BY <1>6 DEF UpdateLoan
    <2> QED BY <1>1, <1>6, <1>10, <2>1, <2>2, <2>3, <2>4, <2>5 DEF Placed
<1>15. Written'
    <2>1. AtFinal' = AtFinal /\ PastFinal' = PastFinal BY <1>1 DEF AtFinal, PastFinal
    <2>2. decisions' = decisions \/ (InsertDecision /\ \E d : d.status = Verdict.status /\ d.by = Verdict.by
                                                            /\ decisions' = decisions \cup {d})
        BY DEF FindRun, InsertDecision, UpdateLoan, CompleteRun
    <2>3. part' \in {"inserted", "updated"} \/ UpdateLoan => decisions' # {}
        BY <1>3, <1>6, <2>2 DEF LoanInv, Written, InsertDecision
    <2>4. Decided => Decided' /\ loan' = loan
        BY <1>5, <1>7, <1>8 DEF Decided
    <2>5. part' \in {"updated", "done"} => Decided' /\ loan' = Verdict.status
        <3>1. CASE UpdateLoan BY <1>5, <3>1 DEF UpdateLoan, Decided
        <3>2. CASE CompleteRun BY <1>8, <1>10, <2>4, <3>2
        <3> QED BY <1>6, <3>1, <3>2
    <2>6. Decided' => decisions' # {} /\ loan' = Verdict.status
        <3>1. CASE UpdateLoan BY <2>3, <3>1 DEF UpdateLoan
        <3>2. CASE ~UpdateLoan BY <1>7, <1>8, <2>2, <3>2 DEF Decided, LoanInv, Written
        <3> QED BY <3>1, <3>2
    <2>7. run'.status = "COMPLETED" => Decided' /\ run'.loanStatus = loan'
        <3>1. CASE CompleteRun BY <1>2, <1>8, <1>10, <2>4, <3>1 DEF TypeOK
        <3>2. CASE run' = run BY <2>4, <3>2 DEF LoanInv, Written
        <3> QED BY <1>11, <3>1, <3>2
    <2> QED BY <1>1, <1>3, <1>4, <2>1, <2>2, <2>3, <2>4, <2>5, <2>6, <2>7 DEF LoanInv, Written
<1>16. Vetted'
    BY <1>1, <1>3, PhaseNames DEF LoanInv, Vetted, NeedsHuman, FraudRejectIsUnreachable
<1> QED BY <1>12, <1>13, <1>14, <1>15, <1>16 DEF LoanInv

LEMMA GateStep == ASSUME LoanInv, GateAnswered \/ GateExpires PROVE LoanInv'
<1> USE DEF gatewayVars, humanVars, resultVars, recordVars
<1>1. /\ status = "RUNNING" /\ Call[1] = "gate" /\ part = "called" /\ at' = 1 /\ attempt' = 1
      /\ UNCHANGED <<status, part, application, request, loans, loan, run, policy, fraudScore, ai, foundRun,
                     signal, decisions, audit, events>>
    BY DEF GateAnswered, GateExpires, Gate, Awaits, Enter
<1>2. \/ approval' = signal /\ signal # NoneYet /\ phase' = "reviewed"
      \/ approval' = NoneYet /\ phase' = "expired"
    BY DEF GateAnswered, GateExpires, Gate, Enter
<1>3. TypeOK /\ phase = "human"
    BY <1>1, CallFacts DEF LoanInv, CallPlaces, Call
<1>4. phase' \in Deciding /\ FinalAt[phase'] > 1 /\ phase' \in Phases
    BY <1>2, PhaseNames DEF FinalAt
<1>5. TypeOK'
    BY <1>1, <1>2, <1>3, <1>4, ScriptLengths, AttemptsAssumption DEF TypeOK
<1>6. Owned' BY <1>1, OwnedByOne
<1>7. Placed' BY <1>1, <1>2 DEF Placed
<1>8. decisions = {} /\ ~Decided
    BY <1>3, PhaseNames DEF LoanInv, Written, AtFinal, PastFinal
<1>9. ~AtFinal' /\ ~PastFinal'
    BY <1>1, <1>2 DEF AtFinal, PastFinal, FinalAt
<1>10. Written' BY <1>1, <1>8, <1>9 DEF LoanInv, Written, Decided
<1>11. NeedsHuman'
    <2>1. NeedsHuman BY <1>3 DEF LoanInv, Vetted
    <2> QED BY <1>1, <2>1 DEF NeedsHuman
<1>12. Vetted' BY <1>1, <1>2, <1>3, <1>11 DEF LoanInv, Vetted, FraudRejectIsUnreachable
<1> QED BY <1>5, <1>6, <1>7, <1>10, <1>12 DEF LoanInv

LEMMA SignalStep ==
    ASSUME LoanInv, NEW d \in {"APPROVE", "REJECT"}, SignalApproval(d) PROVE LoanInv'
<1>1. UNCHANGED <<application, request, loans, loan, run, status, phase, at, attempt, part, policy,
                  fraudScore, ai, foundRun, approval, decisions, audit, events>> /\ signal' = d
    BY DEF SignalApproval, gatewayVars, positionVars, resultVars, recordVars
<1>2. Verdict' = Verdict BY <1>1, UnmovedVerdict
<1>3. TypeOK' BY <1>1 DEF LoanInv, TypeOK
<1>4. Owned' BY <1>1 DEF LoanInv, Owned, OneLoanPerKey
<1>5. Placed' BY <1>1 DEF LoanInv, Placed, AtFinal, PastFinal
<1>6. Written' BY <1>1, <1>2 DEF LoanInv, Written, AtFinal, PastFinal, Decided
<1>7. Vetted' BY <1>1 DEF LoanInv, Vetted, NeedsHuman, FraudRejectIsUnreachable
<1> QED BY <1>3, <1>4, <1>5, <1>6, <1>7 DEF LoanInv

-----------------------------------------------------------------------------
(* Theorems.                                                                 *)

LEMMA InitialState == ASSUME Init PROVE LoanInv
<1>1. TypeOK
    <2>1. phase \in Phases /\ at \in 1..Len(Script[phase])
        BY ScriptLengths, PhaseNames DEF Init
    <2>2. attempt \in 1..MaxAttempts BY AttemptsAssumption DEF Init
    <2>3. run \in [status : {"ABSENT", "RUNNING", "COMPLETED"}, step : Steps \cup {NoneYet},
                  loanStatus : LoanStatuses \cup {NoneYet}]
        BY DEF Init, NoRun, NoneYet
    <2>4. request \in [Requests -> Stages] BY DEF Init, Stages
    <2> QED BY <2>1, <2>2, <2>3, <2>4 DEF Init, TypeOK, LoanStatuses
<1>2. Owned BY DEF Init, Owned, OneLoanPerKey
<1>3. "intake" \notin Deciding BY PhaseNames
<1>4. Placed BY DEF Init, Placed
<1>5. Written BY <1>3 DEF Init, Written, AtFinal, PastFinal, Decided, NoRun
<1>6. Vetted BY DEF Init, Vetted, FraudRejectIsUnreachable
<1> QED BY <1>1, <1>2, <1>4, <1>5, <1>6 DEF LoanInv

LEMMA InvariantStep == ASSUME LoanInv, [Next]_vars PROVE LoanInv'
<1>1. CASE Gateway BY <1>1, GatewaySteps DEF Gateway
<1>2. CASE Worker BY <1>2, ActivitySteps, CompletionStep, FailureStep, FinalizingStep, GateStep DEF Worker
<1>3. CASE Reviewer BY <1>3, SignalStep DEF Reviewer
<1>4. CASE UNCHANGED vars
    <2>1. UNCHANGED <<application, request, loans, loan, run, status, phase, at, attempt, part, policy,
                      fraudScore, ai, foundRun, signal, approval, decisions, audit, events>>
        BY <1>4 DEF vars, gatewayVars, positionVars, resultVars, humanVars, recordVars
    <2>2. Verdict' = Verdict BY <2>1, UnmovedVerdict
    <2>3. TypeOK' BY <2>1 DEF LoanInv, TypeOK
    <2>4. Owned' BY <2>1 DEF LoanInv, Owned, OneLoanPerKey
    <2>5. Placed' BY <2>1 DEF LoanInv, Placed, AtFinal, PastFinal
    <2>6. Written' BY <2>1, <2>2 DEF LoanInv, Written, AtFinal, PastFinal, Decided
    <2>7. Vetted' BY <2>1 DEF LoanInv, Vetted, NeedsHuman, FraudRejectIsUnreachable
    <2> QED BY <2>3, <2>4, <2>5, <2>6, <2>7 DEF LoanInv
<1> QED BY <1>1, <1>2, <1>3, <1>4 DEF Next

\* The invariant holds in every reachable state.
THEOREM LoanInvariance == Spec => []LoanInv
BY InitialState, InvariantStep, PTL DEF Spec

\* Submissions, activities, retries and signals keep every variable in its range:
\* above all, the activity that runs is always one of the script of its phase.
THEOREM LoanTypes == Spec => []TypeOK
<1>1. LoanInv => TypeOK BY DEF LoanInv
<1> QED BY <1>1, LoanInvariance, PTL

\* The gateway: one application per idempotency key, however submissions interleave.
THEOREM KeysAreUnique == Spec => []OneLoanPerKey
<1>1. LoanInv => OneLoanPerKey BY DEF LoanInv, Owned
<1> QED BY <1>1, LoanInvariance, PTL

\* finalizeDecision: its rows, the application and the run never disagree.
THEOREM RecordsNeverDisagree == Spec => []RecordsAgree
<1>1. ASSUME LoanInv PROVE RecordsAgree
    BY <1>1 DEF LoanInv, Written, RecordsAgree, Decided
<1> QED BY <1>1, LoanInvariance, PTL

\* No outcome is audited or published before it is decided.
THEOREM AnnouncementsAreDecided == Spec => []AnnouncedIsDecided
<1>1. ASSUME LoanInv PROVE AnnouncedIsDecided
    BY <1>1 DEF LoanInv, Written, AnnouncedIsDecided
<1> QED BY <1>1, LoanInvariance, PTL

\* Every path of the workflow to its return has decided the application.
THEOREM ReturnsAreDecided == Spec => []ReturnedIsDecided
<1>1. ASSUME LoanInv PROVE ReturnedIsDecided
    BY <1>1 DEF LoanInv, Placed, Written, ReturnedIsDecided, Decided, AtFinal
<1> QED BY <1>1, LoanInvariance, PTL

\* The branches of the workflow approve nothing without an answer of OPA, or against its
\* denial or a critical violation; what risk, recommendation or flags put before a reviewer
\* is approved by a reviewer, and all else by the AI alone, whatever else the policy said.
THEOREM ApprovalsAreAccountedFor == Spec => []ApprovalIsAccountedFor
<1>1. ASSUME LoanInv PROVE ApprovalIsAccountedFor
    <2> SUFFICES ASSUME NEW d \in decisions, d.status = "APPROVED"
                 PROVE  /\ "CRITICAL" \notin application.violations
                        /\ policy.decision \in RuledDecisions(application) \ {"DENY"}
                        /\ IF AsksForReviewer THEN d.by = "HUMAN" /\ approval = "APPROVE"
                                              ELSE d.by = "AI" /\ ai.recommendation = "APPROVE"
        BY DEF ApprovalIsAccountedFor
    <2>1. Verdict.status = "APPROVED" /\ d.by = Verdict.by /\ phase \in Deciding
        BY <1>1 DEF LoanInv, Written, AtFinal, PastFinal
    <2>2. phase \in {"reviewed", "automatic"}
        BY <2>1, PhaseNames DEF Verdict
    <2>3. application \in ApplicationFacts /\ policy \in PolicyAnswers(application) /\ policy.decision # "DENY"
        BY <1>1, <2>2, ApplicationsAssumption DEF LoanInv, TypeOK, Vetted
    <2>4. /\ "CRITICAL" \notin application.violations /\ policy.flags = application.flags
          /\ policy.decision \in RuledDecisions(application) \ {"DENY"}
        BY <2>3, RuledAnswers
    <2>5. AsksForReviewer <=> NeedsHuman
        BY <2>4 DEF AsksForReviewer, NeedsHuman
    <2>6. CASE phase = "reviewed"
        <3>1. approval = "APPROVE" /\ d.by = "HUMAN" BY <2>1, <2>6 DEF Verdict
        <3>2. NeedsHuman BY <1>1, <2>6 DEF LoanInv, Vetted
        <3> QED BY <2>4, <2>5, <3>1, <3>2
    <2>7. CASE phase = "automatic"
        <3>1. ai.recommendation = "APPROVE" /\ d.by = "AI" BY <2>1, <2>7 DEF Verdict
        <3>2. ~NeedsHuman BY <1>1, <2>7 DEF LoanInv, Vetted
        <3> QED BY <2>4, <2>5, <3>1, <3>2
    <2> QED BY <2>2, <2>6, <2>7
<1> QED BY <1>1, LoanInvariance, PTL

\* After validation, no sum of fraud signals reaches the threshold of rejection.
THEOREM FraudRejectIsDead == Spec => []FraudRejectIsUnreachable
<1>1. LoanInv => FraudRejectIsUnreachable BY DEF LoanInv, Vetted
<1> QED BY <1>1, LoanInvariance, PTL

LEMMA UpdatesKeepDecisions == ASSUME LoanInv, UpdateLoan, Decided PROVE loan' = loan
BY DEF LoanInv, Written, UpdateLoan

\* A decision is never replaced, whatever is retried or signalled.
THEOREM DecisionsAreFinal == Spec => DecidedOnce
<1>1. ASSUME LoanInv, [Next]_vars PROVE [Decided => loan' = loan]_vars
    <2>1. CASE \E r \in Requests : CreateLoan(r)
        BY <1>1, <2>1 DEF CreateLoan, LoanInv, Owned, Decided
    <2>2. CASE UpdateLoan
        BY <1>1, <2>2, UpdatesKeepDecisions
    <2>3. CASE ~UpdateLoan /\ ~\E r \in Requests : CreateLoan(r)
        <3>1. loan' = loan
            BY <1>1, <2>3 DEF Next, Gateway, LookUp, StartWorkflow, RecordRun, AnnounceSubmission, RequestFails,
                 Worker, AttemptCompletes, AttemptFails, UpdateWorkflowStep, PublishWorkflowEvent, StoreAuditRecord,
                 PersistArtifacts, ValidateLoanRequest, EvaluatePolicy, RunFraudAnalysis, RunAIRiskAnalysis,
                 RequestHumanApproval, FindRun, InsertDecision, CompleteRun, GateAnswered, GateExpires, Gate,
                 Reviewer, SignalApproval, Done, vars
        <3> QED BY <3>1
    <2> QED BY <2>1, <2>2, <2>3
<1>2. Spec => [][Decided => loan' = loan]_vars
    BY <1>1, LoanInvariance, PTL DEF Spec
<1> QED BY <1>2 DEF DecidedOnce, Decided

-----------------------------------------------------------------------------
(* LoanApproval implements LoanLedger.                                       *)

Rows      == {[status |-> d.status, by |-> d.by] : d \in decisions}
Announced == {e.decision : e \in audit \cup events} \ {NoneYet}

\* The steps a ledger sees, by what they do to its three variables.
LEMMA LedgerFrame ==
    ASSUME LoanInv, [Next]_vars
    PROVE  \/ \E r \in Requests : CreateLoan(r)
           \/ InsertDecision \/ UpdateLoan
           \/ PublishWorkflowEvent \/ StoreAuditRecord
           \/ loan' = loan /\ Rows' = Rows /\ Announced' = Announced
<1>1. CASE PersistArtifacts \/ ValidateLoanRequest \/ EvaluatePolicy \/ RunFraudAnalysis \/ RunAIRiskAnalysis
           \/ RequestHumanApproval \/ UpdateWorkflowStep
    BY <1>1 DEF PersistArtifacts, ValidateLoanRequest, EvaluatePolicy, RunFraudAnalysis, RunAIRiskAnalysis,
         RequestHumanApproval, UpdateWorkflowStep, Done, recordVars, Rows, Announced
<1>2. CASE AttemptCompletes \/ AttemptFails \/ GateAnswered \/ GateExpires
    BY <1>2 DEF AttemptCompletes, AttemptFails, GateAnswered, GateExpires, Gate, recordVars, Rows, Announced
<1>3. CASE FindRun \/ CompleteRun
    BY <1>3 DEF FindRun, CompleteRun, Finalizing, Rows, Announced
<1>4. CASE Reviewer
    BY <1>4 DEF Reviewer, SignalApproval, recordVars, Rows, Announced
<1>5. ASSUME NEW r \in Requests, LookUp(r) \/ StartWorkflow(r) \/ RecordRun(r) \/ RequestFails(r)
      PROVE  loan' = loan /\ Rows' = Rows /\ Announced' = Announced
    BY <1>5 DEF LookUp, StartWorkflow, RecordRun, RequestFails, recordVars, Rows, Announced
<1>6. ASSUME NEW r \in Requests, AnnounceSubmission(r)
      PROVE  loan' = loan /\ Rows' = Rows /\ Announced' = Announced
    BY <1>6 DEF AnnounceSubmission, Rows, Announced
<1>7. CASE UNCHANGED vars
    BY <1>7 DEF vars, recordVars, Rows, Announced
<1> QED BY <1>1, <1>2, <1>3, <1>4, <1>5, <1>6, <1>7 DEF Next, Gateway, Worker

LEMMA LedgerStep == ASSUME LoanInv, [Next]_vars PROVE [Ledger!Next]_(Ledger!vars)
<1> USE DEF Ledger!Next, Ledger!vars
<1>0. [Ledger!Next]_(Ledger!vars) <=> Ledger!Next \/ (loan' = loan /\ Rows' = Rows /\ Announced' = Announced)
    BY DEF Rows, Announced
<1>1. CASE \E r \in Requests : CreateLoan(r)
    <2>1. PICK r \in Requests : CreateLoan(r) BY <1>1
    <2>2. Rows' = Rows /\ Announced' = Announced
        BY <2>1 DEF CreateLoan, recordVars, Rows, Announced
    <2>3. CASE loans = {}
        <3>1. loan = "ABSENT" /\ loan' = "PENDING" BY <2>1, <2>3 DEF CreateLoan, LoanInv, Owned
        <3>2. Ledger!Submit BY <2>2, <3>1 DEF Ledger!Submit, Rows, Announced
        <3> QED BY <3>2, <1>0
    <2>4. CASE loans # {}
        <3>1. loan' = loan BY <2>1, <2>4 DEF CreateLoan
        <3> QED BY <2>2, <3>1, <1>0
    <2> QED BY <2>3, <2>4
<1>2. CASE InsertDecision
    <2>1. loan' = loan /\ Announced' = Announced
        BY <1>2 DEF InsertDecision, Finalizing, Announced
    <2>2. status = "RUNNING" /\ Call[1] = "finalize"
        BY <1>2 DEF InsertDecision, Finalizing
    <2>3. phase \in Deciding
        BY <2>2, CallFacts DEF LoanInv, CallPlaces, Call
    <2> DEFINE v == [status |-> Verdict.status, by |-> Verdict.by]
    <2>4. v \in Ledger!Verdicts
        BY <2>3, PhaseNames DEF Ledger!Verdicts, Verdict
    <2>5. Rows' = Rows \cup {v}
        <3> DEFINE d == [status |-> Verdict.status, by |-> Verdict.by, attempt |-> attempt]
        <3>1. decisions' = decisions \cup {d} BY <1>2 DEF InsertDecision
        <3>2. d.status = Verdict.status /\ d.by = Verdict.by OBVIOUS
        <3> HIDE DEF d
        <3>3. Rows' = {[status |-> c.status, by |-> c.by] : c \in decisions \cup {d}}
            BY <3>1 DEF Rows
        <3>4. v = [status |-> d.status, by |-> d.by] BY <3>2
        <3> QED BY <3>3, <3>4 DEF Rows
    <2>6. \A u \in Rows : u = v
        BY DEF LoanInv, Written, Rows
    <2>7. loan # "ABSENT"
        BY <2>2 DEF LoanInv, Owned, OneLoanPerKey
    <2>8. CASE Rows = {}
        <3>1. decisions = {} BY <2>8 DEF Rows
        <3>2. loan = "PENDING" BY <2>7, <3>1 DEF LoanInv, Written, Decided
        <3>3. Rows' = {v} BY <2>5, <2>8
        <3>4. Ledger!Rule
            BY <2>1, <2>4, <2>8, <3>2, <3>3 DEF Ledger!Rule, Rows, Announced
        <3> QED BY <3>4, <1>0
    <2>9. CASE Rows # {}
        <3>1. Rows' = Rows BY <2>5, <2>6, <2>9
        <3> QED BY <2>1, <3>1, <1>0
    <2> QED BY <2>8, <2>9
<1>3. CASE UpdateLoan
    <2>1. Rows' = Rows /\ Announced' = Announced /\ loan' = Verdict.status
        BY <1>3 DEF UpdateLoan, Finalizing, Rows, Announced
    <2>2. status = "RUNNING" /\ Call[1] = "finalize" /\ part = "inserted"
        BY <1>3 DEF UpdateLoan, Finalizing
    <2>3. AtFinal
        BY <2>2, CallFacts DEF LoanInv, CallPlaces, Call, AtFinal
    <2>4. PICK d \in decisions : d.status = Verdict.status
        BY <2>2, <2>3 DEF LoanInv, Written
    <2>5. loan # "ABSENT"
        BY <2>2 DEF LoanInv, Owned, OneLoanPerKey
    <2>6. CASE Decided
        BY <1>3, <2>1, <2>6, <1>0, UpdatesKeepDecisions
    <2>7. CASE ~Decided
        <3>1. loan = "PENDING" BY <2>5, <2>7 DEF Decided
        <3>2. \E u \in Rows : u.status = Verdict.status
            <4>1. [status |-> d.status, by |-> d.by] \in Rows BY DEF Rows
            <4> QED BY <2>4, <4>1
        <3>3. Ledger!Decide BY <2>1, <3>1, <3>2 DEF Ledger!Decide, Rows, Announced
        <3> QED BY <3>3, <1>0
    <2> QED BY <2>6, <2>7
<1>4. CASE PublishWorkflowEvent \/ StoreAuditRecord
    <2>1. loan' = loan /\ Rows' = Rows
        BY <1>4 DEF PublishWorkflowEvent, StoreAuditRecord, Done, Rows
    <2> DEFINE e == Entry(Call[2])
    <2>2. Announced' = (Announced \cup {e.decision}) \ {NoneYet}
        BY <1>4 DEF PublishWorkflowEvent, StoreAuditRecord, Announced
    <2>3. CASE e.decision = NoneYet
        <3>1. Announced' = Announced BY <2>2, <2>3 DEF Announced
        <3> QED BY <2>1, <3>1, <1>0
    <2>4. CASE e.decision # NoneYet
        <3>1. CallPlaces(phase, at) BY CallFacts DEF LoanInv
        <3>2. phase \in {"reviewed", "automatic"} /\ PastFinal /\ e.decision = Verdict.status
            BY <2>4, <3>1, PhaseNames DEF Entry, CallPlaces, Call, PastFinal
        <3>3. Decided /\ loan = Verdict.status
            BY <3>2 DEF LoanInv, Written
        <3>4. loan \in {"APPROVED", "REJECTED"}
            BY <3>2, <3>3 DEF Verdict
        <3>5. Announced \subseteq {loan} /\ loan # NoneYet
            BY <3>4 DEF LoanInv, Written, Announced, NoneYet
        <3>6. Announced' = {loan} BY <2>2, <3>2, <3>3, <3>5
        <3>7. Ledger!Announce BY <2>1, <3>4, <3>6 DEF Ledger!Announce, Rows, Announced
        <3> QED BY <3>7, <1>0
    <2> QED BY <2>3, <2>4
<1> QED BY <1>0, <1>1, <1>2, <1>3, <1>4, LedgerFrame

\* The records of the application behave as the ledger promises.
THEOREM LedgerRefinement == Spec => LedgerSpec
<1>1. ASSUME Init PROVE Ledger!Init
    BY <1>1 DEF Init, Ledger!Init
<1> QED BY <1>1, LedgerStep, LoanInvariance, PTL DEF Spec, LedgerSpec, Ledger!Spec

=============================================================================
