-------------------------- MODULE DecisionPipeline --------------------------
(***************************************************************************)
(* The synchronous decisions of the decision service: each POST retrieves, *)
(* evaluates policies, asks the AI service, scores, stores, audits and     *)
(* announces, in this order and in no transaction, while the AI service    *)
(* works on and records its own analysis.  A caller that saw an error may  *)
(* post again: a call is one POST, and its decision has an id of its own.  *)
(***************************************************************************)
EXTENDS RiskAnalysis

CONSTANTS
    Calls,       \* POSTs, and the ids randomUUID() gives to their decisions
    Requests,    \* bodies considered
    Retrievals,  \* non-empty results of a retrieval
    Evaluations, \* results of a policy, as OPA gives them
    Watched,     \* any one of the calls, all being alike
    Nothing      \* no row, no answer, no evidence yet

ASSUME WatchedAssumption == Watched \in Calls
ASSUME RequestsAssumption == Requests \subseteq Request
ASSUME RetrievalsAssumption ==
    Retrievals \subseteq {rag \in Retrieval : rag.count > 0}
ASSUME EvaluationsAssumption == Evaluations \subseteq Evaluation /\ Unavailable \notin Evaluations
ASSUME NothingAssumption ==
    Nothing \notin Recommendations \cup Analysis \cup Request \cup Retrieval

VARIABLES
    stage,      \* the await each call is suspended in, or how it ended
    evidence,   \* what a call has gathered so far
    verdict,    \* the decision it computed
    job,        \* how far the AI service has come with the analysis for a call
    analysed,   \* ai_decisions: the analysis stored for a call
    rows,       \* governance_decisions: the evidence and the decision of each id stored
    audited,    \* calls with an audit record
    decided,    \* decision.* events on the topic of AI decisions
    completed   \* DECISION_COMPLETED events on the workflow topic
vars == <<stage, evidence, verdict, job, analysed, rows, audited, decided, completed>>
records == <<rows, audited, decided, completed>>

Stages == {"idle", "retrieving", "evaluating", "reasoning", "saving", "auditing",
           "publishing", "completing", "answered", "failed"}
Running == Stages \ {"idle", "answered", "failed"}

NoEvidence == [request |-> Nothing, rag |-> Nothing, policies |-> Nothing, ai |-> Nothing]

Init ==
    /\ stage = [c \in Calls |-> "idle"]
    /\ evidence = [c \in Calls |-> NoEvidence]
    /\ verdict = [c \in Calls |-> "MANUAL_REVIEW"]
    /\ job = [c \in Calls |-> "none"]
    /\ analysed = [c \in Calls |-> Nothing]
    /\ rows = << >>
    /\ audited = {} /\ decided = {} /\ completed = {}

Goto(c, s) == stage' = [stage EXCEPT ![c] = s]

-----------------------------------------------------------------------------
(* Gathering evidence: a failure of a service is an answer.                 *)

Receive(c) ==
    /\ stage[c] = "idle"
    /\ \E request \in Requests : evidence' = [evidence EXCEPT ![c].request = request]
    /\ Goto(c, "retrieving")
    /\ UNCHANGED <<verdict, job, analysed, records>>

Retrieve(c) ==
    /\ stage[c] = "retrieving"
    /\ \E rag \in Retrievals \cup {EmptyOutput} : evidence' = [evidence EXCEPT ![c].rag = rag]
    /\ Goto(c, "evaluating")
    /\ UNCHANGED <<verdict, job, analysed, records>>

\* The evaluations run together and are all awaited, then the AI service is asked.
EvaluatePolicies(c) ==
    /\ stage[c] = "evaluating"
    /\ \E policies \in [Paths -> Evaluations \cup {OpaUnavailable, Unavailable}] :
           evidence' = [evidence EXCEPT ![c].policies = policies]
    /\ Goto(c, "reasoning")
    /\ job' = [job EXCEPT ![c] = "analysing"]
    /\ UNCHANGED <<verdict, analysed, records>>

\* The answer is scored before anything else happens to the call.
Conclude(c, ai) ==
    /\ evidence' = [evidence EXCEPT ![c].ai = ai]
    /\ verdict' = [verdict EXCEPT ![c] = FinalDecision([evidence[c] EXCEPT !.ai = ai])]
    /\ Goto(c, "saving")

\* Mutant: the AI client waits as long as the service works.
FallbackWaits(c) ==
    /\ stage[c] = "reasoning" /\ job[c] = "done"
    /\ Conclude(c, EscalateFallback)
    /\ UNCHANGED <<job, analysed, records>>
\* No connection, an error, or no answer within 30 s: the service may work on.
Fallback(c) ==
    /\ stage[c] = "reasoning"
    /\ Conclude(c, EscalateFallback)
    /\ UNCHANGED <<job, analysed, records>>

-----------------------------------------------------------------------------
(* The AI service: analyse, store, announce, reply.                         *)

Analyse(c) ==
    /\ job[c] = "analysing"
    /\ \E ai \in Analyses(evidence[c].request) : analysed' = [analysed EXCEPT ![c] = ai]
    /\ job' = [job EXCEPT ![c] = "stored"]
    /\ UNCHANGED <<stage, evidence, verdict, records>>

\* The event AI_DECISION_MADE is awaited before the reply; a caller that has
\* given up does not get it.
Reply(c) ==
    /\ job[c] = "stored"
    /\ job' = [job EXCEPT ![c] = "done"]
    /\ IF stage[c] = "reasoning" THEN Conclude(c, analysed[c])
       ELSE UNCHANGED <<stage, evidence, verdict>>
    /\ UNCHANGED <<analysed, records>>

\* The model, the prompt store, the insert or the publication fails.
JobFails(c) ==
    /\ job[c] \in {"analysing", "stored"}
    /\ job' = [job EXCEPT ![c] = "done"]
    /\ UNCHANGED <<stage, evidence, verdict, analysed, records>>

-----------------------------------------------------------------------------
(* Recording the decision.                                                  *)

Row(c) == [evidence |-> evidence[c], decision |-> verdict[c]]
Insert(c) == rows' = [d \in DOMAIN rows \cup {c} |-> IF d = c THEN Row(c) ELSE rows[d]]
Event(c) == [id |-> c, decision |-> verdict[c]]

\* Mutant: the insert is not awaited.
SaveUnawaited(c) ==
    /\ stage[c] = "saving"
    /\ Insert(c) \/ UNCHANGED rows
    /\ Goto(c, "auditing")
    /\ UNCHANGED <<evidence, verdict, job, analysed, audited, decided, completed>>
\* An insert may have been committed although it failed for the service.
Save(c) ==
    /\ stage[c] = "saving"
    /\ \/ Insert(c) /\ Goto(c, "auditing")
       \/ (Insert(c) \/ UNCHANGED rows) /\ Goto(c, "failed")
    /\ UNCHANGED <<evidence, verdict, job, analysed, audited, decided, completed>>

\* emit swallows every error.
EmitAudit(c) ==
    /\ stage[c] = "auditing"
    /\ audited' \in {audited, audited \cup {c}}
    /\ Goto(c, "publishing")
    /\ UNCHANGED <<evidence, verdict, job, analysed, rows, decided, completed>>

PublishDecision(c) ==
    /\ stage[c] = "publishing"
    /\ \/ decided' = decided \cup {Event(c)} /\ Goto(c, "completing")
       \/ decided' \in {decided, decided \cup {Event(c)}} /\ Goto(c, "failed")
    /\ UNCHANGED <<evidence, verdict, job, analysed, rows, audited, completed>>

PublishCompleted(c) ==
    /\ stage[c] = "completing"
    /\ \/ completed' = completed \cup {Event(c)} /\ Goto(c, "answered")
       \/ completed' \in {completed, completed \cup {Event(c)}} /\ Goto(c, "failed")
    /\ UNCHANGED <<evidence, verdict, job, analysed, rows, audited, decided>>

\* The process stops between two awaits: the caller loses its connection.
CallDies(c) ==
    /\ stage[c] \in Running
    /\ Goto(c, "failed")
    /\ UNCHANGED <<evidence, verdict, job, analysed, records>>

-----------------------------------------------------------------------------
Pipeline(c) ==
    \/ Retrieve(c) \/ EvaluatePolicies(c) \/ Fallback(c)
    \/ Save(c) \/ EmitAudit(c) \/ PublishDecision(c) \/ PublishCompleted(c)
AiService(c) == Analyse(c) \/ Reply(c) \/ JobFails(c)

Next == \E c \in Calls : Receive(c) \/ Pipeline(c) \/ AiService(c) \/ CallDies(c)
Spec == Init /\ [][Next]_vars

\* Every await of the pipeline ends: retrieval, policies, AI and audit have
\* timeouts of their own, the driver and the producer give up in the end.
FairSpec == Spec /\ \A c \in Calls : WF_vars(Pipeline(c))

-----------------------------------------------------------------------------
(* Properties.                                                              *)

Decided(c) == c \in DOMAIN rows

\* A call is in one of its awaits, its verdict is one of the three, and only calls
\* have rows and audit records.
TypeOK ==
    /\ stage \in [Calls -> Stages] /\ verdict \in [Calls -> Recommendations]
    /\ DOMAIN evidence = Calls /\ DOMAIN job = Calls /\ DOMAIN analysed = Calls
    /\ \A c \in Calls : DOMAIN evidence[c] = {"request", "rag", "policies", "ai"}
    /\ DOMAIN rows \subseteq Calls /\ audited \subseteq Calls

\* A service that fails only sends an application to review: whatever the failed
\* services would have answered, the stored decision is the one it would have
\* been with their answers, or MANUAL_REVIEW.
FailureOnlyRefers ==
    \A c \in Calls : Decided(c) =>
       LET e == rows[c].evidence
       IN \A rag \in Retrievals \cup {EmptyOutput}, ai \in Analyses(e.request) \cup {e.ai},
             policies \in [Paths -> Evaluations \cup {OpaUnavailable, Unavailable}] :
             LET d == [request |-> e.request, rag |-> rag, policies |-> policies, ai |-> ai]
             IN  Completes(d, e) => rows[c].decision \in {"MANUAL_REVIEW", FinalDecision(d)}

\* Answers agree where neither of them stands for a failure.
Agree(d, e) ==
    /\ d.request = e.request
    /\ d.rag = e.rag \/ EmptyOutput \in {d.rag, e.rag}
    /\ \A p \in Paths : \/ d.policies[p] = e.policies[p]
                        \/ Unavailable \in {d.policies[p], e.policies[p]}
    /\ d.ai = e.ai \/ EscalateFallback \in {d.ai, e.ai}

\* A request posted again after an error, or twice at once, gets decisions of its
\* own; as long as the services do not contradict themselves one of them never
\* approves what the other rejects.
RetriesAgree ==
    \A c, d \in Calls :
       (Decided(c) /\ Decided(d) /\ Agree(rows[c].evidence, rows[d].evidence))
          => \/ rows[c].decision = rows[d].decision
             \/ "MANUAL_REVIEW" \in {rows[c].decision, rows[d].decision}

\* An analysis a decision rests on is on record in ai_decisions, although the AI
\* service and its caller give up on each other at any time.
AnalysisIsOnRecord ==
    \A c \in Calls : Decided(c) => rows[c].evidence.ai \in {EscalateFallback, analysed[c]}

\* What is approved was recommended for approval by a confident analysis of an
\* applicant who is verified and not sanctioned, and no policy named a violation
\* or could not be evaluated.
ApprovalIsWarranted ==
    \A c \in Calls : (Decided(c) /\ rows[c].decision = "APPROVE") =>
       LET e == rows[c].evidence
       IN  /\ e.ai.recommendation = "APPROVE" /\ e.ai # EscalateFallback
           /\ e.request.kycVerified /\ e.request.sanctionsHits = 0
           /\ ~(CompositeConfidence(e) < 7500)
           /\ \A p \in Paths : e.policies[p] # Unavailable
           /\ \A p \in Paths : e.policies[p].allow \/ e.policies[p].violations = << >>

\* Only stored decisions are audited and announced, as stored, and the workflow
\* hears of a decision only after the topic of decisions did; a caller that was
\* answered knows that both did.
AnnouncedIsStored ==
    /\ audited \subseteq {c \in Calls : Decided(c)}
    /\ completed \subseteq decided
    /\ \A event \in decided : Decided(event.id) /\ rows[event.id].decision = event.decision
    /\ \A c \in Calls : stage[c] = "answered" => Event(c) \in completed

\* Each call keeps the promise of DecisionRun: one verdict, stored at most once,
\* and announced only when stored.
Phase ==
    CASE stage[Watched] \in {"idle", "retrieving", "evaluating", "reasoning"} -> "deliberating"
      [] stage[Watched] \in {"answered", "failed"}                            -> "stopped"
      [] OTHER                                                                -> "settled"
Stored == IF Decided(Watched) THEN rows[Watched].decision ELSE Nothing
Announced == {event.decision : event \in {v \in decided \cup completed : v.id = Watched}}

Run == INSTANCE DecisionRun WITH
    NoVerdict <- Nothing, phase <- Phase, verdict <- verdict[Watched],
    stored <- Stored, announced <- Announced

RunSpec == Run!Spec

\* A call that was received is answered or fails.
CallsEnd == \A c \in Calls : stage[c] = "retrieving" ~> stage[c] \in {"answered", "failed"}

=============================================================================
