# The loan decision platform in TLA+

This directory models the concurrent core of the platform: the workflows that
decide about loans, the rows and topics those decisions end in, and the calls
that reach into a running workflow. Every module is translated from the source
files `PROJECT.json` names for it, line by line; TLC checks small instances and
TLAPS proves the theorems of the `*_proofs` modules for every value of the
constants.

## 1. The system

| Component | State it keeps | Operations | Talks to |
|---|---|---|---|
| `decision-service`: decision graph workflow (`workflows/`) | a Temporal run: current node, visited nodes, decision, gate flags | traverse the published graph, ask humans, store, audit, announce | its own activities, the rows, Kafka |
| `decision-service`: executions (`modules/execution`) | `decision_executions` rows | execute, retry, cancel, signal | Temporal, Postgres |
| `decision-service`: approvals (`modules/approvals`, `domain/approval-request.entity.ts`) | `approval_requests` rows, a Redis list of pending ones | approve, reject, delegate, list | executions, Kafka, Redis |
| `decision-service`: flows (`modules/flows`, `domain/decision-flow.entity.ts`) | `decision_flows`, nodes, `flow_snapshots` | create, publish, deprecate, list | Postgres, Redis |
| `decision-service`: engine (`engine/`, `scoring/`, `policies/`) | none between calls | evaluate a node, resolve the next node, score, merge | AI service, OPA, webhooks |
| `decision-service`: pipeline (`services/decision-pipeline.ts`) | `governance_decisions` rows | the synchronous decision (retrieve, reason, evaluate, score, store, announce) | AI service, OPA, Kafka, audit |
| `workflow-service`: loan workflow | a Temporal run: step, human decision | validate, policy, fraud, AI, human gate, finalise | policy and AI services, Postgres, Kafka, audit |
| `api-gateway` | `loan_requests`, `workflow_runs`, `approval_records` | submit, list, approve, adverse-action notice | Temporal, Postgres, Kafka |
| `audit-service` | `audit_logs`: one hash chain per tenant | append, verify, lineage | Postgres |
| `policy-service` | `policy_decisions` | evaluate (OPA, fail closed) | OPA, Kafka |
| `ai-execution-service` | `ai_decisions`, embeddings, prompt cache | analyse, embed, search | LLM, pgvector, Redis |
| `event-consumer`, `packages/kafka` | Redis projections, consumer offsets, a dead-letter topic | consume, retry, dead-letter, project | Kafka, Redis |
| `packages/crypto`, `database`, `telemetry`, `logger`, `shared-types`, `frontend`, `infra` | configuration, types, screens | - | - |

### What is hard here

* **At-least-once activities.** Temporal retries an activity whose completion
  was lost; none of the activities is idempotent by construction.
* **Signals and rows are written separately.** An approval call updates a row and
  then signals a workflow; either half can be missing, and two callers interleave.
* **Three clocks.** The gate timer, the pause timer and the run timeout race.
* **Cancellation from two sides.** A signal the workflow polls, and a Temporal
  cancellation that throws out of the next await, compensation included.
* **Chains and projections.** The audit chain is extended by read-then-insert;
  the consumers project events that may be repeated or out of order.

The hazards are listed, each at its line, in `PROJECT.json`.

## 2. The decision graph

`DecisionRun` is the contract of one execution, in four variables: it
deliberates, asks humans, settles on one verdict, stores that verdict at most
once, and announces only what it stored. `DecisionGraph` is the execution as the
code runs it. Its variables and actions correspond to the code as follows.

| In the model | In the code |
|---|---|
| `pc`, `attempt` | the `await` the workflow function is suspended in and the attempt number of the activity (`proxyActivities`, 3 attempts) |
| `node`, `visited`, `hops`, `decision` | `currentNodeId`, `visitedNodes`, `hops`, `finalDecision` |
| `approvalPending`, `approvalResolved`, `cancelled`, `paused` | the locals of the same name, written by the signal handlers |
| `answer` | the gate entries of the execution trace |
| `row`, `approvals` | the `decision_executions` row and the `approval_requests` rows |
| `events` | decisions published on the decision topics |
| `call`, `cancelCall` | API calls between two of their round trips |
| `cancelRequested`, `now`, `deadline` | Temporal: the cancellation, the clock, the timer of `condition()` |
| one action per activity | the activity's attempt with all of its outcomes, and the workflow code up to the next `await` |
| `GateCancelled`, `GateApproved`, `GateRejected`, `GateTimesOut`, `PauseEnds` | the continuations of the two `condition()` calls |
| `ReadApproval`, `UpdateApproval`, `SignalWorkflow`, `InsertDelegateRequest`, `CallFails` | the round trips of `approve`, `reject`, `delegate` |

**Abstractions.** Scores, confidence, traces and payloads are left out: what a
node makes of the decision is a choice from the set its kind allows
(`NodeDecisions`), and which edge it takes a choice from its edges. An edge to a
missing node ends the loop like an undefined one. An attempt that timed out does
not write later than its successor. Temporal cancels cooperatively: the
outstanding activity finishes, the next `await` throws. Signal delivery is atomic with its acceptance. The run timeout
closes the run without running any of its code. `unsignalled` is a history
variable: no action reads it.

**Bounds.** `Approvals` bounds the number of requests (an insert that finds none
free does not happen), `GateDue`, `PauseDue` and `RunTimeout` are ticks, and
`MaxAttempts` is 1 (gates) or 2 (operators) instead of 3: one loss and one exhaustion are
distinct already at 2. Two gates in a row with two reviewers is the smallest flow on
which gates can confuse their answers and reviewers can race; a cycle with a dangling
edge the smallest on which the traversal returns to a node and falls off the graph.
`CHECK_DEADLOCK FALSE` is right: a closed run with no call in flight really stops.

| Run | What it shows |
|---|---|
| `gates` (3.8 M states) | `RejectIsFinal`, `WaitingGateCanBeAnswered`, `EscalatedGateIsUnanswered`, and that the execution implements `DecisionRun` (`RunSpec`) |
| `operators` (2.3 M states) | `ReturnedRunIsCompleted`, `StoredDecisionIsWrittenOnce`, and the liveness property `WorkerComesToRest` (hence no symmetry) |
| `stale_answer` | a disagreement between the code and what its comments promise, see `findings` |

**Fairness.** `FairSpec` assumes weak fairness of the worker only: it polls its
queue as long as the run is open. Reviewers, operators and time may stop.

**Proofs.** `DecisionGraph_proofs` proves `Spec => []IInv` and from it the types, all
invariants of the passing runs, `AnnouncedIsStored`, `NoNodeRunsTwice`, the action property
`StoredDecisionIsWrittenOnce`, and `Spec => RunSpec`. The assumptions are the four
named ones of `DecisionGraph`. `RejectIsFinal` alone is not inductive: it needs to know
that a rejected run never iterates again (`Verdict`), that a gate in progress is
unanswered and was entered only now (`Position`), that the row holds the decision
once the completion is reported (`Storage`), and for the gates that calls in flight are
about requests that exist (`Genuine`, `Answerable`). Every place where the loop goes
on is summarised once by `Entered`. Liveness stays with TLC.

## 3. The loan application

`LoanLedger` is what the records of one application promise: it is taken in once, one
verdict is written, the application carries it for good, and only a carried verdict is
announced. `LoanApproval` is the application as the code handles it.

| In the model | In the code |
|---|---|
| `request`, `LookUp` ... `AnnounceSubmission`, `RequestFails` | the five round trips of `POST /loans`, after each of which the gateway may stop |
| `loans`, `loan`, `run` | the `loan_requests` rows with the key, the status column, the `workflow_runs` row |
| `phase`, `at`, `Script`, `Branch` | the `await` of `loanApprovalWorkflow`: its activity calls in order, and its conditions |
| `attempt`, `part`, `AttemptFails`, `AttemptCompletes` | the retry policy, and how far into its writes an attempt has come |
| `FindRun`, `InsertDecision`, `UpdateLoan`, `CompleteRun` | the four statements of `finalizeDecision`, in no transaction |
| `PolicyAnswers`, `Deny`, `Allow` | `approval.rego` behind the fail-closed client of the policy service |
| `FraudScore` | the sum of the fraud signals, in tenths |
| `signal`, `SignalApproval`, `Gate...` | the signal handler, `POST /loans/:id/approval`, the 24 h `condition` |

**Abstractions.** An application is the set of facts the rules read from it
(`ApplicationFacts`); `ApplicationsAssumption` states how approval.rego relates them. The
rows of `fraud_analyses`, `policy_evaluations` and `ai_decisions` are only written and are
left out, as are the links between rows. The analyser may return any risk with any
recommendation. A lost attempt does not write later than its successor. Both submit
routes are the same handler for this purpose.

**Bounds.** Six kinds of application, one for each combination that takes a branch of
its own; two submissions, since a third can only do what the second does; 2 attempts
instead of 3. With `OpaMayFail` the policy service may be unable to ask OPA.

| Run | What it shows |
|---|---|
| `decisions` (0.9 M states) | `RecordsAgree`, `ApprovalIsAccountedFor` (OPA answered and did not deny; a reviewer approved where flags, risk or recommendation ask for one, and the AI alone everywhere else, HIGH violations included: §11), `ReturnedIsDecided`, `FraudRejectIsUnreachable`, the refinement of `LoanLedger` (one application per key, a decision that stays, announcements of carried decisions only), and `WorkflowComesToRest` |

**Fairness.** The worker polls its queue while the workflow is open and Temporal fires
timers: `WF_vars(Worker)`. Submissions and reviewers may stop at any point.

**Proofs.** `LoanApproval_proofs` proves `Spec => []LoanInv`, the types, all invariants of the passing
run, `OneLoanPerKey`, `AnnouncedIsDecided`, `DecidedOnce` and `Spec => LedgerSpec`, for every set of submissions and applications.
`ApprovalIsAccountedFor` says no more than the code does: the policy's own answer MANUAL_REVIEW asks for no reviewer.
`RecordsAgree` is not inductive: that a retried `finalizeDecision` writes what the first
attempt wrote needs the verdict to be a function of what does not change any more, which is
what the position says (`Placed`, `Written`); that nothing forbidden is approved needs what
each branch has established (`Vetted`: among it that before a reviewer stands what asks for one, and nothing else); one decision per key needs the owner of the row
(`Owned`).

## 4. The audit log

`AuditChain` models `createRecord` (one read, one insert, one commit) and
`verifyChainIntegrity`. A record is named by the call that creates it, and its hash stands
for it, so `previousHash` holds a call: hashes are taken to be collision free. `Rows` is what
READ COMMITTED shows, `Latest` the answers `findFirst` may give when rows share a
millisecond, `Listings` the orders `findMany` may return, `Linked` the loop over one. The
clock is one for service and database; `createdAt` is any time between the hashed
`timestamp` and the insert, which covers both meanings of `now()` (start of the transaction,
time of the statement). `committed` is history. A record without a loan counts as one of a
loan of its own; whoever calls again after an error is the same call begun anew.

What the code guarantees is `ChainInv`: a record names a row of its tenant, and no row that
was committed before its call began is newer than the one it names. From it follows `SerialChain`: as long
as calls of a tenant do not overlap, its records are one chain, in order. Without a lock the
code guarantees no more. `ContiguousTrailVerifies` says exactly when the verification of a loan
succeeds: even without overlap it fails as soon as another loan of the tenant is audited in
between. `BrokenStaysBroken` says that a verdict against a trail is never revised.

| Run | What it shows |
|---|---|
| `chain` (0.9 M states) | four calls about two loans of one tenant and one of another, two ticks: two overlapping pairs, a record of another loan in between, and a later repair attempt all fit |

**Proofs.** `AuditChain_proofs` proves `ChainInv` invariant (its parts are inductive only together: the
times bound what a snapshot can miss), the types, `SerialChain`,
`BrokenStaysBroken` and `ContiguousTrailVerifies`, for any number of calls, loans and tenants. `BrokenStaysBroken` is an argument about
listings: a record committed now is nobody's predecessor, so it can only end a listing that
verifies, and without it the listing verified before. `ContiguousTrailVerifies` relates a listing to the
order of a tenant's records, in both directions, and both are inductions over the listing (§11).

## 5. Flows and their executions

`FlowLife` is the life of a flow as its tables should show it: drafted, published and
deprecated, in this order and once each, with a snapshot from the publication on.
`FlowService` is how the code gets there, and implements it. `FlowExecutions` is the
execution service on top of `FlowLife`: it depends on flows only through what that
contract says.

| In the model | In the code |
|---|---|
| `status`, `snapshots` | `decision_flows.status`, `flow_snapshots.flow_id` |
| `edit`, `LoadToPublish`, `LoadToDeprecate`, `Publish`, `Deprecate` | `publishFlow` and `deprecateFlow`: the copy is loaded and judged, later written in a transaction |
| `MayInsertSnapshot` | `UNIQUE (flow_id, version)`; no statement changes a flow's version |
| `rows` | `decision_executions`; AWAITING_APPROVAL, which only the run itself sets, counts as RUNNING |
| `request` | the arguments an execution id was issued for, which are its workflow's input |
| `call`, `ExecuteFlow` ... `StartWorkflow`, `MarkFailed` | the round trips of `executeFlow`, `retryExecution`, `cancelExecution`; `CallDies` between any two |
| `Found`, `Resolve` | `findSnapshotById` and `findLatestSnapshot`, and that finding none is no error |
| `runs`, `Begin`, `Complete`, `Return`, `RunFails` | the graph workflow, reduced to the graph it loads and the statuses it writes |

The code has no lock and no version check, so what protects a flow is the unique index alone:
a publication and a deprecation whose copies are out of date must fail there. `LifeSpec` says
that they do; with the index gone TLC finds a flow that is deprecated and then
published again (`publishFlow` refuses published copies only). What protects an execution is that a released flow never loses its snapshot: an
execution is accepted on one read of the flow and resolved on a second, its run resolves again,
and `LoadFindsGraph` and `RetryRunsSameGraph` say that the reads agree in spite of
deprecations in between and of snapshot ids that do not exist.

`SerialKeyRunsOnce` needs its hypothesis. Two calls that look one key up at the same time start
two runs: the second insert does nothing, its caller is answered with an id that has no row
and its workflow decides with every UPDATE hitting nothing. `contended` is the history
variable that remembers such keys; for all others a key names one execution, which has its row.

`CachedReads` puts the three reads the service keeps in Redis on top: the list of flows
(a minute), a completed execution, the pending approvals (half a minute). A reader that misses
queries (`Query`) and stores what it got one round trip later (`SetEntry`); a writer deletes the
entry after its write (`InvalidateEntry`), unless Redis is away or its process stops
(`InvalidationFails`). `EditFlows` is `FlowService`'s next-state relation, so the module
implements `FlowService` and with it `FlowLife`. `late` marks an entry that was out of date when
it was stored. `read` picks which of the three caches a behaviour is about, as they share nothing.

**Bounds.** Two flows and as many snapshots (one more for `flows`, so that a
second snapshot would have an id), three editors: two stale copies of
different kinds and a third call; two clients, one key: the smallest race, a third only repeats
it; two executions: a failed one and its retry. `IdsLeft` keeps a call from starting
when the ids are used up. One reader: readers meet only in the entry, and a second one could
only fill it again. Three writes of an execution and one lost invalidation: enough to
outdate an entry again after it was made good. `CHECK_DEADLOCK FALSE`: when nothing is left to
call, nothing happens.

| Run | What it shows |
|---|---|
| `flows` (1.4 M states) | `CachedReads`: `LifeSpec` (the life of a flow, through any stale copies), `StaleOnlyByRace`, `CachesCatchUp` |
| `executions` (0.8 M states) | `RetryRunsSameGraph`, `SerialKeyRunsOnce` |

**Fairness.** `Expire` is weakly fair, as the keys have a time to live, and a query that was begun
ends. Writers, who may stop before they invalidate, are not.

**Proofs.** `Flows_proofs` proves `FlowInv` invariant and the refinement: the step
that matters is a publication of a copy whose flow has been released since, which the
uniqueness of snapshots refuses, and a deprecation of a copy of a flow already
deprecated, which is a stutter (`CopiesLag`). It also proves that `CachedReads` implements
`FlowService` and keeps `StaleOnlyByRace`, which is inductive with the ranges of four variables
(`CacheInv`); `EntryKept` is what every step that leaves the entry alone has to show.
`FlowExecutions_proofs` proves `Spec => []ExecutionInv` and from it the types,
`LoadFindsGraph` and the properties of the run, for any
number of flows, clients, keys and executions. `Kept` names what all but two kinds of
step have in common; the insert (`SaveExecutionStep`) and the changes of flows (`FlowsStep`)
are argued on their own.

## 6. The two engines

A published flow is run by the loop of the graph workflow (with the activity
`executeGraphNode`), or in process by `GraphEngine`. Both call `NodeExecutor.execute`, but each
has a context, a merge of outputs and a gate of its own. `NodeExecutor` is the pure part: what
a node makes of an answer and which edge it takes. `FlowEngines` runs one flow in both: the
workflow first, then `GraphEngine`, to which the services answer what they answered before.
`GraphWalk` is what either promises of the graph.

| In the model | In the code |
|---|---|
| `eng[e].phase`, `at`, `trace`, `visited`, `outputs` | where the loop is, `currentNodeId`, `trace`, `visitedNodes`, `nodeOutputs` |
| `eng[e].ctx` | `riskScore`, `confidence` and `finalDecision` of the `ExecutionContext`, which the two engines initialise differently |
| `eng[e].retry`, `eng[e].attempt` | the retry loop of a node, and Temporal's attempts of the activity around it |
| `Complete`, `AttemptThrows`, `AttemptTimesOut`, `ActivityLost`, `Reattempted` | the ends of one attempt: an answer, an exception, the timer of `executeWithTimeout`, a lost worker |
| `Result`, `ResolveNext`, `Throws` | `execute`, `resolveNextNode`, and the node without a fallback |
| `Propagate`, `MergeOutputIntoContext` | the scalars the activity extracts and the loop copies; `mergeOutputIntoContext` |
| `GateApproved`, `GateCloses`, `PhaseAt` | the gate of the workflow; `GraphEngine` stops there and asks for a review |
| `FinalDecision`, `InferDecision` | the decision reported, which `GraphEngine` infers when no node made one |
| `Created` | what `createFlow` keeps of the nodes it is given |
| `answered` | history: the answers the services gave |

**Abstractions.** Risk and confidence are in percent; expressions are those over risk, confidence, decision
and hard blocks, with the defaults of the code for values that are not set. One over hard blocks names a node by its UUID; the
evaluator refuses the hyphen, so that it is false whatever the node came up with. A policy that
passes and one that is violated softly lead the same way. Signals, rows and events of
the workflow are in `DecisionGraph`.

**Bounds.** Six published flows: a lending flow with a gate, one routed by values not set yet, one with
a cycle and a node leading back to itself through its fallback, two whose AI node may time out, one in which no node
decides; and a draft that came through `createFlow`. Five analyses: sound, doubtful, refusing,
approving at high risk, and one of risk 0, which the code takes for a missing value.
`CHECK_DEADLOCK FALSE`: when both engines rest, nothing is left to do.

| Run | What it shows |
|---|---|
| `engines` (3,669 states) | where the engines part (`EnginesPartOnlyAtUnsetValue`, `DecisionsDifferOnlyByInference`), what an approval rests on (`ApprovalIsEarned`, `OutageIsNotApproved`), what a created flow is worth (`CreatedFlowsDecideNothing`), that both implement `GraphWalk` (`EnginesWalk`) and stop (`EnginesRest`) |

The engines agree less than one would think. A confidence nobody has set counts as 0 for the workflow, which
starts with it, and as 1 for `GraphEngine`; a flow in which no node decides ends in a review in the one and in an inferred
decision in the other. `OutageIsNotApproved` holds because the answer that stands for a failing AI
service has risk 1; it says nothing of an AI node that ran into its own timeout (`impatient`), because then there is no
analysis: a `SCORE` node behind it scores the initial risk 0 and may approve.

**Fairness.** `WF_vars(Next)`: Temporal attempts, retries and times out what it was given; a reviewer or
the gate's timer answers; the event loop runs `GraphEngine` on.

**Proofs.** `Flows_proofs` proves `SpecEngines => []EnginesInv` and from it every safety property of the run and
the refinement `EnginesWalk`, for any set of published flows and drafts, any answers and numbers of attempts. A flow is
any graph with a START node and an END; the model gives the flows of a run as `Graphs` and `Drafts`, with that as
`GraphsAssumption`. The invariant says that a run is determined by its path and the answers it was given:

| Part of `EnginesInv` | What it says |
|---|---|
| `FlowOK` | the entry is a START node; a flow that came through `createFlow` has no edges |
| `Answered` | `GraphEngine` starts when the workflow rests; an answer is one the node's kind can get; what has an output was answered |
| `Shape` | the path starts at the entry and enters no node twice; what the phase says of its last node |
| `History` | each output and each next node is what `Result` makes of the answers and the context so far, and the context is the fold of the outputs (but for the decision a closed gate puts in) |

`ApprovalIsEarned` follows from `History` by looking for the last node that decided, `OutageIsNotApproved` from
that one. `EnginesPartOnlyAtUnsetValue` and `DecisionsDifferOnlyByInference` compare two runs: as long as two paths agree and no expression
has read a value that is not set, the two contexts agree but for such values, so the paths go on to agree. The proof is
one induction over the common path, and the definitions it uses (`ContextOf`, `Replays`) take a
state of an engine as parameter, so that a lemma serves both engines and both ends of a step.
`OutageIsNotApproved` has a hypothesis of its own, `Discerning`: a `SCORE` node whose bound is 100 approves everything, an
outage included; the code does not refuse such a node. `EnginesRest` is liveness and stays with TLC.

## 7. The synchronous pipeline

`DecisionPipeline` is the class of this name (`executeUnderwriting` and its three siblings) from the request to the second event, for several calls
at once; `GovernanceScoring` computes the decision, `RiskAnalysis` the analyses of the AI service.
It implements `DecisionRun`, the contract of §2, for each call.

| In the model | In the code |
|---|---|
| `stage`, `Retrieve` ... `PublishCompleted`, `CallDies` | the awaits of `DecisionPipeline.execute`, and the process stopping between them |
| `evidence`, `verdict` | the local results, and the decision computed from them |
| `job`, `analysed`, `Analyse`, `Reply`, `JobFails` | the request in the AI service, which goes on after its caller gave up, and its `ai_decisions` row |
| `rows`, `audited`, `decided`, `completed` | `governance_decisions`, audit records, the two topics |
| `Fallback`, `EmptyOutput`, `OpaUnavailable`, `Unavailable` | the answers that stand for failures: each service fails in its own way |
| `NegativeSignals`, `RiskScore`, `CompositeConfidence`, `EscalationReasons`, `FinalDecision` | `ConfidenceScorer` and the decision rule |
| `MockAnalysis`, `Rules` | the deterministic analyser |

**Abstractions.** Scores are in ten-thousandths, which is what `toFixed(4)` keeps; a mean is rounded once.
A request is the set of facts the scorer and the analyser read. Explanations are text and left out,
as are prompts and responses kept in MinIO. An insert or a publication that failed may have happened.

**Bounds.** `pipeline` posts one sparse application twice (a retry, or a double click), with one policy:
each further call or policy only repeats it. `scoring` posts each of four applications once, with two
policies and the deterministic analyser: sound, sparse (the retrieval decides), not verified, on a sanctions list.

| Run | What it shows |
|---|---|
| `pipeline` (0.45 M states) | `RetriesAgree`, the refinement of `DecisionRun` (`RunSpec`), and that every call ends (`CallsEnd`) |
| `scoring` (24,933 states) | `FailureOnlyRefers`: what fails turns a decision into a review and into nothing else; `ApprovalIsWarranted` |

`FailureOnlyRefers` is the property that is easiest to break by tuning weights: it needs the
fallback of each service to be the worst answer it could have given, in a sum in which most terms
only count in one direction. `ApprovalIsWarranted` speaks of violations, not of `allow`: a
policy that does not allow but names no violation counts as passed.

**Fairness.** `WF_vars(Pipeline(c))`: retrieval, policies, AI and audit have timeouts, the driver and
the producer give up in the end. The AI service need not answer, and clients need not post.

**Proofs.** `DecisionPipeline_proofs` proves `Spec => []PipelineInv` (ranges, what a stage says about the
records, that a row is what its call computed) and from it the types, `AnnouncedIsStored`, `AnalysisIsOnRecord`, and
`Spec => RunSpec`; and, with `Judged` (a verdict is `FinalDecision` of its evidence), `ApprovalIsWarranted`, for any
requests, policies and answers. `AnalysisIsOnRecord` needs that an analysis is stored before
its reply and never replaced. `Grounded` adds what evidence can be: documents of the request or none, an analysis of the
request or the fallback (`AnswersAreGrounded`). With it `RetriesAgree` and `FailureOnlyRefers` are theorems about the scorer: the first compares two
decisions whose evidence differs only where a service failed, the second a decision with what it would have been
without the failures, term by term of the weighted sum and reason by reason of the escalation.

## 8. Events and projections

`EventProjection` takes an event from its producer through Kafka into Redis.

| In the model | In the code |
|---|---|
| `Publish`, `Resend`, `sent`, `Script` | the producers, which are not idempotent; a random key picks the partition |
| `Receive`, `Write`, `Done`, `hand`, `Writes` | `eachMessage` and the handlers, by the commands they issue |
| `Throws` | the handlers that miss a field in what the loan workflow publishes |
| `DeadLetter`, `Replay`, `dead`, `gaveUp` | the dead-letter topic with `x-retry-count`, and log lines for what did not get there |
| `Commit`, `Crash`, `Evict`, `Resume`, `owner`, `position`, `committed` | the consumer group: offsets are committed later than messages are handled |
| `redis`, `written` | the cached statuses, and the commands executed |
| `skipped` | history: what a new owner started behind (`fromBeginning: false`) |

**Abstractions.** The topics are one. Keys do not expire. Metrics and logs are left out, except the two
lines by which a message is given up. The counters and sorted sets are in `written` only.

**Bounds.** Two members and two partitions, one of which the group has not read before, one crash or eviction, one repeated send or
replayed letter, one retry: a message can be handled twice, by an owner and by a member that does
not know it has lost the partition. The workflow's second event is one its consumers cannot read.
`CHECK_DEADLOCK FALSE`: nobody has to publish.

| Run | What it shows |
|---|---|
| `projection` (0.68 M states) | `NothingVanishes` (a committed message left its writes or a trace), `ShownIsNotStale` (a cached status is not overtaken within its partition), `KeepsUp` (a message that fails does not block the ones behind it) |

What the projection does not promise is as telling: between partitions nothing is ordered, so the
events of a workflow overwrite each other as they come; a member that lost its partition may
write last; redelivered decisions are counted again.

**Fairness.** `WF(Handle(m))`, `WF(Commit(p))`: a running member polls, its commands end and its offsets are committed every few seconds.

**Proofs.** `EventProjection_proofs` proves `Spec => []ProjectionInv` and from it the types, `NothingVanishes`, `RetriesEnd`
and `ShownIsNotStale`, for any members, partitions, scripts and faults. A message that was
settled in memory must have left its traces before its offset is committed (`Passed`, `Accounted`, `InHand`), and that must survive a hand-over, where an owner
goes back to an offset or skips to the end.

## 9. Documents and retrieval

`PassageRanking` is the pure half: the chunker, and what happens to the hits of a search.
`DocumentIndex` has the ingestions, deletions and searches.

| In the model | In the code |
|---|---|
| `Segments`, `WithParagraph`, `WithSentence` | `chunkDocument`: paragraphs merged, long ones split into what the sentence pattern matches |
| `Passage`, `LastPieces`, `Cut` | `chunkDocument`, its last loop: each chunk but the first begins with the last `chunkOverlap` characters of the segment before |
| `DeduplicateChunks`, `RankChunks`, `AssembleContext` | the functions of the same names |
| `stage`, `CreateIngestionJob` ... `PublishIngested` | the awaits of `ingestDocument` |
| `pending`, `InsertChunk`, `CommitChunks`, `table` | `insertChunks`: a transaction with one INSERT for each chunk |
| `tries`, `Embedded`, `EmbeddingFails` | the provider with its retries |
| `Split`, `After` | the sentence loop of a paragraph longer than a chunk, and the buffers it leaves empty |
| `SemanticSearch`, `Hits`, `Turns` | the query: an approximate index, ordered and cut at `topK`, rows of equal distance in any order of the ingestions; then deduplicated and ranked |
| `WriteRetrievalAudit`, `PublishRetrieval`, `answer` | the audit row comes before anyone sees a chunk; an analysis does not wait for the event |
| `DeleteChunks`, `Concerns` | `deleteChunks`, one statement |
| `removed` | history: chunks that were deleted |

**Abstractions.** A document is its paragraphs, and these are pieces with their lengths: a piece that `ends` is a sentence
with its full stop, one that does not is what the pattern of `chunker.ts:60` cannot match, stops that stand alone or
what follows the last one. White space that trimming removes is not counted. A similarity is a score of each piece, and of a chunk that of the
best one it says or touches with its overlap. A token is four characters of a chunk and its header, and the header has
one length. Chunks are embedded in one batch. Filters on metadata
and jurisdiction are left out. The approximate index may miss any rows.

**Bounds.** Two versions of a policy, the older of which matches better in part, and a handbook of
another tenant longer than a chunk, with stops that stand alone and an unfinished end; chunks of 10 characters that overlap by 6 (the
default is 2000 and 200) and headers of 4, so that there are segments of one and of several pieces, tails that are a whole segment, its last
sentence or parts of two, and the budget of a query cuts some answers short; two ingestions, one search, one deletion, one retry.

| Run | What it shows |
|---|---|
| `rag` (0.47 M states) | `JobsTellTheTruth`, `AnswersAreSound` (no position of a source is handed out twice, nothing over budget, only what was asked for), `NothingIsSkipped` (what the chunker may lose, repeat and exceed, and what not), `CallsEnd` |

Chunks of an old and of a new version of a source are handed out together when their positions differ: a source may speak twice,
and contradict itself. `NothingIsSkipped` excuses what the chunker does on purpose, the overlap, and what its pattern loses, and nothing else.

**Fairness.** `WF(Ingest(i))`, `WF(Retrieve(s))`: embeddings, statements and publications end, with an
answer or an error. Clients need not call.

**Proofs.** `DocumentIndex_proofs` proves `Spec => []IndexInv` and from it the types, `DocumentsAreWhole`, `JobsTellTheTruth` and
`AnswersAreAudited`, for any number of calls and any documents. The invariant says what of a
document is pending, stored or deleted at each stage; `AnswersAreAudited` needs that an audit row is written with the hits that are handed out later.

`NothingIsSkipped` and `AnswersAreSound` are about the algorithms: for any texts and sizes of chunks, any table, query and
choice of the approximate index. `LookupInv` ties them to the state: passages are what `Cut` made of the document, what was found is `SoundFor` its query
however the table has changed since, and what is handed out is `Handed` of it. The rest is about operators. The
chunker keeps `Cutting` (the counted length is that of the open segment, which is short or a single sentence) while `Said` (closed segments and
open one, read in order) grows by exactly the units of a paragraph. The units a tail touches are those not over before
it begins, and the ends of units ascend, so that they are an end of their segment (`LastPiecesAre`). For the search, an order without ties gives every rank
to one row (`Hits`, `RankChunks`), dropping later doubles keeps one of each key, the share of a source raises all
its hits alike and so keeps them in the order of their scores, and a packed context is a prefix within the budget.

## 10. Plan

All modules planned are written. Their order was: the graph workflow (`DecisionRun`, `DecisionGraph`), the
loan application (`LoanLedger`, `LoanApproval`), the audit chain, flows and executions (`FlowLife`,
`FlowService`, `FlowExecutions`, `CachedReads`), the engines (`NodeExecutor`, `GraphWalk`, `FlowEngines`), the
pipeline (`GovernanceScoring`, `RiskAnalysis`, `DecisionPipeline`), events (`EventProjection`), documents
(`PassageRanking`, `DocumentIndex`). The theorems followed the modules in the same order. Every
safety property of a passing run and every refinement is now stated by one. Worth adding next: the adverse-action
notice and the versions of policies as components of their own.

## 11. Only model-checked, not modelled, and noted

* **Types.** The type invariants are parts of the inductive invariants and proved, not run; for `FlowEngines`
  it is `Shape` and `Answered` in `EnginesInv`.
* **Only model-checked:** the liveness properties (`WorkerComesToRest`, `WorkflowComesToRest`, `CachesCatchUp`, `EnginesRest`, `CallsEnd`,
  `KeepsUp`), as fairness is out of the prover's reach; the violation of `stale_answer`.
* **Inductions over data:** the library's induction theorems take a predicate as a parameter, which the provers cannot
  instantiate. Listings, paths, sums and texts are argued by the least number instead: the numbers for
  which a fact fails are a set, a nonempty set of numbers has a least member (`NatLessThanWellFounded`,
  `WFMin`), and the fact holds for it by the step.
* **Not modelled:** the adverse-action notice (`loans.ts:343`), the versions of policies, FLOW_PUBLISHED (which nothing consumes), what
  is kept in MinIO, screens, deployment, sessions, metrics, explanations; each with its reason in `components`.
* **Noted about runs and gates:** `update()` matches the id only (`approval.repository.ts:72`), so two
  calls that both read PENDING both succeed and APPROVED becomes REJECTED, which `errors.ts:42` calls terminal;
  `approve` and `reject` update the row before they signal (`approval.service.ts:52`): after a failure
  in between the request is decided, a repeated call refused, and the gate waits for its timer. The gate
  timer and the default run timeout are both 24 h, so the escalation of a default gate never gets to run; the
  compensation of a cancelled graph workflow runs in the cancelled scope. `expireOverdue` (`approval.repository.ts:116`)
  has no caller. `worker.run().catch(...)` leaves the service up without a worker: fairness assumes
  that some worker polls.
* **Noted about loans and policies:** `README.md:218-221` lists a credit score below 580 and a ratio of debt to income over 45% among
  the hard violations (auto-reject); `approval.rego:49` answers MANUAL_REVIEW for them, and the workflow heeds of that answer only DENY
  (`loan-approval.workflow.ts:97`) and the flags (`:138`), so such an application is approved automatically when
  the AI recommends it at a low risk. `ApprovalIsAccountedFor` says so: it names all that asks for a reviewer, and the
  policy's answer is not among it. The row is inserted (`loans.ts:112`) before the workflow starts (`:147`); if
  the gateway stops in between, a retry with the same key is told 'already submitted (idempotent)'
  (`:85`) about a workflow that does not exist. An ESCALATE flag makes the rule `decision` of `approval.rego` conflict (`:44`, `:136`): OPA
  answers with an error, the client fails closed (`opa/client.ts:57`), and the application is rejected as denied by policy.
  The comment in `opa/client.ts:51` promises a hard deny, but `policy-evaluator.ts:163` blocks hard on severity ERROR and the client answers CRITICAL.
  A retried `finalizeDecision` leaves two equal `loan_decisions` rows (`RecordsAgree` says they agree); the validation, policy and timeout paths
  publish no `WORKFLOW_COMPLETED`; a workflow that ends before the gateway
  inserted its `workflow_runs` row leaves it RUNNING; `POST /loans/:id/approval` answers 'Approval decision recorded'
  (`loans.ts:322`) also when the workflow has no gate or is past it. `ON CONFLICT DO NOTHING` of the
  adverse-action notice has no unique key to conflict with: every GET inserts another one.
* **Noted about audits:** records are linked per tenant (`audit.repository.ts:57`) and verified per loan, so an
  intact trail is reported as broken as soon as another loan is audited in between; the
  signature of a record covers the time taken in the handler (`audit.repository.ts:73`), the check
  recomputes it with `created_at` (`:223`), so a record fails it as soon as a millisecond passes in between.
* **Noted about flows and executions:** an unknown `flow_snapshot_id` is silently replaced by the flow's own
  snapshot, and one of another flow is accepted (`execution.service.ts:86`), although executions are
  said to 'always reference the snapshot' (`migration.sql:1061`); `IdempotencyConflictError`
  (`errors.ts:54`) is never thrown, `setIdempotencyLock` and the snapshot cache of `cache.service.ts` are never called; TIMED_OUT, which
  `retryExecution` accepts, is never written; without Temporal `executeFlow` answers RUNNING for a row it has
  just marked FAILED; a flow list from the cache is plain JSON, in which `serializeFlow` (`flows.controller.ts:131`) finds
  strings for dates and calls `toISOString`, so `GET /flows` fails for up to a minute after a listing;
  `createFlow` drops the edges of its nodes (`flow.service.ts:76`); an expression that names a node, as the comment at
  `node-executor.ts:35` does, contains a hyphen and is refused by the guard at `:52`. `decision_executions` is declared with a
  primary key that lacks its partition column (`migration.sql:1088`), which PostgreSQL refuses: the
  models assume the table its authors meant.
* **Noted about the pipeline:** the repository holds no rego for the paths the pipeline evaluates, so with these sources every policy is
  unavailable and every decision a review; its events have no consumer; the explanation says
  'MANUAL_REVIEW enforced' also for a REJECT; `idempotency_key` of the request is never used, so a retry is a second decision.
* **Noted about events:** POLICY_EVALUATED and AI_DECISION_MADE of the loan workflow lack fields their handlers read and
  always become dead letters, which nothing consumes; WORKFLOW_COMPLETED carries the status 'RUNNING'; a decision that is delivered twice is
  counted twice, though `README.md:383` says that consumers handle duplicates; nobody reads these keys.
* **Noted about documents:** `topK` cuts before doubles are dropped, so fewer chunks than asked for may come back; a deletion with `ids: []` deletes
  all chunks of the tenant (`vector.repository.ts:335`); a job stays 'processing' when its process stops, and 'partial' is never
  written; the embedding dimension defaults to 1024 for a column VECTOR(384); `charStart` may be -1;
  `vector.ts:57` speaks of 512 tokens, the chunker counts 2000 characters.
