--------------------------- MODULE DecisionGraph ---------------------------
(***************************************************************************)
(* One execution of a decision flow: DecisionGraphWorkflow (a Temporal     *)
(* workflow), the activities it awaits, the row of decision_executions and *)
(* the rows of approval_requests those activities write, and the API calls *)
(* that reach the same rows and the running workflow: ApprovalService's    *)
(* approve, reject and delegate, and ExecutionService.cancelExecution.     *)
(*                                                                         *)
(* A workflow step runs from one await to the next.  An activity attempt   *)
(* is at-least-once: it can apply its write and still be reported lost, in *)
(* which case it is attempted again, MaxAttempts times in all.             *)
(***************************************************************************)
EXTENDS Naturals, FiniteSets

CONSTANTS
    Nodes,        \* the node identifiers a snapshot may use
    NoNode,       \* an undefined (or dangling) edge
    Flows,        \* the published snapshots an execution may load
    Approvals,    \* the identifiers randomUUID() hands to approval requests
    Reviewers,    \* API callers that decide approval requests
    NoAnswer,     \* approvalResolved = null
    MaxAttempts,  \* retry.maximumAttempts of the activity proxy
    GateDue,      \* dueDurationMs of an approval gate, in ticks
    PauseDue,     \* bound of the pause gate (timeoutMs ?? 24h), in ticks
    RunTimeout,   \* workflowExecutionTimeout, in ticks
    Interventions \* what operators may do to the run: see Operator

Kinds == {"GATE", "END", "AI", "SCORE", "RULE", "STEP"}
Decisions == {"APPROVE", "REJECT", "MANUAL_REVIEW", "ESCALATE"}
NoDecision == "NONE"

\* A snapshot: its entry node, the kind of each node, nextNodeId, and the nodes
\* named by fallbackNodeId, branches and CONDITION outputs.
FlowSnapshot == [entry : Nodes,
                 kind  : [Nodes -> Kinds],
                 next  : [Nodes -> Nodes \cup {NoNode}],
                 other : [Nodes -> SUBSET (Nodes \cup {NoNode})]]

Answers == [decision : {"APPROVE", "REJECT"}, approval : Approvals]

ASSUME NodesAssumption == IsFiniteSet(Nodes) /\ NoNode \notin Nodes
ASSUME FlowsAssumption == Flows \subseteq FlowSnapshot
ASSUME AnswerAssumption == NoAnswer \notin Answers
ASSUME BoundsAssumption == /\ MaxAttempts \in Nat \ {0}
                           /\ GateDue \in Nat
                           /\ PauseDue \in Nat
                           /\ RunTimeout \in Nat
                           /\ Interventions \subseteq {"cancelSignal", "pauseSignal", "cancelExecution"}

VARIABLES
    flow,              \* the immutable snapshot the execution references
    pc,                \* the await the workflow is suspended in, or how it closed
    attempt,           \* attempt number of the activity in flight
    node,              \* currentNodeId
    visited,           \* visitedNodes
    hops,
    decision,          \* finalDecision inside the workflow
    answer,            \* gate entries of the trace, with the request answered
    approvalPending,
    approvalResolved,
    cancelled,         \* set by the execution.cancel signal
    paused,            \* set by execution.pause, cleared by execution.resume
    cancelRequested,   \* Temporal cancellation of the run (handle.cancel())
    deadline,          \* when the timer of the current condition() is due
    now,               \* ticks since the workflow was started
    row,               \* the decision_executions row
    approvals,         \* the approval_requests rows
    events,            \* decisions announced on the Kafka decision topics
    call,              \* approve / reject / delegate calls in flight
    cancelCall,        \* cancelExecution call in flight
    unsignalled        \* history: requests decided in the database by a call
                       \* that ended before it signalled the workflow

loopVars   == <<node, visited, hops, decision, answer>>
gateVars   == <<approvalPending, approvalResolved>>
signalVars == <<cancelled, paused, cancelRequested>>
dbVars     == <<row, approvals>>
callVars   == <<call, cancelCall, unsignalled>>
vars == <<flow, pc, attempt, loopVars, gateVars, signalVars, deadline, now,
          dbVars, events, callVars>>

Activities == {"loadFlowSnapshot", "persistExecutionStarted", "executeGraphNode",
               "createApprovalRequest", "persistApprovalCreated",
               "sendApprovalNotification", "persistExecutionCompleted",
               "emitAuditEvent", "publishDecisionEvent", "persistExecutionFailed"}
Waits  == {"gate", "paused"}
Closed == {"COMPLETED", "FAILED", "TIMED_OUT"}

Absent == [status |-> "ABSENT", node |-> NoNode]
Idle   == [stage |-> "idle"]

IsOpen == pc \notin Closed
Kind(n) == flow.kind[n]

-----------------------------------------------------------------------------
(* Init: executeFlow has inserted the PENDING row and started the workflow. *)

Init ==
    /\ flow \in Flows
    /\ pc = "loadFlowSnapshot" /\ attempt = 1
    /\ node = NoNode /\ visited = {} /\ hops = 0
    /\ decision = "MANUAL_REVIEW"
    /\ answer = [n \in Nodes |-> NoAnswer]
    /\ approvalPending = FALSE /\ approvalResolved = NoAnswer
    /\ cancelled = FALSE /\ paused = FALSE /\ cancelRequested = FALSE
    /\ deadline = 0 /\ now = 0
    /\ row = [status |-> "PENDING", decision |-> NoDecision]
    /\ approvals = [a \in Approvals |-> Absent]
    /\ events = {}
    /\ call = [r \in Reviewers |-> Idle] /\ cancelCall = "idle"
    /\ unsignalled = {}

-----------------------------------------------------------------------------
(* Workflow control.  In a cancelled scope the next await throws, and so do *)
(* the activity the catch block schedules: the run closes as FAILED.        *)

Await(p) ==
    IF cancelRequested
    THEN pc' = "FAILED" /\ UNCHANGED attempt
    ELSE pc' = p /\ attempt' = 1

Throw == Await("persistExecutionFailed")

\* An attempt that timed out, threw or lost its worker: retried, or thrown.
AttemptLost ==
    IF attempt < MaxAttempts /\ ~cancelRequested
    THEN attempt' = attempt + 1 /\ UNCHANGED pc
    ELSE Throw

\* What the loop body does with a node of each kind.
Dispatch(n) ==
    \/ /\ Kind(n) = "GATE"
       /\ approvalPending' = TRUE /\ approvalResolved' = NoAnswer
       /\ Await("createApprovalRequest")
    \/ /\ Kind(n) = "END"
       /\ Await("persistExecutionCompleted")
       /\ UNCHANGED gateVars
    \/ /\ Kind(n) \notin {"GATE", "END"}
       /\ Await("executeGraphNode")
       /\ UNCHANGED gateVars

\* Mutant: no cycle check, and only new nodes are counted as hops.
VisitCountingNewNodes(n) ==
    /\ node' = n
    /\ visited' = visited \cup {n} /\ hops' = Cardinality(visited \cup {n})
    /\ Dispatch(n)

\* The cycle check, then the node itself: the loop body behind the pause gate.
Visit(n) ==
    /\ node' = n
    /\ \/ /\ n \in visited
          /\ Await("persistExecutionCompleted")
          /\ UNCHANGED <<visited, hops, gateVars>>
       \/ /\ n \notin visited
          /\ visited' = visited \cup {n} /\ hops' = hops + 1
          /\ Dispatch(n)

LoopContinues(n) == n # NoNode /\ hops < 2 * Cardinality(Nodes) /\ ~cancelled

\* The while condition and the pause gate at the top of the loop.
Iterate(n) ==
    \/ /\ ~LoopContinues(n)
       /\ node' = n /\ Await("persistExecutionCompleted")
       /\ UNCHANGED <<visited, hops, gateVars, deadline>>
    \/ /\ LoopContinues(n) /\ paused
       /\ node' = n /\ Await("paused") /\ deadline' = now + PauseDue
       /\ UNCHANGED <<visited, hops, gateVars>>
    \/ /\ LoopContinues(n) /\ ~paused
       /\ Visit(n) /\ UNCHANGED deadline

-----------------------------------------------------------------------------
(* Activities: one action each, with every outcome of an attempt.           *)

LoadFlowSnapshot ==
    /\ pc = "loadFlowSnapshot"
    /\ Await("persistExecutionStarted") \/ AttemptLost
    /\ UNCHANGED <<flow, loopVars, gateVars, signalVars, deadline, now, dbVars, events, callVars>>

MarkStarted == [row EXCEPT !.status = "RUNNING"]

PersistExecutionStarted ==
    /\ pc = "persistExecutionStarted"
    /\ \/ row' = MarkStarted /\ Iterate(flow.entry)
       \/ /\ row' \in {row, MarkStarted}
          /\ AttemptLost
          /\ UNCHANGED <<node, visited, hops, gateVars, deadline>>
    /\ UNCHANGED <<flow, decision, answer, signalVars, now, approvals, events, callVars>>

\* What a node of a kind may make of the decision: AI never approves, a RULE
\* hard block rejects, SCORE sets any of its bands, a fallback leaves it alone.
NodeDecisions(n) ==
    {decision} \cup
      CASE Kind(n) = "AI"    -> {"REJECT", "MANUAL_REVIEW"}
        [] Kind(n) = "SCORE" -> {"APPROVE", "REJECT", "MANUAL_REVIEW"}
        [] Kind(n) = "RULE"  -> {"REJECT"}
        [] OTHER             -> {}

ExecuteGraphNode ==
    /\ pc = "executeGraphNode"
    /\ \/ /\ decision' \in NodeDecisions(node)
          /\ \E n \in {flow.next[node]} \cup flow.other[node] : Iterate(n)
       \/ /\ AttemptLost
          /\ UNCHANGED <<node, visited, hops, decision, gateVars, deadline>>
    /\ UNCHANGED <<flow, answer, signalVars, now, dbVars, events, callVars>>

\* Each attempt inserts a row of its own: the identifier is drawn in the activity.
InsertApproval(n) ==
    \E a \in Approvals :
        /\ approvals[a] = Absent
        /\ approvals' = [approvals EXCEPT ![a] = [status |-> "PENDING", node |-> n]]

CreateApprovalRequest ==
    /\ pc = "createApprovalRequest"
    /\ \/ InsertApproval(node) /\ Await("persistApprovalCreated")
       \/ InsertApproval(node) /\ AttemptLost
       \/ UNCHANGED approvals /\ AttemptLost
    /\ UNCHANGED <<flow, loopVars, gateVars, signalVars, deadline, now, row, events, callVars>>

MarkAwaitingApproval == [row EXCEPT !.status = "AWAITING_APPROVAL"]

PersistApprovalCreated ==
    /\ pc = "persistApprovalCreated"
    /\ \/ row' = MarkAwaitingApproval /\ Await("sendApprovalNotification")
       \/ row' \in {row, MarkAwaitingApproval} /\ AttemptLost
    /\ UNCHANGED <<flow, loopVars, gateVars, signalVars, deadline, now, approvals, events, callVars>>

\* The notification itself is best effort; what follows is the gate's condition().
SendApprovalNotification ==
    /\ pc = "sendApprovalNotification"
    /\ \/ Await("gate") /\ deadline' = now + GateDue
       \/ AttemptLost /\ UNCHANGED deadline
    /\ UNCHANGED <<flow, loopVars, gateVars, signalVars, now, dbVars, events, callVars>>

MarkCompleted == [status |-> "COMPLETED", decision |-> decision]

\* Mutant: a completion whose write was lost is taken for written.
PersistCompletedBestEffort ==
    /\ pc = "persistExecutionCompleted"
    /\ row' \in {row, MarkCompleted} /\ Await("emitAuditEvent")
    /\ UNCHANGED <<flow, loopVars, gateVars, signalVars, deadline, now, approvals, events, callVars>>

PersistExecutionCompleted ==
    /\ pc = "persistExecutionCompleted"
    /\ \/ row' = MarkCompleted /\ Await("emitAuditEvent")
       \/ row' \in {row, MarkCompleted} /\ AttemptLost
    /\ UNCHANGED <<flow, loopVars, gateVars, signalVars, deadline, now, approvals, events, callVars>>

EmitAuditEvent ==
    /\ pc = "emitAuditEvent"
    /\ Await("publishDecisionEvent") \/ AttemptLost
    /\ UNCHANGED <<flow, loopVars, gateVars, signalVars, deadline, now, dbVars, events, callVars>>

\* A publish error is swallowed; the last step of the workflow is to return.
PublishDecisionEvent ==
    /\ pc = "publishDecisionEvent"
    /\ events' \in {events, events \cup {decision}}
    /\ \/ pc' = "COMPLETED" /\ UNCHANGED attempt
       \/ AttemptLost
    /\ UNCHANGED <<flow, loopVars, gateVars, signalVars, deadline, now, dbVars, callVars>>

\* Mutant: failing forgets the decision.
MarkFailedAnew == [status |-> "FAILED", decision |-> NoDecision]

MarkFailed == [row EXCEPT !.status = "FAILED"]

\* The catch block: exhausted attempts are swallowed, the run fails either way.
PersistExecutionFailed ==
    /\ pc = "persistExecutionFailed"
    /\ row' \in {row, MarkFailed}
    /\ \/ /\ row' = MarkFailed \/ attempt = MaxAttempts \/ cancelRequested
          /\ pc' = "FAILED" /\ UNCHANGED attempt
       \/ /\ attempt < MaxAttempts /\ ~cancelRequested
          /\ attempt' = attempt + 1 /\ UNCHANGED pc
    /\ UNCHANGED <<flow, loopVars, gateVars, signalVars, deadline, now, approvals, events, callVars>>

-----------------------------------------------------------------------------
(* The two condition() waits.                                               *)

\* The execution.cancel signal ends the wait and the loop.
GateCancelled ==
    /\ pc = "gate" /\ cancelled
    /\ Await("persistExecutionCompleted")
    /\ UNCHANGED <<flow, loopVars, gateVars, signalVars, deadline, now, dbVars, events, callVars>>

\* The gate takes whatever answer is there.
TakeAnswer(d) ==
    /\ pc = "gate" /\ ~cancelled /\ ~approvalPending
    /\ approvalResolved.decision = d
    /\ answer' = [answer EXCEPT ![node] = approvalResolved]

GateApproved ==
    /\ TakeAnswer("APPROVE")
    /\ Iterate(flow.next[node])
    /\ UNCHANGED <<flow, decision, signalVars, now, dbVars, events, callVars>>

\* Mutant: the traversal goes on after a rejection.
RejectContinues ==
    /\ TakeAnswer("REJECT")
    /\ decision' = "REJECT"
    /\ Iterate(flow.next[node])
    /\ UNCHANGED <<flow, signalVars, now, dbVars, events, callVars>>

GateRejected ==
    /\ TakeAnswer("REJECT")
    /\ decision' = "REJECT"
    /\ Await("persistExecutionCompleted")
    /\ UNCHANGED <<flow, node, visited, hops, gateVars, signalVars, deadline, now, dbVars,
                   events, callVars>>

\* Mutant: the traversal goes on after an escalation.
EscalateContinues ==
    /\ pc = "gate"
    /\ approvalPending /\ ~cancelled /\ now >= deadline
    /\ decision' = "ESCALATE"
    /\ Iterate(flow.next[node])
    /\ UNCHANGED <<flow, answer, signalVars, now, dbVars, events, callVars>>

GateTimesOut ==
    /\ pc = "gate"
    /\ approvalPending /\ ~cancelled /\ now >= deadline
    /\ decision' = "ESCALATE"
    /\ Await("persistExecutionCompleted")
    /\ UNCHANGED <<flow, node, visited, hops, answer, gateVars, signalVars, deadline, now,
                   dbVars, events, callVars>>

\* Resumed, or tired of waiting: the loop body goes on, cancelled or not.
PauseEnds ==
    /\ pc = "paused"
    /\ ~paused \/ now >= deadline
    /\ Visit(node)
    /\ UNCHANGED <<flow, decision, answer, signalVars, deadline, now, dbVars, events, callVars>>

-----------------------------------------------------------------------------
(* Signals an operator can send to the running workflow.                    *)

CancelSignal ==
    /\ "cancelSignal" \in Interventions
    /\ IsOpen /\ ~cancelled
    /\ cancelled' = TRUE
    /\ UNCHANGED <<flow, pc, attempt, loopVars, gateVars, paused, cancelRequested, deadline,
                   now, dbVars, events, callVars>>

PauseOrResumeSignal ==
    /\ "pauseSignal" \in Interventions
    /\ IsOpen
    /\ paused' = ~paused
    /\ UNCHANGED <<flow, pc, attempt, loopVars, gateVars, cancelled, cancelRequested, deadline,
                   now, dbVars, events, callVars>>

-----------------------------------------------------------------------------
(* ApprovalService: read and check the row, write it, then signal the       *)
(* workflow (approve, reject) or insert the delegate's request (delegate).  *)
(* Each of the three is a round trip of its own.                            *)

Operations == {"APPROVE", "REJECT", "DELEGATE"}
StatusAfter == [APPROVE |-> "APPROVED", REJECT |-> "REJECTED", DELEGATE |-> "DELEGATED"]

\* Mutant: only a PENDING request may be decided.
DecidableWhilePending(a) == approvals[a].status = "PENDING"

\* assertPending: a DELEGATED request may still be decided.
Decidable(a) == approvals[a].status \in {"PENDING", "DELEGATED"}

ReadApproval(r, op, a) ==
    /\ call[r] = Idle /\ Decidable(a)
    /\ call' = [call EXCEPT ![r] = [stage |-> "update", op |-> op, approval |-> a]]
    /\ UNCHANGED <<flow, pc, attempt, loopVars, gateVars, signalVars, deadline, now, dbVars,
                   events, cancelCall, unsignalled>>

\* UPDATE ... WHERE id = $1: whatever the row has become since it was read.
UpdateApproval(r) ==
    /\ call[r].stage = "update"
    /\ approvals' = [approvals EXCEPT ![call[r].approval].status = StatusAfter[call[r].op]]
    /\ call' = [call EXCEPT ![r].stage = IF call[r].op = "DELEGATE" THEN "insert" ELSE "signal"]
    /\ UNCHANGED <<flow, pc, attempt, loopVars, gateVars, signalVars, deadline, now, row,
                   events, cancelCall, unsignalled>>

\* handle.signal succeeds only while the run is open.  The handler takes any
\* payload for the answer to the gate that is pending, if one is.
SignalWorkflow(r) ==
    /\ call[r].stage = "signal" /\ IsOpen
    /\ approvalResolved' = [decision |-> call[r].op, approval |-> call[r].approval]
    /\ approvalPending' = FALSE
    /\ call' = [call EXCEPT ![r] = Idle]
    /\ UNCHANGED <<flow, pc, attempt, loopVars, signalVars, deadline, now, dbVars, events, cancelCall, unsignalled>>

InsertDelegateRequest(r) ==
    /\ call[r].stage = "insert"
    /\ InsertApproval(approvals[call[r].approval].node)
    /\ call' = [call EXCEPT ![r] = Idle]
    /\ UNCHANGED <<flow, pc, attempt, loopVars, gateVars, signalVars, deadline, now, row,
                   events, cancelCall, unsignalled>>

\* The call ends with an error: a query or the signal failed, or its server died.
CallFails(r) ==
    /\ call[r] # Idle
    /\ call' = [call EXCEPT ![r] = Idle]
    /\ unsignalled' = IF call[r].stage = "signal" THEN unsignalled \cup {call[r].approval}
                                                  ELSE unsignalled
    /\ UNCHANGED <<flow, pc, attempt, loopVars, gateVars, signalVars, deadline, now, dbVars,
                   events, cancelCall>>

-----------------------------------------------------------------------------
(* cancelExecution: cancel the run, then mark the row FAILED.               *)

RequestCancel ==
    /\ "cancelExecution" \in Interventions
    /\ cancelCall = "idle" /\ IsOpen
    /\ cancelCall' = "markFailed"
    /\ cancelRequested' = TRUE
    /\ pc' = IF pc \in Waits THEN "FAILED" ELSE pc
    /\ UNCHANGED <<flow, attempt, loopVars, gateVars, cancelled, paused, deadline, now, dbVars,
                   events, call, unsignalled>>

MarkCancelled ==
    /\ cancelCall = "markFailed"
    /\ cancelCall' = "idle"
    /\ row' \in {MarkFailed, row}   \* the unchanged row: the call died in between
    /\ UNCHANGED <<flow, pc, attempt, loopVars, gateVars, signalVars, deadline, now, approvals,
                   events, call, unsignalled>>

-----------------------------------------------------------------------------
(* Time.  At RunTimeout the Temporal server terminates the run: no code of  *)
(* the workflow runs, the catch block included.                             *)

Tick ==
    /\ IsOpen /\ now < RunTimeout
    /\ now' = now + 1
    /\ pc' = IF now' = RunTimeout THEN "TIMED_OUT" ELSE pc
    /\ UNCHANGED <<flow, attempt, loopVars, gateVars, signalVars, deadline, dbVars, events, callVars>>

-----------------------------------------------------------------------------
Activity ==
    \/ LoadFlowSnapshot \/ PersistExecutionStarted \/ ExecuteGraphNode
    \/ CreateApprovalRequest \/ PersistApprovalCreated \/ SendApprovalNotification
    \/ PersistExecutionCompleted \/ EmitAuditEvent \/ PublishDecisionEvent
    \/ PersistExecutionFailed

Gate == GateCancelled \/ GateApproved \/ GateRejected \/ GateTimesOut

Worker == Activity \/ Gate \/ PauseEnds

Reviewer(r) ==
    \/ \E op \in Operations, a \in Approvals : ReadApproval(r, op, a)
    \/ UpdateApproval(r) \/ SignalWorkflow(r) \/ InsertDelegateRequest(r) \/ CallFails(r)

Operator == CancelSignal \/ PauseOrResumeSignal \/ RequestCancel \/ MarkCancelled

Next == Worker \/ (\E r \in Reviewers : Reviewer(r)) \/ Operator \/ Tick

Spec == Init /\ [][Next]_vars

\* The worker polls its task queue: an await that can be answered is answered.
\* Nothing is assumed of reviewers, operators or the passing of time.
FairSpec == Spec /\ WF_vars(Worker)

-----------------------------------------------------------------------------
(* Properties.                                                              *)

TypeOK ==
    /\ flow \in Flows
    /\ pc \in Activities \cup Waits \cup Closed
    /\ attempt \in 1..MaxAttempts
    /\ node \in Nodes \cup {NoNode}
    /\ visited \in SUBSET Nodes
    /\ hops \in Nat
    /\ decision \in Decisions
    /\ answer \in [Nodes -> Answers \cup {NoAnswer}]
    /\ approvalPending \in BOOLEAN
    /\ approvalResolved \in Answers \cup {NoAnswer}
    /\ cancelled \in BOOLEAN /\ paused \in BOOLEAN /\ cancelRequested \in BOOLEAN
    /\ deadline \in Nat /\ now \in Nat
    /\ row \in [status : {"PENDING", "RUNNING", "AWAITING_APPROVAL", "COMPLETED", "FAILED"},
                decision : Decisions \cup {NoDecision}]
    /\ approvals \in [Approvals ->
                        [status : {"ABSENT", "PENDING", "APPROVED", "REJECTED", "DELEGATED"},
                         node : Nodes \cup {NoNode}]]
    /\ events \in SUBSET Decisions
    /\ call \in [Reviewers -> {Idle}
                   \cup [stage : {"update"}, op : Operations, approval : Approvals]
                   \cup [stage : {"signal"}, op : {"APPROVE", "REJECT"}, approval : Approvals]
                   \cup [stage : {"insert"}, op : {"DELEGATE"}, approval : Approvals]]
    /\ cancelCall \in {"idle", "markFailed"}
    /\ unsignalled \in SUBSET Approvals

Rejected == \E n \in Nodes : answer[n] # NoAnswer /\ answer[n].decision = "REJECT"

\* A human's REJECT is the end of the matter: once the run has taken a REJECT as
\* the answer to a gate, no later node, retry, signal or timer changes the
\* decision it holds, and nothing else is ever stored or announced.
RejectIsFinal ==
    Rejected
      => /\ decision = "REJECT"
         /\ row.decision \in {NoDecision, "REJECT"}
         /\ events \subseteq {"REJECT"}

\* What the decision topics announce is what the database holds: the row is
\* written before the event leaves, and never changes its decision afterwards.
AnnouncedIsStored == events \subseteq {row.decision}

\* An escalation is the last thing a run does: whenever ESCALATE is stored, the
\* traversal stands at a gate whose answer it never took.
EscalatedGateIsUnanswered ==
    row.decision = "ESCALATE" => /\ node \in Nodes
                                 /\ Kind(node) = "GATE"
                                 /\ answer[node] = NoAnswer

\* The cycle check alone bounds the traversal: no node is entered twice, so the
\* hop limit of twice the number of nodes is never what ends the loop.
NoNodeRunsTwice == hops = Cardinality(visited)

\* A run that returned left a COMPLETED row, unless a cancelExecution call is
\* about to overwrite it or already did.
ReturnedRunIsCompleted ==
    pc = "COMPLETED" => row.status = "COMPLETED" \/ cancelRequested

GateRequests == {a \in Approvals : approvals[a].node = node}
InFlight(a) == \E r \in Reviewers : call[r] # Idle /\ call[r].stage = "signal"
                                                   /\ call[r].approval = a

\* While a gate waits, some request of this gate can still be decided, or its
\* decision is on its way, or a call died between writing it and signalling.
WaitingGateCanBeAnswered ==
    pc = "gate" /\ approvalPending =>
      \E a \in GateRequests : Decidable(a) \/ InFlight(a) \/ a \in unsignalled

\* The decision of an execution is written once: retried completions rewrite
\* the same value, and neither failure nor cancellation replaces it.
StoredDecisionIsWrittenOnce ==
    [][row.decision # NoDecision => row'.decision = row.decision]_row

\* Why the invariants above hold, as one inductive invariant.  The traversal
\* stands at a node it has entered, answers belong to entered gates, and a gate
\* in progress is still unanswered ...
AtGate == {"createApprovalRequest", "persistApprovalCreated", "sendApprovalNotification", "gate"}
Settled == {"persistExecutionCompleted", "emitAuditEvent", "publishDecisionEvent",
            "persistExecutionFailed"} \cup Closed
Reported == {"emitAuditEvent", "publishDecisionEvent", "COMPLETED"}

Position ==
    /\ pc \in AtGate \cup {"executeGraphNode"} => node \in visited
    /\ pc \in AtGate => Kind(node) = "GATE" /\ answer[node] = NoAnswer
    /\ pc = "paused" => node \in Nodes
    /\ \A n \in Nodes : answer[n] # NoAnswer => n \in visited

\* ... a rejection or an escalation has ended the traversal ...
Verdict ==
    /\ Rejected => pc \in Settled /\ decision = "REJECT"
    /\ decision = "ESCALATE" => /\ pc \in Settled /\ node \in Nodes
                                /\ Kind(node) = "GATE" /\ answer[node] = NoAnswer

\* ... the row holds the decision of the run from the completion on ...
Storage ==
    /\ row.decision # NoDecision => pc \in Settled /\ row.decision = decision
    /\ pc \in Reported => /\ row.decision = decision
                          /\ row.status = "COMPLETED" \/ cancelRequested
    /\ events \subseteq {row.decision}
    /\ cancelCall = "markFailed" => cancelRequested

\* ... calls decide requests that exist ...
Genuine ==
    /\ \A r \in Reviewers : call[r] # Idle => approvals[call[r].approval].status # "ABSENT"
    /\ \A a \in unsignalled : approvals[a].status # "ABSENT"

\* ... and from the insert of its request on, a gate can be answered.
Answerable ==
    approvalPending /\ pc \in {"persistApprovalCreated", "sendApprovalNotification", "gate"}
      => \E a \in GateRequests : Decidable(a) \/ InFlight(a) \/ a \in unsignalled

IInv == TypeOK /\ NoNodeRunsTwice /\ Position /\ Verdict /\ Storage /\ Genuine /\ Answerable

\* The execution keeps the promise of DecisionRun: one settled verdict, stored at
\* most once and announced only when stored.
Phase ==
    CASE pc \in {"loadFlowSnapshot", "persistExecutionStarted", "executeGraphNode", "paused"}
           -> "deliberating"
      [] pc \in {"createApprovalRequest", "persistApprovalCreated",
                 "sendApprovalNotification", "gate"}
           -> "asking"
      [] pc \in {"persistExecutionCompleted", "emitAuditEvent", "publishDecisionEvent"}
           -> "settled"
      [] OTHER -> "stopped"

Run == INSTANCE DecisionRun WITH
         NoVerdict <- NoDecision, phase <- Phase, verdict <- decision,
         stored <- row.decision, announced <- events

RunSpec == Run!Spec

\* The workflow never spins: on any graph, cycles included, and whatever
\* attempts are lost, it comes to wait for a human or closes.
WorkerComesToRest == []<>(pc \in Waits \cup Closed)

-----------------------------------------------------------------------------
(* What the repository says and the code does not keep.                     *)

\* A gate is passed on the answer to a request of its own (approval.service.ts:54,
\* "Signal the Temporal workflow to resume"; the payload carries the approvalId).
\* The signal handler ignores the approvalId.
GateAnsweredByItsOwnRequest ==
    \A n \in Nodes : answer[n] # NoAnswer => approvals[answer[n].approval].node = n


=============================================================================
