--------------------------- MODULE FlowExecutions ---------------------------
(* The executions of flows: ExecutionService and its table. Clients execute  *)
(* a flow, retry or cancel an execution; every await of a handler ends an    *)
(* action, so calls interleave at each round trip and may die there, while   *)
(* flows are published and deprecated. A run of the graph workflow, the      *)
(* subject of DecisionGraph, is here only the graph it loads and the         *)
(* statuses it writes. All callers belong to one tenant. Executions bounds   *)
(* how many ids are ever issued.                                             *)
EXTENDS Naturals, FiniteSets

CONSTANTS
    Flows, Snapshots, Executions, Keys, Clients,
    NoFlow, NoSnapshot, NoExecution, NoKey

ASSUME NullAssumption ==
    /\ NoFlow \notin Flows
    /\ NoSnapshot \notin Snapshots
    /\ NoExecution \notin Executions
    /\ NoKey \notin Keys

VARIABLES
    status,     \* decision_flows.status
    snapshots,  \* flow_snapshots.flow_id
    rows,       \* decision_executions
    request,    \* the call an execution id was issued to, the input of its workflow
    call,       \* a client's call
    runs,       \* Temporal: the workflow of an execution and the graph it loaded
    contended   \* history: keys looked up in vain while another call was about to use them

flowVars == <<status, snapshots>>
executionVars == <<rows, request, call, runs, contended>>
vars == <<status, snapshots, rows, request, call, runs, contended>>

Released == {"PUBLISHED", "DEPRECATED"}

NoRow == [status |-> "ABSENT", flow |-> NoFlow, snapshot |-> NoSnapshot, key |-> NoKey]
NoRequest == [flow |-> NoFlow, snapshot |-> NoSnapshot, key |-> NoKey, source |-> NoExecution]
Idle == [stage |-> "idle", request |-> NoRequest, execution |-> NoExecution]
NoRun == [stage |-> "none", graph |-> NoSnapshot]

Init ==
    /\ status = [f \in Flows |-> "ABSENT"]
    /\ snapshots = [s \in Snapshots |-> NoFlow]
    /\ rows = [x \in Executions |-> NoRow]
    /\ request = [x \in Executions |-> NoRequest]
    /\ call = [c \in Clients |-> Idle]
    /\ runs = [x \in Executions |-> NoRun]
    /\ contended = {}

-----------------------------------------------------------------------------
(* Flows, as FlowService implements them.                                    *)

Life == INSTANCE FlowLife

FlowsChange == Life!Next /\ UNCHANGED executionVars

-----------------------------------------------------------------------------
(* Executions. Update is an UPDATE ... WHERE id = x, which finds no row for  *)
(* an execution that was never stored.                                       *)

Update(x, s) == rows' = [rows EXCEPT ![x].status = IF @ = "ABSENT" THEN @ ELSE s]

\* Mutant: the key of a failed execution may be used again.
KeyTakenByUnfailed(k) == k # NoKey /\ \E x \in Executions : rows[x].key = k /\ rows[x].status # "FAILED"

KeyTaken(k) == k # NoKey /\ \E x \in Executions : rows[x].key = k

(* The stages in which a call has looked its key up and not yet inserted.    *)
BeforeSave == {"checking", "resolving", "saving"}

(* Bound: an execution id is left for every call that may need one.          *)
IdsLeft ==
    Cardinality({c \in Clients : call[c].stage \in BeforeSave}) < Cardinality({x \in Executions : request[x] = NoRequest})

WaitsFor(q, k) == q.stage \in BeforeSave /\ q.request.key = k

(* executeFlow looks the key up; a key that is found answers the call.       *)
ExecuteFlow(c, f, s, k) ==
    /\ call[c] = Idle /\ IdsLeft
    /\ ~KeyTaken(k)
    /\ call' = [call EXCEPT ![c] = [stage |-> "checking", execution |-> NoExecution,
          request |-> [NoRequest EXCEPT !.flow = f, !.snapshot = s, !.key = k]]]
    /\ contended' = contended \cup {q \in Keys : q = k /\ \E d \in Clients : WaitsFor(call[d], k)}
    /\ UNCHANGED <<flowVars, rows, request, runs>>

\* Mutant: without the snapshot.
RetryExecutionOnLatest(c, x) ==
    /\ call[c] = Idle /\ IdsLeft
    /\ rows[x].status = "FAILED"
    /\ call' = [call EXCEPT ![c] = [stage |-> "checking", execution |-> NoExecution,
          request |-> [NoRequest EXCEPT !.flow = rows[x].flow, !.source = x]]]
    /\ UNCHANGED <<flowVars, rows, request, runs, contended>>

(* retryExecution executes the flow of a failed row on its snapshot, without *)
(* a key.                                                                    *)
RetryExecution(c, x) ==
    /\ call[c] = Idle /\ IdsLeft
    /\ rows[x].status = "FAILED"
    /\ call' = [call EXCEPT ![c] = [stage |-> "checking", execution |-> NoExecution,
          request |-> [NoRequest EXCEPT !.flow = rows[x].flow, !.snapshot = rows[x].snapshot, !.source = x]]]
    /\ UNCHANGED <<flowVars, rows, request, runs, contended>>

CheckFlow(c) ==
    /\ call[c].stage = "checking"
    /\ status[call[c].request.flow] = "PUBLISHED"
    /\ call' = [call EXCEPT ![c].stage = "resolving"]
    /\ UNCHANGED <<flowVars, rows, request, runs, contended>>

(* What findSnapshotById or findLatestSnapshot finds: an unknown id finds no *)
(* snapshot, and no snapshot is no error.                                    *)
Found(f, s) ==
    CASE s # NoSnapshot -> {s} \ Life!SnapshotsOf(NoFlow)
      [] OTHER -> Life!SnapshotsOf(f)

Resolve(f, s) == IF Found(f, s) = {} THEN {NoSnapshot} ELSE Found(f, s)

ResolveSnapshot(c) ==
    /\ call[c].stage = "resolving"
    /\ \E s \in Resolve(call[c].request.flow, call[c].request.snapshot) :
          call' = [call EXCEPT ![c] = [@ EXCEPT !.stage = "saving", !.request.snapshot = s]]
    /\ UNCHANGED <<flowVars, rows, request, runs, contended>>

(* A new id and its row, unless the key has one by now (ON CONFLICT DO       *)
(* NOTHING); the call goes on with the new id either way.                    *)
SaveExecution(c) ==
    LET r == call[c].request IN
    /\ call[c].stage = "saving"
    /\ \E x \in Executions :
          /\ request[x] = NoRequest
          /\ request' = [request EXCEPT ![x] = r]
          /\ rows' = IF KeyTaken(r.key) THEN rows
                     ELSE [rows EXCEPT ![x] = [status |-> "PENDING", flow |-> r.flow,
                                               snapshot |-> r.snapshot, key |-> r.key]]
          /\ call' = [call EXCEPT ![c].stage = "starting", ![c].execution = x]
    /\ UNCHANGED <<flowVars, runs, contended>>

StartWorkflow(c) ==
    /\ call[c].stage = "starting"
    /\ runs' = [runs EXCEPT ![call[c].execution].stage = "started"]
    /\ call' = [call EXCEPT ![c] = Idle]
    /\ UNCHANGED <<flowVars, rows, request, contended>>

(* Temporal cannot be reached, or the answer is lost after it has started    *)
(* the workflow.                                                             *)
StartFails(c) ==
    /\ call[c].stage = "starting"
    /\ \/ UNCHANGED runs
       \/ runs' = [runs EXCEPT ![call[c].execution].stage = "started"]
    /\ call' = [call EXCEPT ![c].stage = "failing"]
    /\ UNCHANGED <<flowVars, rows, request, contended>>

(* cancelExecution asks Temporal, which knows the workflow and has not       *)
(* closed it, and then marks the row.                                        *)
CancelExecution(c, x) ==
    /\ call[c] = Idle
    /\ runs[x].stage \notin {"none", "closed"}
    /\ call' = [call EXCEPT ![c] = [Idle EXCEPT !.stage = "failing", !.execution = x]]
    /\ UNCHANGED <<flowVars, rows, request, runs, contended>>

MarkFailed(c) ==
    /\ call[c].stage = "failing"
    /\ Update(call[c].execution, "FAILED")
    /\ call' = [call EXCEPT ![c] = Idle]
    /\ UNCHANGED <<flowVars, request, runs, contended>>

(* The flow is not published, a statement fails, or the service stops.       *)
CallDies(c) ==
    /\ call[c] # Idle
    /\ call' = [call EXCEPT ![c] = Idle]
    /\ UNCHANGED <<flowVars, rows, request, runs, contended>>

-----------------------------------------------------------------------------
(* Runs of the graph workflow.                                               *)

(* loadFlowSnapshot and persistExecutionStarted, in one action because what  *)
(* the first one reads does not change.                                      *)
Begin(x) ==
    /\ runs[x].stage = "started"
    /\ \E s \in Found(request[x].flow, request[x].snapshot) :
          runs' = [runs EXCEPT ![x] = [stage |-> "running", graph |-> s]]
    /\ Update(x, "RUNNING")
    /\ UNCHANGED <<flowVars, request, call, contended>>

Complete(x) ==
    /\ runs[x].stage = "running"
    /\ runs' = [runs EXCEPT ![x].stage = "decided"]
    /\ Update(x, "COMPLETED")
    /\ UNCHANGED <<flowVars, request, call, contended>>

Return(x) ==
    /\ runs[x].stage = "decided"
    /\ runs' = [runs EXCEPT ![x].stage = "closed"]
    /\ UNCHANGED <<flowVars, rows, request, call, contended>>

(* An activity fails for good, and the failure is written unless that fails  *)
(* too, or Temporal ends a workflow that is out of time.                     *)
RunFails(x) ==
    /\ runs[x].stage \notin {"none", "closed"}
    /\ runs' = [runs EXCEPT ![x].stage = "closed"]
    /\ Update(x, "FAILED") \/ UNCHANGED rows
    /\ UNCHANGED <<flowVars, request, call, contended>>

-----------------------------------------------------------------------------
Client(c) ==
    \/ \E f \in Flows, s \in Snapshots \cup {NoSnapshot}, k \in Keys \cup {NoKey} : ExecuteFlow(c, f, s, k)
    \/ \E x \in Executions : RetryExecution(c, x) \/ CancelExecution(c, x)
    \/ CheckFlow(c) \/ ResolveSnapshot(c) \/ SaveExecution(c)
    \/ StartWorkflow(c) \/ StartFails(c) \/ MarkFailed(c) \/ CallDies(c)

Run(x) == Begin(x) \/ Complete(x) \/ Return(x) \/ RunFails(x)

Next ==
    \/ FlowsChange
    \/ \E c \in Clients : Client(c)
    \/ \E x \in Executions : Run(x)

Spec == Init /\ [][Next]_vars

-----------------------------------------------------------------------------
(* Properties.                                                               *)

(* Types.                                                                    *)
Requests == [flow : Flows \cup {NoFlow}, snapshot : Snapshots \cup {NoSnapshot},
             key : Keys \cup {NoKey}, source : Executions \cup {NoExecution}]

TypeOK ==
    /\ Life!TypeOK
    /\ rows \in [Executions -> [status : {"ABSENT", "PENDING", "RUNNING", "COMPLETED", "FAILED"},
                                flow : Flows \cup {NoFlow}, snapshot : Snapshots \cup {NoSnapshot},
                                key : Keys \cup {NoKey}]]
    /\ request \in [Executions -> Requests]
    /\ call \in [Clients -> [stage : {"idle", "starting", "failing"} \cup BeforeSave,
                             request : Requests, execution : Executions \cup {NoExecution}]]
    /\ runs \in [Executions -> [stage : {"none", "started", "running", "decided", "closed"},
                                graph : Snapshots \cup {NoSnapshot}]]
    /\ contended \subseteq Keys

(* An execution is only accepted for a flow that has been published, and so  *)
(* its run finds a graph to load, even if the flow is deprecated meanwhile   *)
(* and even if the snapshot the caller asked for does not exist.             *)
LoadFindsGraph ==
    \A x \in Executions :
        runs[x].stage = "started" => Found(request[x].flow, request[x].snapshot) # {}

(* A retry executes the graph that the failed execution ran, or would have   *)
(* run: the two agree although each resolves its own snapshot.               *)
RetryRunsSameGraph ==
    \A x, y \in Executions :
        /\ request[x].source = y
        /\ runs[x].graph # NoSnapshot
        /\ runs[y].graph # NoSnapshot
        => runs[x].graph = runs[y].graph

(* Without two calls that look one key up at the same time, a key names one  *)
(* execution, which has its row.                                             *)
SerialKeyRunsOnce ==
    \A x, y \in Executions :
        LET k == request[x].key IN
        k \in Keys \ contended =>
            /\ rows[x].key = k
            /\ request[y].key = k => x = y

(* The inductive invariant, part one: a request that has been checked is for *)
(* a flow with a snapshot, and the snapshot it is resolved to is stored.     *)
Resolved(r) ==
    /\ r.flow \in Flows
    /\ status[r.flow] \in Released
    /\ r.snapshot # NoSnapshot => snapshots[r.snapshot] # NoFlow

(* Part two: a retry asks for the flow and the snapshot of the row it        *)
(* retries, and may resolve a snapshot only if that row has none.            *)
FollowsSource(r) ==
    LET y == r.source IN
    y # NoExecution =>
        /\ rows[y].status # "ABSENT"
        /\ r.flow = rows[y].flow
        /\ r.key = NoKey
        /\ IF rows[y].snapshot # NoSnapshot THEN r.snapshot = rows[y].snapshot
           ELSE r.snapshot # NoSnapshot => snapshots[r.snapshot] = r.flow

CallIsKnown(q) ==
    LET r == q.request IN
    /\ q.stage \in BeforeSave => r.flow \in Flows /\ FollowsSource(r)
    /\ q.stage = "resolving" => status[r.flow] \in Released
    /\ q.stage = "saving" => Resolved(r)
    /\ q.stage = "starting" => q.execution \in Executions /\ request[q.execution] # NoRequest
    /\ q.stage = "failing" => q.execution \in Executions

(* Part three: an id stands for its request, a row repeats it, and a run     *)
(* loads what the request names.                                             *)
ExecutionIsKnown(x) ==
    /\ request[x] # NoRequest => Resolved(request[x]) /\ FollowsSource(request[x])
    /\ rows[x].status = "ABSENT" => rows[x] = NoRow
    /\ rows[x].status # "ABSENT" =>
          /\ request[x] # NoRequest
          /\ rows[x].flow = request[x].flow
          /\ rows[x].snapshot = request[x].snapshot
          /\ rows[x].key = request[x].key
    /\ request[x] = NoRequest => runs[x] = NoRun
    /\ runs[x].graph # NoSnapshot => runs[x].graph \in Found(request[x].flow, request[x].snapshot)

(* Part four: a key nobody contended for has one call on its way to the      *)
(* insert, or its row.                                                       *)
KeyIsSerial(k) ==
    /\ \A c, d \in Clients : WaitsFor(call[c], k) /\ WaitsFor(call[d], k) => c = d
    /\ \A x \in Executions : request[x].key = k =>
          /\ rows[x].key = k
          /\ \A c \in Clients : ~WaitsFor(call[c], k)
          /\ \A y \in Executions : request[y].key = k => x = y

ExecutionInv ==
    /\ TypeOK
    /\ Life!PublishedOnce
    /\ \A c \in Clients : CallIsKnown(call[c])
    /\ \A x \in Executions : ExecutionIsKnown(x)
    /\ \A k \in Keys \ contended : KeyIsSerial(k)

=============================================================================
