----------------------- MODULE FlowExecutions_proofs -----------------------
(* Proofs about FlowExecutions, for any number of flows, clients, keys and   *)
(* executions.                                                               *)
EXTENDS FlowExecutions, TLAPS

LEMMA InitInv == Init => ExecutionInv
<1> SUFFICES ASSUME Init PROVE ExecutionInv
    OBVIOUS
<1>1. TypeOK
    BY DEF Init, TypeOK, Requests, NoRow, NoRequest, Idle, NoRun, Life!TypeOK, Life!Released
<1>2. Life!PublishedOnce
    BY NullAssumption DEF Init, Life!PublishedOnce, Life!SnapshotsOf, Life!Released
<1>3. \A c \in Clients : CallIsKnown(call[c])
    BY DEF Init, CallIsKnown, Idle, BeforeSave
<1>4. \A x \in Executions : ExecutionIsKnown(x)
    BY DEF Init, ExecutionIsKnown, NoRow, NoRequest, NoRun
<1>5. \A k \in Keys \ contended : KeyIsSerial(k)
    BY NullAssumption DEF Init, KeyIsSerial, WaitsFor, Idle, NoRequest, BeforeSave
<1> QED BY <1>1, <1>2, <1>3, <1>4, <1>5 DEF ExecutionInv

-----------------------------------------------------------------------------
(* Steps that store no new execution: tables, ids and keys stay, a row keeps *)
(* its flow, snapshot and key, runs load what their requests name, and a     *)
(* call waits for a key only if it did before or if nobody has used the key. *)

Kept ==
    /\ UNCHANGED <<flowVars, request>>
    /\ contended \subseteq contended'
    /\ \A x \in Executions :
        \/ rows'[x] = rows[x]
        \/ /\ rows[x].status # "ABSENT"
           /\ rows'[x].status # "ABSENT"
           /\ rows'[x].flow = rows[x].flow
           /\ rows'[x].snapshot = rows[x].snapshot
           /\ rows'[x].key = rows[x].key
    /\ \A x \in Executions :
        \/ runs'[x] = runs[x]
        \/ /\ request[x] # NoRequest
           /\ runs'[x].graph # NoSnapshot => runs'[x].graph \in Found(request[x].flow, request[x].snapshot)

Unused(k) ==
    /\ \A c \in Clients : ~WaitsFor(call[c], k)
    /\ \A x \in Executions : request[x].key # k

LEMMA KeptStep ==
    ASSUME ExecutionInv, TypeOK', Kept,
           NEW c, NEW q, CallIsKnown(q),
           call' = call \/ call' = [call EXCEPT ![c] = q],
           \A k \in Keys \ contended' : WaitsFor(q, k) => WaitsFor(call[c], k) \/ Unused(k)
    PROVE  ExecutionInv'
<1>1. status' = status /\ snapshots' = snapshots /\ request' = request
    BY DEF Kept, flowVars
<1>2. Life!PublishedOnce'
    BY <1>1 DEF ExecutionInv, Life!PublishedOnce, Life!SnapshotsOf
<1>3. \A x \in Executions :
        /\ rows'[x].status = "ABSENT" <=> rows[x].status = "ABSENT"
        /\ rows'[x].flow = rows[x].flow
        /\ rows'[x].snapshot = rows[x].snapshot
        /\ rows'[x].key = rows[x].key
    BY DEF Kept
<1>4. ASSUME NEW r, r.source \in Executions \cup {NoExecution} PROVE FollowsSource(r)' <=> FollowsSource(r)
    BY <1>1, <1>3, <1>4 DEF FollowsSource
<1>5. ASSUME NEW r PROVE Resolved(r)' <=> Resolved(r)
    BY <1>1 DEF Resolved
<1>6. \A d \in Clients : CallIsKnown(call'[d])
    BY DEF ExecutionInv, TypeOK
<1>7. \A d \in Clients : CallIsKnown(call[d])'
    <2> SUFFICES ASSUME NEW d \in Clients PROVE CallIsKnown(call[d])'
        OBVIOUS
    <2>1. call'[d].request.source \in Executions \cup {NoExecution}
        BY DEF TypeOK, Requests
    <2>2. FollowsSource(call'[d].request) <=> FollowsSource(call[d].request)'
        BY <1>1, <1>3, <2>1 DEF FollowsSource
    <2>3. Resolved(call'[d].request) <=> Resolved(call[d].request)'
        BY <1>1 DEF Resolved
    <2> QED BY <1>1, <1>6, <2>2, <2>3 DEF CallIsKnown
<1>8. \A x \in Executions : ExecutionIsKnown(x)'
    <2> SUFFICES ASSUME NEW x \in Executions PROVE ExecutionIsKnown(x)'
        OBVIOUS
    <2>1. ExecutionIsKnown(x)
        BY DEF ExecutionInv
    <2>2. request[x].source \in Executions \cup {NoExecution}
        BY DEF ExecutionInv, TypeOK, Requests
    <2>3. FollowsSource(request[x])' <=> FollowsSource(request[x])
        BY <1>1, <1>3, <2>2 DEF FollowsSource
    <2>4. Resolved(request[x])' <=> Resolved(request[x])
        BY <1>1 DEF Resolved
    <2>5. rows'[x].status = "ABSENT" => rows'[x] = NoRow
        BY <2>1 DEF Kept, ExecutionIsKnown
    <2>6. Found(request[x].flow, request[x].snapshot)' = Found(request[x].flow, request[x].snapshot)
        BY <1>1 DEF Found, Life!SnapshotsOf
    <2>7. /\ request'[x] = NoRequest => runs'[x] = NoRun
          /\ runs'[x].graph # NoSnapshot => runs'[x].graph \in Found(request[x].flow, request[x].snapshot)
        BY <1>1, <2>1 DEF Kept, ExecutionIsKnown
    <2> QED BY <1>1, <1>3, <2>1, <2>3, <2>4, <2>5, <2>6, <2>7 DEF ExecutionIsKnown
<1>9. \A k \in Keys \ contended' : KeyIsSerial(k)'
    <2> SUFFICES ASSUME NEW k \in Keys \ contended' PROVE KeyIsSerial(k)'
        OBVIOUS
    <2>1. KeyIsSerial(k)
        BY DEF ExecutionInv, Kept
    <2>2. \A d \in Clients : WaitsFor(call'[d], k) => WaitsFor(call[d], k) \/ (d = c /\ Unused(k))
        BY DEF ExecutionInv, TypeOK
    <2>3. \A d, e \in Clients : WaitsFor(call'[d], k) /\ WaitsFor(call'[e], k) => d = e
        BY <2>1, <2>2 DEF KeyIsSerial, Unused
    <2>4. \A x \in Executions : request[x].key = k => \A d \in Clients : ~WaitsFor(call'[d], k)
        BY <2>1, <2>2 DEF KeyIsSerial, Unused
    <2> QED BY <1>1, <1>3, <2>1, <2>3, <2>4 DEF KeyIsSerial, WaitsFor, BeforeSave
<1> QED BY <1>2, <1>7, <1>8, <1>9 DEF ExecutionInv

-----------------------------------------------------------------------------
(* The calls.                                                                *)

LEMMA IdleIsKnown == CallIsKnown(Idle) /\ \A k : ~WaitsFor(Idle, k)
BY DEF CallIsKnown, Idle, BeforeSave, WaitsFor

(* A call that only moves on.                                                *)
LEMMA MoveStep ==
    ASSUME ExecutionInv, NEW c \in Clients,
           NEW q \in [stage : {"idle", "starting", "failing"} \cup BeforeSave,
                      request : Requests, execution : Executions \cup {NoExecution}],
           CallIsKnown(q),
           call' = [call EXCEPT ![c] = q],
           UNCHANGED <<flowVars, rows, request, runs>>,
           contended \subseteq contended', contended' \subseteq Keys,
           \A k \in Keys \ contended' : WaitsFor(q, k) => WaitsFor(call[c], k) \/ Unused(k)
    PROVE  ExecutionInv'
<1>1. TypeOK'
    BY DEF ExecutionInv, TypeOK, flowVars, Life!TypeOK
<1>2. Kept
    BY DEF Kept
<1> QED BY <1>1, <1>2, KeptStep

LEMMA ExecuteFlowStep ==
    ASSUME ExecutionInv, NEW c \in Clients, NEW f \in Flows, NEW s \in Snapshots \cup {NoSnapshot},
           NEW k \in Keys \cup {NoKey}, ExecuteFlow(c, f, s, k)
    PROVE  ExecutionInv'
<1> DEFINE r == [NoRequest EXCEPT !.flow = f, !.snapshot = s, !.key = k]
           q == [stage |-> "checking", execution |-> NoExecution, request |-> r]
<1>1. /\ r \in Requests
      /\ r.flow = f /\ r.key = k /\ r.source = NoExecution
    BY DEF NoRequest, Requests
<1>2. CallIsKnown(q)
    BY <1>1 DEF CallIsKnown, FollowsSource
<1>3. contended \subseteq contended' /\ contended' \subseteq Keys
    BY DEF ExecuteFlow, ExecutionInv, TypeOK
<1>4. ASSUME NEW j \in Keys \ contended', WaitsFor(q, j) PROVE Unused(j)
    <2>1. j = k
        BY <1>1, <1>4 DEF WaitsFor
    <2>2. \A d \in Clients : ~WaitsFor(call[d], j)
        BY <2>1 DEF ExecuteFlow
    <2>3. \A x \in Executions : rows[x].key # j
        BY <2>1, NullAssumption DEF ExecuteFlow, KeyTaken
    <2>4. KeyIsSerial(j)
        BY <1>3 DEF ExecutionInv
    <2> QED BY <2>2, <2>3, <2>4 DEF KeyIsSerial, Unused
<1>5. call' = [call EXCEPT ![c] = q] /\ UNCHANGED <<flowVars, rows, request, runs>>
    BY DEF ExecuteFlow
<1> QED BY <1>1, <1>2, <1>3, <1>4, <1>5, MoveStep DEF BeforeSave

LEMMA RetryExecutionStep ==
    ASSUME ExecutionInv, NEW c \in Clients, NEW x \in Executions, RetryExecution(c, x) PROVE ExecutionInv'
<1> DEFINE r == [NoRequest EXCEPT !.flow = rows[x].flow, !.snapshot = rows[x].snapshot, !.source = x]
           q == [stage |-> "checking", execution |-> NoExecution, request |-> r]
<1>1. /\ r \in Requests
      /\ r.flow = rows[x].flow /\ r.snapshot = rows[x].snapshot /\ r.key = NoKey /\ r.source = x
    BY DEF ExecutionInv, TypeOK, NoRequest, Requests
<1>2. rows[x].status # "ABSENT" /\ rows[x].flow \in Flows
    BY DEF RetryExecution, ExecutionInv, ExecutionIsKnown, Resolved
<1>3. CallIsKnown(q)
    BY <1>1, <1>2 DEF CallIsKnown, FollowsSource
<1>4. \A j \in Keys : ~WaitsFor(q, j)
    BY <1>1, NullAssumption DEF WaitsFor
<1>5. call' = [call EXCEPT ![c] = q] /\ UNCHANGED <<flowVars, rows, request, runs, contended>>
    BY DEF RetryExecution
<1>6. contended \subseteq Keys
    BY DEF ExecutionInv, TypeOK
<1> QED BY <1>1, <1>3, <1>4, <1>5, <1>6, MoveStep DEF BeforeSave

LEMMA CheckFlowStep ==
    ASSUME ExecutionInv, NEW c \in Clients, CheckFlow(c) PROVE ExecutionInv'
<1> DEFINE q == [call[c] EXCEPT !.stage = "resolving"]
<1>1. CallIsKnown(q)
    BY DEF CheckFlow, ExecutionInv, TypeOK, CallIsKnown, BeforeSave, Released
<1>2. \A k \in Keys : WaitsFor(q, k) => WaitsFor(call[c], k)
    BY DEF CheckFlow, ExecutionInv, TypeOK, WaitsFor, BeforeSave
<1>3. call' = [call EXCEPT ![c] = q] /\ UNCHANGED <<flowVars, rows, request, runs, contended>>
    BY DEF CheckFlow, ExecutionInv, TypeOK
<1>4. contended \subseteq Keys
    BY DEF ExecutionInv, TypeOK
<1>5. q \in [stage : {"idle", "starting", "failing"} \cup BeforeSave,
             request : Requests, execution : Executions \cup {NoExecution}]
    BY DEF ExecutionInv, TypeOK, BeforeSave
<1> QED BY <1>1, <1>2, <1>3, <1>4, <1>5, MoveStep

LEMMA ResolveSnapshotStep ==
    ASSUME ExecutionInv, NEW c \in Clients, ResolveSnapshot(c) PROVE ExecutionInv'
<1> DEFINE r == call[c].request
<1>1. PICK s \in Resolve(r.flow, r.snapshot) :
        call' = [call EXCEPT ![c] = [@ EXCEPT !.stage = "saving", !.request.snapshot = s]]
    BY DEF ResolveSnapshot
<1> DEFINE q == [call[c] EXCEPT !.stage = "saving", !.request.snapshot = s]
<1>2. /\ r \in Requests /\ r.flow \in Flows /\ status[r.flow] \in Released /\ FollowsSource(r)
      /\ call[c].execution \in Executions \cup {NoExecution}
    BY DEF ResolveSnapshot, ExecutionInv, TypeOK, CallIsKnown, BeforeSave
<1>3. s \in Snapshots \cup {NoSnapshot} /\ (s # NoSnapshot => snapshots[s] # NoFlow)
    <2>1. CASE s = NoSnapshot
        BY <2>1
    <2>2. CASE s # NoSnapshot
        <3>1. s \in Found(r.flow, r.snapshot)
            BY <2>2 DEF Resolve
        <3> QED BY <1>2, <3>1, NullAssumption DEF Found, Life!SnapshotsOf, Requests
    <2> QED BY <2>1, <2>2
<1>4. /\ q.stage = "saving" /\ q.request = [r EXCEPT !.snapshot = s] /\ q.execution = call[c].execution
      /\ q.request \in Requests
      /\ q.request.flow = r.flow /\ q.request.key = r.key /\ q.request.source = r.source /\ q.request.snapshot = s
    BY <1>2, <1>3 DEF ExecutionInv, TypeOK, Requests
<1>5. FollowsSource(q.request)
    <2> SUFFICES ASSUME r.source # NoExecution PROVE FollowsSource(q.request)
        BY <1>4 DEF FollowsSource
    <2>0. r.source \in Executions
        BY <1>2 DEF Requests
    <2> DEFINE y == r.source
    <2>1. rows[y].status # "ABSENT" /\ r.flow = rows[y].flow /\ r.key = NoKey
        BY <1>2 DEF FollowsSource
    <2>2. CASE rows[y].snapshot # NoSnapshot
        <3>1. r.snapshot = rows[y].snapshot /\ snapshots[r.snapshot] # NoFlow
            BY <1>2, <2>0, <2>1, <2>2 DEF FollowsSource, ExecutionInv, ExecutionIsKnown, Resolved
        <3>2. Found(r.flow, r.snapshot) = {r.snapshot}
            BY <2>2, <3>1 DEF Found, Life!SnapshotsOf
        <3>3. s = r.snapshot
            BY <3>2 DEF Resolve
        <3> QED BY <1>4, <2>1, <2>2, <3>1, <3>3 DEF FollowsSource
    <2>3. CASE rows[y].snapshot = NoSnapshot
        <3>1. r.snapshot # NoSnapshot => snapshots[r.snapshot] = r.flow
            BY <1>2, <2>0, <2>3 DEF FollowsSource
        <3>2. s # NoSnapshot => snapshots[s] = r.flow
            BY <3>1 DEF Resolve, Found, Life!SnapshotsOf
        <3> QED BY <1>4, <2>1, <2>3, <3>2 DEF FollowsSource
    <2> QED BY <2>2, <2>3
<1>6. CallIsKnown(q)
    BY <1>2, <1>3, <1>4, <1>5 DEF CallIsKnown, Resolved
<1>7. \A k \in Keys : WaitsFor(q, k) => WaitsFor(call[c], k)
    BY <1>4 DEF ResolveSnapshot, WaitsFor, BeforeSave
<1>8. call' = [call EXCEPT ![c] = q] /\ UNCHANGED <<flowVars, rows, request, runs, contended>>
    BY <1>1 DEF ResolveSnapshot, ExecutionInv, TypeOK
<1>9. contended \subseteq Keys
    BY DEF ExecutionInv, TypeOK
<1>10. q \in [stage : {"idle", "starting", "failing"} \cup BeforeSave,
              request : Requests, execution : Executions \cup {NoExecution}]
    BY <1>2, <1>4 DEF ExecutionInv, TypeOK, BeforeSave
<1> QED BY <1>6, <1>7, <1>8, <1>9, <1>10, MoveStep

LEMMA CancelStep ==
    ASSUME ExecutionInv, NEW c \in Clients, NEW x \in Executions, CancelExecution(c, x) PROVE ExecutionInv'
<1> DEFINE q == [Idle EXCEPT !.stage = "failing", !.execution = x]
<1>1. q.stage = "failing" /\ q.execution = x /\ q.request = NoRequest
    BY DEF Idle
<1>2. CallIsKnown(q) /\ \A k : ~WaitsFor(q, k)
    BY <1>1 DEF CallIsKnown, WaitsFor, BeforeSave
<1>3. q \in [stage : {"idle", "starting", "failing"} \cup BeforeSave,
             request : Requests, execution : Executions \cup {NoExecution}]
    BY DEF Idle, NoRequest, Requests
<1>4. call' = [call EXCEPT ![c] = q] /\ UNCHANGED <<flowVars, rows, request, runs, contended>> /\ contended \subseteq Keys
    BY DEF CancelExecution, ExecutionInv, TypeOK
<1> QED BY <1>2, <1>3, <1>4, MoveStep

LEMMA CallDiesStep ==
    ASSUME ExecutionInv, NEW c \in Clients, CallDies(c) PROVE ExecutionInv'
<1>1. Idle \in [stage : {"idle", "starting", "failing"} \cup BeforeSave,
                request : Requests, execution : Executions \cup {NoExecution}]
    BY DEF Idle, NoRequest, Requests
<1>2. call' = [call EXCEPT ![c] = Idle] /\ UNCHANGED <<flowVars, rows, request, runs, contended>> /\ contended \subseteq Keys
    BY DEF CallDies, ExecutionInv, TypeOK
<1> QED BY <1>1, <1>2, IdleIsKnown, MoveStep

-----------------------------------------------------------------------------
(* The insert. The id is new; the row is stored unless the key has one, and  *)
(* a key that has one although this call missed it has been contended for.   *)

LEMMA SaveExecutionStep ==
    ASSUME ExecutionInv, NEW c \in Clients, SaveExecution(c) PROVE ExecutionInv'
<1> DEFINE r == call[c].request
           row == [status |-> "PENDING", flow |-> r.flow, snapshot |-> r.snapshot, key |-> r.key]
<1>1. PICK x \in Executions :
        /\ request[x] = NoRequest
        /\ request' = [request EXCEPT ![x] = r]
        /\ rows' = IF KeyTaken(r.key) THEN rows ELSE [rows EXCEPT ![x] = row]
        /\ call' = [call EXCEPT ![c].stage = "starting", ![c].execution = x]
    BY DEF SaveExecution
<1>2. UNCHANGED <<flowVars, runs, contended>> /\ call[c].stage = "saving"
    BY DEF SaveExecution
<1>3. r \in Requests /\ Resolved(r) /\ FollowsSource(r) /\ r.flow \in Flows
    BY <1>2 DEF ExecutionInv, TypeOK, CallIsKnown, BeforeSave
<1>4. r # NoRequest /\ NoRequest \in Requests
    BY <1>3, NullAssumption DEF NoRequest, Requests
<1>5. ExecutionIsKnown(x) /\ rows[x] = NoRow /\ runs[x] = NoRun
    BY <1>1 DEF ExecutionInv, ExecutionIsKnown
<1>6. \A y \in Executions \ {x} : request'[y] = request[y] /\ rows'[y] = rows[y] /\ runs'[y] = runs[y]
    BY <1>1, <1>2 DEF ExecutionInv, TypeOK
<1>7. request'[x] = r /\ rows'[x] \in {NoRow, row} /\ runs'[x] = runs[x]
    BY <1>1, <1>2, <1>5 DEF ExecutionInv, TypeOK
<1>8. /\ \A d \in Clients \ {c} : call'[d] = call[d]
      /\ call'[c].stage = "starting" /\ call'[c].execution = x /\ call'[c].request = r
    BY <1>1 DEF ExecutionInv, TypeOK
<1>9. TypeOK'
    <2>1. row \in [status : {"ABSENT", "PENDING", "RUNNING", "COMPLETED", "FAILED"}, flow : Flows \cup {NoFlow},
                   snapshot : Snapshots \cup {NoSnapshot}, key : Keys \cup {NoKey}]
        BY <1>3 DEF Requests
    <2>2. rows' \in [Executions -> [status : {"ABSENT", "PENDING", "RUNNING", "COMPLETED", "FAILED"}, flow : Flows \cup {NoFlow},
                                    snapshot : Snapshots \cup {NoSnapshot}, key : Keys \cup {NoKey}]]
        BY <1>1, <2>1 DEF ExecutionInv, TypeOK
    <2>3. request' \in [Executions -> Requests]
        BY <1>1, <1>3 DEF ExecutionInv, TypeOK
    <2>4. call' \in [Clients -> [stage : {"idle", "starting", "failing"} \cup BeforeSave,
                                 request : Requests, execution : Executions \cup {NoExecution}]]
        BY <1>1 DEF ExecutionInv, TypeOK
    <2> QED BY <1>2, <2>2, <2>3, <2>4 DEF ExecutionInv, TypeOK, flowVars, Life!TypeOK
<1>10. Life!PublishedOnce'
    BY <1>2 DEF ExecutionInv, flowVars, Life!PublishedOnce, Life!SnapshotsOf
<1>11. ASSUME NEW p \in Requests, FollowsSource(p) PROVE FollowsSource(p)'
    <2>1. p.source # NoExecution => p.source \in Executions \ {x}
        BY <1>5, <1>11 DEF FollowsSource, Requests, NoRow
    <2> QED BY <1>2, <1>6, <1>11, <2>1 DEF FollowsSource, flowVars
<1>12. ASSUME NEW p, Resolved(p) PROVE Resolved(p)'
    BY <1>2, <1>12 DEF Resolved, flowVars
<1>13. ASSUME NEW d \in Clients PROVE CallIsKnown(call[d])'
    <2>1. CASE d = c
        BY <1>4, <1>7, <1>8, <2>1 DEF CallIsKnown, BeforeSave
    <2>2. CASE d # c
        <3>1. CallIsKnown(call[d]) /\ call[d].request \in Requests /\ call'[d] = call[d]
            BY <1>8, <2>2 DEF ExecutionInv, TypeOK
        <3>2. \A y \in Executions : request[y] # NoRequest => request'[y] # NoRequest
            BY <1>1, <1>6
        <3> QED BY <1>2, <1>11, <1>12, <3>1, <3>2 DEF CallIsKnown, flowVars
    <2> QED BY <2>1, <2>2
<1>14. ASSUME NEW y \in Executions PROVE ExecutionIsKnown(y)'
    <2>1. CASE y = x
        <3>0. r.source # NoExecution => r.source \in Executions \ {x}
            BY <1>3, <1>5 DEF FollowsSource, Requests, NoRow
        <3>1. Resolved(request[y])' /\ FollowsSource(request[y])'
            BY <1>2, <1>3, <1>6, <1>7, <2>1, <3>0 DEF Resolved, FollowsSource, flowVars
        <3>2. request'[y] = r /\ runs'[y].graph = NoSnapshot
            BY <1>5, <1>7, <2>1 DEF NoRun
        <3>3. rows'[y].status = "ABSENT" => rows'[y] = NoRow
            BY <1>7, <2>1
        <3>4. rows'[y].status # "ABSENT" => rows'[y].flow = r.flow /\ rows'[y].snapshot = r.snapshot /\ rows'[y].key = r.key
            BY <1>7, <2>1 DEF NoRow
        <3> QED BY <1>4, <3>1, <3>2, <3>3, <3>4 DEF ExecutionIsKnown
    <2>2. CASE y # x
        <3>1. request'[y] = request[y] /\ rows'[y] = rows[y] /\ runs'[y] = runs[y] /\ request[y] \in Requests
            BY <1>6, <2>2 DEF ExecutionInv, TypeOK
        <3>2. request[y] # NoRequest => Resolved(request[y])' /\ FollowsSource(request[y])'
            <4>1. request[y] # NoRequest => Resolved(request[y]) /\ FollowsSource(request[y])
                BY DEF ExecutionInv, ExecutionIsKnown
            <4> QED BY <1>2, <1>6, <1>11, <1>12, <3>1, <4>1 DEF Resolved, FollowsSource, flowVars
        <3>3. Found(request[y].flow, request[y].snapshot)' = Found(request[y].flow, request[y].snapshot)
            BY <1>2, <3>1 DEF Found, Life!SnapshotsOf, flowVars
        <3>4. ExecutionIsKnown(y)
            BY DEF ExecutionInv
        <3> QED BY <3>1, <3>2, <3>3, <3>4 DEF ExecutionIsKnown
    <2> QED BY <2>1, <2>2
<1>15. ASSUME NEW k \in Keys \ contended' PROVE KeyIsSerial(k)'
    <2>1. KeyIsSerial(k) /\ k # NoKey
        BY <1>2, NullAssumption DEF ExecutionInv
    <2>2. \A d \in Clients : WaitsFor(call'[d], k) => d # c /\ WaitsFor(call[d], k)
        BY <1>8 DEF WaitsFor, BeforeSave
    <2>3. r.key = k => WaitsFor(call[c], k)
        BY <1>2 DEF WaitsFor, BeforeSave
    <2>4. r.key = k => \A y \in Executions : request[y].key # k /\ rows[y].key # k
        <3>1. r.key = k => \A y \in Executions : request[y].key # k
            BY <2>1, <2>3 DEF KeyIsSerial
        <3>2. \A y \in Executions : rows[y].key = k => request[y].key = k
            BY <2>1 DEF ExecutionInv, ExecutionIsKnown, NoRow
        <3> QED BY <3>1, <3>2
    <2>5. r.key = k => rows'[x].key = k
        BY <1>1, <2>4 DEF KeyTaken, ExecutionInv, TypeOK
    <2>6. \A d, e \in Clients : WaitsFor(call'[d], k) /\ WaitsFor(call'[e], k) => d = e
        BY <2>1, <2>2 DEF KeyIsSerial
    <2>7. ASSUME NEW y \in Executions, request'[y].key = k
          PROVE  /\ rows'[y].key = k
                 /\ \A d \in Clients : ~WaitsFor(call'[d], k)
                 /\ \A z \in Executions : request'[z].key = k => y = z
        <3>1. CASE y = x
            BY <1>6, <1>7, <2>1, <2>2, <2>3, <2>4, <2>5, <2>7, <3>1 DEF KeyIsSerial
        <3>2. CASE y # x
            BY <1>6, <1>7, <2>1, <2>2, <2>4, <2>7, <3>2 DEF KeyIsSerial
        <3> QED BY <3>1, <3>2
    <2> QED BY <2>6, <2>7 DEF KeyIsSerial, WaitsFor, BeforeSave
<1> QED BY <1>9, <1>10, <1>13, <1>14, <1>15 DEF ExecutionInv

-----------------------------------------------------------------------------
(* Starting workflows, marking rows, running.                                *)

LEMMA UpdateKeeps ==
    ASSUME ExecutionInv, NEW x \in Executions, NEW st \in {"RUNNING", "COMPLETED", "FAILED"},
           Update(x, st) \/ UNCHANGED rows
    PROVE  /\ rows' \in [Executions -> [status : {"ABSENT", "PENDING", "RUNNING", "COMPLETED", "FAILED"}, flow : Flows \cup {NoFlow},
                                        snapshot : Snapshots \cup {NoSnapshot}, key : Keys \cup {NoKey}]]
           /\ \A y \in Executions :
                \/ rows'[y] = rows[y]
                \/ /\ rows[y].status # "ABSENT"
                   /\ rows'[y].status # "ABSENT"
                   /\ rows'[y].flow = rows[y].flow
                   /\ rows'[y].snapshot = rows[y].snapshot
                   /\ rows'[y].key = rows[y].key
<1> DEFINE row == [rows[x] EXCEPT !.status = IF rows[x].status = "ABSENT" THEN rows[x].status ELSE st]
<1>1. rows \in [Executions -> [status : {"ABSENT", "PENDING", "RUNNING", "COMPLETED", "FAILED"}, flow : Flows \cup {NoFlow},
                               snapshot : Snapshots \cup {NoSnapshot}, key : Keys \cup {NoKey}]]
    BY DEF ExecutionInv, TypeOK
<1>2. /\ row \in [status : {"ABSENT", "PENDING", "RUNNING", "COMPLETED", "FAILED"}, flow : Flows \cup {NoFlow},
                   snapshot : Snapshots \cup {NoSnapshot}, key : Keys \cup {NoKey}]
      /\ row.flow = rows[x].flow /\ row.snapshot = rows[x].snapshot /\ row.key = rows[x].key
      /\ IF rows[x].status = "ABSENT" THEN row = rows[x] ELSE row.status = st
    BY <1>1
<1>3. rows' = rows \/ rows' = [rows EXCEPT ![x] = row]
    BY <1>1 DEF Update
<1> QED BY <1>1, <1>2, <1>3

LEMMA StartedIsKnown ==
    ASSUME ExecutionInv, NEW c \in Clients, call[c].stage = "starting"
    PROVE  /\ call[c].execution \in Executions
           /\ request[call[c].execution] # NoRequest
BY DEF ExecutionInv, CallIsKnown

LEMMA StartWorkflowStep ==
    ASSUME ExecutionInv, NEW c \in Clients, StartWorkflow(c) \/ StartFails(c) PROVE ExecutionInv'
<1> DEFINE x == call[c].execution
           q == IF StartWorkflow(c) THEN Idle ELSE [call[c] EXCEPT !.stage = "failing"]
<1>1. x \in Executions /\ request[x] # NoRequest
    BY StartedIsKnown DEF StartWorkflow, StartFails
<1>2. /\ UNCHANGED <<flowVars, rows, request, contended>>
      /\ runs' = runs \/ runs' = [runs EXCEPT ![x].stage = "started"]
    BY DEF StartWorkflow, StartFails
<1>3. \A y \in Executions : runs'[y] = runs[y] \/
        (y = x /\ runs'[y].stage = "started" /\ runs'[y].graph = runs[y].graph)
    BY <1>1, <1>2 DEF ExecutionInv, TypeOK
<1>4. \A y \in Executions : runs[y].graph # NoSnapshot => runs[y].graph \in Found(request[y].flow, request[y].snapshot)
    BY DEF ExecutionInv, ExecutionIsKnown
<1>5. Kept
    BY <1>1, <1>2, <1>3, <1>4 DEF Kept
<1>6. call' = [call EXCEPT ![c] = q]
    BY DEF StartWorkflow, StartFails, ExecutionInv, TypeOK
<1>7. q = Idle \/ (q = [call[c] EXCEPT !.stage = "failing"])
    OBVIOUS
<1>8. q \in [stage : {"idle", "starting", "failing"} \cup BeforeSave,
             request : Requests, execution : Executions \cup {NoExecution}]
    <2>1. Idle \in [stage : {"idle", "starting", "failing"} \cup BeforeSave,
                    request : Requests, execution : Executions \cup {NoExecution}]
        BY DEF Idle, NoRequest, Requests
    <2>2. [call[c] EXCEPT !.stage = "failing"] \in [stage : {"idle", "starting", "failing"} \cup BeforeSave,
                    request : Requests, execution : Executions \cup {NoExecution}]
        BY DEF ExecutionInv, TypeOK
    <2> QED BY <1>7, <2>1, <2>2
<1>9. CallIsKnown(q) /\ \A k : ~WaitsFor(q, k)
    <2>1. CASE q = Idle
        BY <2>1, IdleIsKnown
    <2>2. CASE q = [call[c] EXCEPT !.stage = "failing"]
        <3>1. q.stage = "failing" /\ q.execution = x
            BY <2>2 DEF ExecutionInv, TypeOK
        <3> QED BY <1>1, <3>1 DEF CallIsKnown, WaitsFor, BeforeSave
    <2> QED BY <1>7, <2>1, <2>2
<1>10. TypeOK'
    <2>1. runs' \in [Executions -> [stage : {"none", "started", "running", "decided", "closed"},
                                    graph : Snapshots \cup {NoSnapshot}]]
        BY <1>2 DEF ExecutionInv, TypeOK
    <2>2. call' \in [Clients -> [stage : {"idle", "starting", "failing"} \cup BeforeSave,
                                 request : Requests, execution : Executions \cup {NoExecution}]]
        BY <1>6, <1>8 DEF ExecutionInv, TypeOK
    <2> QED BY <1>2, <2>1, <2>2 DEF ExecutionInv, TypeOK, flowVars, Life!TypeOK
<1> QED BY <1>5, <1>6, <1>9, <1>10, KeptStep

LEMMA MarkFailedStep ==
    ASSUME ExecutionInv, NEW c \in Clients, MarkFailed(c) PROVE ExecutionInv'
<1>1. call[c].execution \in Executions
    BY DEF MarkFailed, ExecutionInv, CallIsKnown
<1>2. /\ UNCHANGED <<flowVars, request, runs, contended>>
      /\ call' = [call EXCEPT ![c] = Idle]
      /\ Update(call[c].execution, "FAILED")
    BY DEF MarkFailed
<1>3. Kept
    BY <1>1, <1>2, UpdateKeeps DEF Kept
<1>4. TypeOK'
    <2>1. Idle \in [stage : {"idle", "starting", "failing"} \cup BeforeSave,
                    request : Requests, execution : Executions \cup {NoExecution}]
        BY DEF Idle, NoRequest, Requests
    <2> QED BY <1>1, <1>2, <2>1, UpdateKeeps DEF ExecutionInv, TypeOK, flowVars, Life!TypeOK
<1> QED BY <1>2, <1>3, <1>4, IdleIsKnown, KeptStep

LEMMA RunStep ==
    ASSUME ExecutionInv, NEW x \in Executions, Run(x) PROVE ExecutionInv'
<1>1. PICK r \in [stage : {"started", "running", "decided", "closed"}, graph : Snapshots \cup {NoSnapshot}] :
        /\ runs' = [runs EXCEPT ![x] = r]
        /\ r.graph # NoSnapshot => r.graph \in Found(request[x].flow, request[x].snapshot)
    <2> DEFINE RunRecords == [stage : {"started", "running", "decided", "closed"}, graph : Snapshots \cup {NoSnapshot}]
    <2>1. runs[x].graph # NoSnapshot => runs[x].graph \in Found(request[x].flow, request[x].snapshot)
        BY DEF ExecutionInv, ExecutionIsKnown
    <2>2. CASE Begin(x)
        <3>1. PICK s \in Found(request[x].flow, request[x].snapshot) :
                runs' = [runs EXCEPT ![x] = [stage |-> "running", graph |-> s]]
            BY <2>2 DEF Begin
        <3>2. request[x].snapshot \in Snapshots \cup {NoSnapshot}
            BY DEF ExecutionInv, TypeOK, Requests
        <3>3. s \in Snapshots
            BY <3>1, <3>2 DEF Found, Life!SnapshotsOf
        <3>4. [stage |-> "running", graph |-> s] \in RunRecords
            BY <3>3
        <3> QED BY <3>1, <3>4
    <2>3. ASSUME NEW st \in {"decided", "closed"}, runs' = [runs EXCEPT ![x].stage = st]
          PROVE  \E r \in RunRecords : /\ runs' = [runs EXCEPT ![x] = r]
                                       /\ r.graph # NoSnapshot => r.graph \in Found(request[x].flow, request[x].snapshot)
        <3> DEFINE r == [runs[x] EXCEPT !.stage = st]
        <3>1. runs \in [Executions -> [stage : {"none", "started", "running", "decided", "closed"}, graph : Snapshots \cup {NoSnapshot}]]
            BY DEF ExecutionInv, TypeOK
        <3>2. r \in RunRecords /\ r.graph = runs[x].graph
            BY <3>1
        <3>3. runs' = [runs EXCEPT ![x] = r]
            BY <2>3
        <3> QED BY <2>1, <3>2, <3>3
    <2>4. CASE Complete(x) \/ Return(x) \/ RunFails(x)
        BY <2>3, <2>4 DEF Complete, Return, RunFails
    <2> QED BY <2>2, <2>4 DEF Run
<1>2. UNCHANGED <<flowVars, request, call, contended>>
    BY DEF Run, Begin, Complete, Return, RunFails
<1>3. \E st \in {"RUNNING", "COMPLETED", "FAILED"} : Update(x, st) \/ UNCHANGED rows
    BY DEF Run, Begin, Complete, Return, RunFails
<1>4. request[x] # NoRequest
    <2>1. runs[x].stage # "none"
        BY DEF Run, Begin, Complete, Return, RunFails
    <2> QED BY <2>1 DEF NoRun, ExecutionInv, ExecutionIsKnown
<1>5. Kept
    BY <1>1, <1>2, <1>3, <1>4, UpdateKeeps DEF Kept, ExecutionInv, TypeOK
<1>6. TypeOK'
    BY <1>1, <1>2, <1>3, UpdateKeeps DEF ExecutionInv, TypeOK, flowVars, Life!TypeOK
<1> QED BY <1>2, <1>5, <1>6, IdleIsKnown, KeptStep

-----------------------------------------------------------------------------
(* Flows change underneath: released flows stay released, snapshots stay,    *)
(* and a flow that has one gets no other.                                    *)

LEMMA FlowsStep ==
    ASSUME ExecutionInv, FlowsChange PROVE ExecutionInv'
<1>1. UNCHANGED <<rows, request, call, runs, contended>>
    BY DEF FlowsChange, executionVars
<1>2. PICK f \in Flows : Life!Draft(f) \/ Life!Publish(f) \/ Life!Deprecate(f)
    BY DEF FlowsChange, Life!Next
<1>3. Life!TypeOK
    BY DEF ExecutionInv, TypeOK
<1>4. Life!TypeOK'
    BY <1>2, <1>3 DEF Life!Draft, Life!Publish, Life!Deprecate, Life!TypeOK, Life!Released
<1>5. \A g \in Flows : status[g] \in Released => status'[g] \in Released
    BY <1>2, <1>3 DEF Life!Draft, Life!Publish, Life!Deprecate, Life!TypeOK, Released
<1>6. \A s \in Snapshots : snapshots[s] # NoFlow => snapshots'[s] = snapshots[s]
    BY <1>2, <1>3 DEF Life!Draft, Life!Publish, Life!Deprecate, Life!TypeOK, Life!SnapshotsOf
<1>7. Life!PublishedOnce' /\ \A g \in Flows : status[g] \in Released => Life!SnapshotsOf(g)' = Life!SnapshotsOf(g)
    <2>1. Life!PublishedOnce
        BY DEF ExecutionInv
    <2>2. CASE Life!Draft(f) \/ Life!Deprecate(f)
        BY <1>3, <2>1, <2>2 DEF Life!Draft, Life!Deprecate, Life!PublishedOnce, Life!SnapshotsOf, Life!Released, Life!TypeOK
    <2>3. CASE Life!Publish(f)
        <3>1. Life!SnapshotsOf(f) = {} /\ status[f] = "DRAFT"
            BY <2>1, <2>3 DEF Life!Publish, Life!PublishedOnce, Life!Released
        <3>2. PICK s \in Snapshots : snapshots[s] = NoFlow /\ snapshots' = [snapshots EXCEPT ![s] = f]
            BY <2>3 DEF Life!Publish, Life!SnapshotsOf
        <3>3. status' = [status EXCEPT ![f] = "PUBLISHED"]
            BY <2>3 DEF Life!Publish
        <3>4. Life!SnapshotsOf(f)' = {s}
            BY <1>3, <3>1, <3>2 DEF Life!SnapshotsOf, Life!TypeOK
        <3>5. \A g \in Flows \ {f} : Life!SnapshotsOf(g)' = Life!SnapshotsOf(g) /\ status'[g] = status[g]
            BY <1>3, <3>2, <3>3, NullAssumption DEF Life!SnapshotsOf, Life!TypeOK
        <3>6. status'[f] = "PUBLISHED"
            BY <1>3, <3>3 DEF Life!TypeOK
        <3>7. ASSUME NEW g \in Flows
              PROVE  /\ status'[g] \in Life!Released <=> Life!SnapshotsOf(g)' # {}
                     /\ \A s1, s2 \in Life!SnapshotsOf(g)' : s1 = s2
            <4>1. CASE g = f
                BY <3>4, <3>6, <4>1 DEF Life!Released
            <4>2. CASE g # f
                BY <2>1, <3>5, <4>2 DEF Life!PublishedOnce
            <4> QED BY <4>1, <4>2
        <3> QED BY <3>1, <3>5, <3>7 DEF Life!PublishedOnce, Released, Life!Released
    <2> QED BY <1>2, <2>2, <2>3
<1>8. ASSUME NEW r \in Requests, FollowsSource(r) PROVE FollowsSource(r)'
    BY <1>1, <1>6, <1>8, NullAssumption DEF FollowsSource, Requests, ExecutionInv, ExecutionIsKnown, Resolved
<1>9. ASSUME NEW r \in Requests, Resolved(r) PROVE Resolved(r)'
    BY <1>5, <1>6, <1>9 DEF Resolved, Requests
<1>10. ASSUME NEW d \in Clients PROVE CallIsKnown(call[d])'
    <2>1. CallIsKnown(call[d]) /\ call[d].request \in Requests
        BY DEF ExecutionInv, TypeOK
    <2>2. FollowsSource(call[d].request) => FollowsSource(call[d].request)'
        BY <1>1, <1>8, <2>1 DEF FollowsSource
    <2>3. Resolved(call[d].request) => Resolved(call[d].request)'
        BY <1>1, <1>9, <2>1 DEF Resolved
    <2>4. call[d].stage = "resolving" => call[d].request.flow \in Flows
        BY <2>1 DEF CallIsKnown, BeforeSave
    <2> QED BY <1>1, <1>5, <2>1, <2>2, <2>3, <2>4 DEF CallIsKnown
<1>11. ASSUME NEW x \in Executions PROVE ExecutionIsKnown(x)'
    <2>1. ExecutionIsKnown(x) /\ request[x] \in Requests
        BY DEF ExecutionInv, TypeOK
    <2>2. FollowsSource(request[x]) => FollowsSource(request[x])'
        BY <1>1, <1>8, <2>1 DEF FollowsSource
    <2>3. Resolved(request[x]) => Resolved(request[x])'
        BY <1>1, <1>9, <2>1 DEF Resolved
    <2>4. ASSUME runs[x].graph # NoSnapshot
          PROVE  runs[x].graph \in Found(request[x].flow, request[x].snapshot)'
        <3>1. runs[x].graph \in Found(request[x].flow, request[x].snapshot)
            BY <2>1, <2>4 DEF ExecutionIsKnown
        <3>2. CASE request[x] = NoRequest
            BY <2>1, <2>4, <3>2 DEF ExecutionIsKnown, NoRun
        <3>3. CASE request[x] # NoRequest
            <4>1. Resolved(request[x])
                BY <2>1, <3>3 DEF ExecutionIsKnown
            <4>2. CASE request[x].snapshot # NoSnapshot
                BY <1>1, <1>6, <2>1, <3>1, <4>2 DEF Found, Life!SnapshotsOf, Requests
            <4>3. CASE request[x].snapshot = NoSnapshot
                <5>1. Found(request[x].flow, request[x].snapshot) = Life!SnapshotsOf(request[x].flow)
                    BY <4>3 DEF Found
                <5>2. Found(request[x].flow, request[x].snapshot)' = Life!SnapshotsOf(request[x].flow)'
                    BY <1>1, <4>3 DEF Found
                <5>3. Life!SnapshotsOf(request[x].flow)' = Life!SnapshotsOf(request[x].flow)
                    BY <1>1, <1>7, <4>1 DEF Resolved, Life!SnapshotsOf
                <5> QED BY <3>1, <5>1, <5>2, <5>3
            <4> QED BY <4>2, <4>3
        <3> QED BY <3>2, <3>3
    <2> QED BY <1>1, <2>1, <2>2, <2>3, <2>4 DEF ExecutionIsKnown
<1>12. \A k \in Keys \ contended' : KeyIsSerial(k)'
    BY <1>1 DEF ExecutionInv, KeyIsSerial, WaitsFor, BeforeSave
<1>13. TypeOK'
    BY <1>1, <1>4 DEF ExecutionInv, TypeOK
<1> QED BY <1>7, <1>10, <1>11, <1>12, <1>13 DEF ExecutionInv

-----------------------------------------------------------------------------
LEMMA ClientStep ==
    ASSUME ExecutionInv, NEW c \in Clients, Client(c) PROVE ExecutionInv'
<1>1. CASE \E f \in Flows, s \in Snapshots \cup {NoSnapshot}, k \in Keys \cup {NoKey} : ExecuteFlow(c, f, s, k)
    BY <1>1, ExecuteFlowStep
<1>2. CASE \E x \in Executions : RetryExecution(c, x) \/ CancelExecution(c, x)
    BY <1>2, RetryExecutionStep, CancelStep
<1>3. CASE CheckFlow(c) \/ ResolveSnapshot(c) \/ SaveExecution(c)
    BY <1>3, CheckFlowStep, ResolveSnapshotStep, SaveExecutionStep
<1>4. CASE StartWorkflow(c) \/ StartFails(c) \/ MarkFailed(c) \/ CallDies(c)
    BY <1>4, StartWorkflowStep, MarkFailedStep, CallDiesStep
<1> QED BY <1>1, <1>2, <1>3, <1>4 DEF Client

LEMMA StutterStep == ASSUME ExecutionInv, UNCHANGED vars PROVE ExecutionInv'
<1>1. UNCHANGED <<status, snapshots, rows, request, call, runs, contended>>
    BY DEF vars
<1>2. TypeOK'
    BY <1>1 DEF ExecutionInv, TypeOK, Life!TypeOK
<1>3. Kept
    BY <1>1 DEF Kept, flowVars
<1> QED BY <1>1, <1>2, <1>3, IdleIsKnown, KeptStep

(* The invariant holds throughout: however calls, runs and publications      *)
(* interleave, every id issued stands for a request whose flow has a         *)
(* snapshot, and a row repeats the request it was stored for.                *)
THEOREM ExecutionInvariance == Spec => []ExecutionInv
<1>1. ExecutionInv /\ [Next]_vars => ExecutionInv'
    BY FlowsStep, ClientStep, RunStep, StutterStep DEF Next
<1> QED BY <1>1, InitInv, PTL DEF Spec

\* Clients, the workflow and the editor keep executions, runs and flows in their
\* ranges, the abstract flows included.
THEOREM ExecutionTypes == Spec => []TypeOK
<1>1. ExecutionInv => TypeOK BY DEF ExecutionInv
<1> QED BY <1>1, ExecutionInvariance, PTL

(* An accepted execution finds a graph to load.                              *)
THEOREM GraphsAreFound == Spec => []LoadFindsGraph
<1>1. ExecutionInv => LoadFindsGraph
    <2> SUFFICES ASSUME ExecutionInv, NEW x \in Executions, runs[x].stage = "started"
                 PROVE  Found(request[x].flow, request[x].snapshot) # {}
        BY DEF LoadFindsGraph
    <2>1. request[x] # NoRequest /\ request[x] \in Requests
        BY DEF ExecutionInv, ExecutionIsKnown, NoRun, TypeOK
    <2>2. Resolved(request[x])
        BY <2>1 DEF ExecutionInv, ExecutionIsKnown
    <2>3. CASE request[x].snapshot # NoSnapshot
        BY <2>1, <2>2, <2>3 DEF Resolved, Found, Life!SnapshotsOf, Requests
    <2>4. CASE request[x].snapshot = NoSnapshot
        BY <2>2, <2>4 DEF ExecutionInv, Resolved, Found, Life!PublishedOnce, Released, Life!Released
    <2> QED BY <2>3, <2>4
<1> QED BY <1>1, ExecutionInvariance, PTL

(* A retry runs the graph that the execution it retries has run.             *)
THEOREM RetriesAgree == Spec => []RetryRunsSameGraph
<1>1. ExecutionInv => RetryRunsSameGraph
    <2> SUFFICES ASSUME ExecutionInv, NEW x \in Executions, NEW y \in Executions,
                        request[x].source = y, runs[x].graph # NoSnapshot, runs[y].graph # NoSnapshot
                 PROVE  runs[x].graph = runs[y].graph
        BY DEF RetryRunsSameGraph
    <2>1. request[x] \in Requests /\ request[y] \in Requests /\ runs[x].graph \in Snapshots /\ runs[y].graph \in Snapshots
        BY DEF ExecutionInv, TypeOK
    <2>2. ExecutionIsKnown(x) /\ ExecutionIsKnown(y)
        BY DEF ExecutionInv
    <2>3. request[x] # NoRequest
        BY NullAssumption DEF NoRequest
    <2>4. Resolved(request[x]) /\ FollowsSource(request[x])
        BY <2>2, <2>3 DEF ExecutionIsKnown
    <2>5. /\ request[y].flow = request[x].flow
          /\ IF request[y].snapshot # NoSnapshot THEN request[x].snapshot = request[y].snapshot
             ELSE request[x].snapshot # NoSnapshot => snapshots[request[x].snapshot] = request[x].flow
        BY <2>2, <2>4, NullAssumption DEF FollowsSource, ExecutionIsKnown
    <2>6. /\ runs[x].graph \in Found(request[x].flow, request[x].snapshot)
          /\ runs[y].graph \in Found(request[y].flow, request[y].snapshot)
        BY <2>2 DEF ExecutionIsKnown
    <2>7. request[x].flow \in Flows
        BY <2>4 DEF Resolved
    <2>8. CASE request[y].snapshot # NoSnapshot
        BY <2>5, <2>6, <2>8 DEF Found
    <2>9. CASE request[y].snapshot = NoSnapshot
        <3>1. runs[y].graph \in Life!SnapshotsOf(request[x].flow)
            BY <2>5, <2>6, <2>9 DEF Found
        <3>2. runs[x].graph \in Life!SnapshotsOf(request[x].flow)
            BY <2>1, <2>5, <2>6, <2>9 DEF Found, Life!SnapshotsOf
        <3> QED BY <2>7, <3>1, <3>2 DEF ExecutionInv, Life!PublishedOnce
    <2> QED BY <2>8, <2>9
<1> QED BY <1>1, ExecutionInvariance, PTL

(* A key that no two calls used at the same time names one execution.        *)
THEOREM SerialKeysRunOnce == Spec => []SerialKeyRunsOnce
<1>1. ExecutionInv => SerialKeyRunsOnce
    BY DEF ExecutionInv, KeyIsSerial, SerialKeyRunsOnce
<1> QED BY <1>1, ExecutionInvariance, PTL

=============================================================================
