------------------------ MODULE DecisionGraph_proofs ------------------------
(***************************************************************************)
(* Theorems about DecisionGraph, for every flow, any number of nodes,      *)
(* approval requests and reviewers, and any bounds: IInv is inductive, and *)
(* the safety invariants follow from it.                                   *)
(***************************************************************************)
EXTENDS DecisionGraph, FiniteSetTheorems, TLAPS

-----------------------------------------------------------------------------
(* What the control operators of the workflow do to the state.              *)

\* A lost attempt is attempted again, or ends the run's normal course.
LEMMA AttemptLostEffect ==
    ASSUME attempt \in 1..MaxAttempts, AttemptLost
    PROVE  /\ attempt' \in 1..MaxAttempts
           /\ pc' \in {pc, "persistExecutionFailed", "FAILED"}
BY BoundsAssumption DEF AttemptLost, Throw, Await

\* What the traversal has established when the workflow next suspends: it
\* stands at a node it enters now, if it goes on to run that node.
Entered(n) ==
    /\ attempt' \in 1..MaxAttempts
    /\ node' = n
    /\ pc' \in {"persistExecutionCompleted", "FAILED", "paused",
                "executeGraphNode", "createApprovalRequest"}
    /\ visited' \in SUBSET Nodes /\ visited \subseteq visited'
    /\ hops' \in Nat /\ hops' = Cardinality(visited')
    /\ approvalPending' \in BOOLEAN
    /\ approvalResolved' \in Answers \cup {NoAnswer}
    /\ deadline' \in Nat
    /\ pc' \in {"executeGraphNode", "createApprovalRequest"} => n \in visited' \ visited
    /\ pc' = "createApprovalRequest" => Kind(n) = "GATE"
    /\ pc' = "paused" => n \in Nodes

\* The loop body behind the pause gate enters a node it has not entered before.
LEMMA VisitEffect ==
    ASSUME TypeOK, NoNodeRunsTwice,
           NEW n \in Nodes, Visit(n), deadline' \in Nat
    PROVE  Entered(n)
<1>1. IsFiniteSet(visited)
  BY NodesAssumption, FS_Subset DEF TypeOK
<1>2. n \notin visited => Cardinality(visited \cup {n}) = Cardinality(visited) + 1
  BY <1>1, FS_AddElement
<1>3. CASE n \in visited
  BY <1>3, BoundsAssumption DEF Visit, Await, Entered, TypeOK, NoNodeRunsTwice, gateVars
<1>4. CASE n \notin visited
  <2>1. /\ node' = n /\ visited' = visited \cup {n} /\ hops' = hops + 1
        /\ Dispatch(n)
    BY <1>4 DEF Visit
  <2>2. /\ attempt' \in 1..MaxAttempts
        /\ pc' \in {"persistExecutionCompleted", "FAILED", "executeGraphNode", "createApprovalRequest"}
        /\ approvalPending' \in BOOLEAN
        /\ approvalResolved' \in Answers \cup {NoAnswer}
        /\ pc' = "createApprovalRequest" => Kind(n) = "GATE"
    <3>1. /\ attempt \in 1..MaxAttempts
          /\ approvalPending \in BOOLEAN
          /\ approvalResolved \in Answers \cup {NoAnswer}
      BY DEF TypeOK
    <3>2. /\ attempt' \in 1..MaxAttempts
          /\ pc' \in {"persistExecutionCompleted", "FAILED", "executeGraphNode", "createApprovalRequest"}
          /\ pc' = "createApprovalRequest" => Kind(n) = "GATE"
      BY <2>1, <3>1, BoundsAssumption DEF Dispatch, Await
    <3>3. approvalPending' \in BOOLEAN
      BY <2>1, <3>1 DEF Dispatch, gateVars
    <3>4. approvalResolved' \in Answers \cup {NoAnswer}
      BY <2>1, <3>1 DEF Dispatch, gateVars
    <3> QED
      BY <3>2, <3>3, <3>4
  <2> QED
    BY <1>2, <1>4, <2>1, <2>2 DEF Entered, TypeOK, NoNodeRunsTwice
<1> QED
  BY <1>3, <1>4

\* So does the loop as a whole, unless it ends or waits in the pause gate.
LEMMA IterateEffect ==
    ASSUME TypeOK, NoNodeRunsTwice,
           NEW n \in Nodes \cup {NoNode}, Iterate(n)
    PROVE  Entered(n)
<1>1. CASE ~LoopContinues(n)
  BY <1>1, BoundsAssumption DEF Iterate, Await, Entered, TypeOK, NoNodeRunsTwice, gateVars
<1>2. CASE LoopContinues(n) /\ paused
  BY <1>2, BoundsAssumption DEF Iterate, Await, LoopContinues, Entered, TypeOK, NoNodeRunsTwice, gateVars
<1>3. CASE LoopContinues(n) /\ ~paused
  BY <1>3, VisitEffect DEF Iterate, LoopContinues, TypeOK
<1> QED
  BY <1>1, <1>2, <1>3

\* The four places where the loop goes on, each with a node it may go on to.
LEMMA StartedEffect ==
    ASSUME IInv, Iterate(flow.entry)
    PROVE  Entered(flow.entry)
<1>1. flow.entry \in Nodes
  BY FlowsAssumption DEF IInv, TypeOK, FlowSnapshot
<1> QED
  BY <1>1, IterateEffect DEF IInv

LEMMA NodeExecutedEffect ==
    ASSUME IInv, pc = "executeGraphNode", NEW n \in {flow.next[node]} \cup flow.other[node],
           Iterate(n)
    PROVE  Entered(n)
<1>1. node \in Nodes
  BY DEF IInv, TypeOK, Position
<1>2. n \in Nodes \cup {NoNode}
  BY <1>1, FlowsAssumption DEF IInv, TypeOK, FlowSnapshot
<1> QED
  BY <1>2, IterateEffect DEF IInv

LEMMA ApprovedEffect ==
    ASSUME IInv, GateApproved
    PROVE  node \in Nodes /\ Entered(flow.next[node])
<1>1. node \in Nodes
  BY DEF GateApproved, TakeAnswer, IInv, TypeOK, Position, AtGate
<1>2. flow.next[node] \in Nodes \cup {NoNode}
  BY <1>1, FlowsAssumption DEF IInv, TypeOK, FlowSnapshot
<1> QED
  BY <1>1, <1>2, IterateEffect DEF IInv, GateApproved

LEMMA PauseEndsEffect ==
    ASSUME IInv, PauseEnds
    PROVE  node \in Nodes /\ Entered(node)
<1>1. node \in Nodes
  BY DEF PauseEnds, IInv, Position
<1> QED
  BY <1>1, VisitEffect DEF PauseEnds, IInv, TypeOK

-----------------------------------------------------------------------------
(* The invariant, part by part.                                             *)

\* A step of the system leaves every variable in its type, and counts a hop
\* exactly when it enters a node.
LEMMA TypePreserved ==
    ASSUME IInv, [Next]_vars
    PROVE  TypeOK' /\ NoNodeRunsTwice'
<1> USE BoundsAssumption
<1>1. CASE LoadFlowSnapshot
  BY <1>1, AttemptLostEffect
  DEF LoadFlowSnapshot, Await, IInv, TypeOK, NoNodeRunsTwice, Activities, Waits, Closed, loopVars, gateVars, signalVars, dbVars, callVars
<1>2. CASE PersistExecutionStarted
  <2>1. flow.entry \in Nodes
    BY FlowsAssumption DEF IInv, TypeOK, FlowSnapshot
  <2>2. CASE Iterate(flow.entry)
    <3>1. Entered(flow.entry)
      BY <2>2, StartedEffect
    <3> QED
      BY <1>2, <2>1, <3>1
    DEF PersistExecutionStarted, MarkStarted, Entered, IInv, TypeOK, NoNodeRunsTwice, Activities, Waits, Closed, loopVars, gateVars, signalVars, dbVars, callVars
  <2>3. CASE AttemptLost /\ UNCHANGED <<node, visited, hops, gateVars, deadline>>
    BY <1>2, <2>3, AttemptLostEffect
    DEF PersistExecutionStarted, MarkStarted, IInv, TypeOK, NoNodeRunsTwice, Activities, Waits, Closed, loopVars, gateVars, signalVars, dbVars, callVars
  <2> QED
    BY <1>2, <2>2, <2>3 DEF PersistExecutionStarted
<1>3. CASE ExecuteGraphNode
  <2>1. ASSUME NEW n \in {flow.next[node]} \cup flow.other[node], Iterate(n),
               decision' \in NodeDecisions(node)
        PROVE  TypeOK' /\ NoNodeRunsTwice'
    <3>1. Entered(n)
      BY <1>3, <2>1, NodeExecutedEffect DEF ExecuteGraphNode
    <3>2. n \in Nodes \cup {NoNode}
      BY <1>3, FlowsAssumption DEF ExecuteGraphNode, IInv, TypeOK, Position, FlowSnapshot
    <3>3. decision' \in Decisions
      BY <2>1 DEF NodeDecisions, Decisions, IInv, TypeOK
    <3> QED
      BY <1>3, <3>1, <3>2, <3>3
      DEF ExecuteGraphNode, Entered, IInv, TypeOK, NoNodeRunsTwice, Activities, Waits, Closed, loopVars, gateVars, signalVars, dbVars, callVars
  <2>2. CASE AttemptLost /\ UNCHANGED <<node, visited, hops, decision, gateVars, deadline>>
    BY <1>3, <2>2, AttemptLostEffect
    DEF ExecuteGraphNode, IInv, TypeOK, NoNodeRunsTwice, Activities, Waits, Closed, loopVars, gateVars, signalVars, dbVars, callVars
  <2> QED
    BY <1>3, <2>1, <2>2 DEF ExecuteGraphNode
<1>4. CASE CreateApprovalRequest
  BY <1>4, AttemptLostEffect
  DEF CreateApprovalRequest, InsertApproval, Await, IInv, TypeOK, NoNodeRunsTwice, Activities, Waits, Closed, loopVars, gateVars, signalVars, dbVars, callVars
<1>5. CASE PersistApprovalCreated
  BY <1>5, AttemptLostEffect
  DEF PersistApprovalCreated, MarkAwaitingApproval, Await, IInv, TypeOK, NoNodeRunsTwice, Activities, Waits, Closed, loopVars, gateVars, signalVars, dbVars, callVars
<1>6. CASE SendApprovalNotification
  BY <1>6, AttemptLostEffect
  DEF SendApprovalNotification, Await, IInv, TypeOK, NoNodeRunsTwice, Activities, Waits, Closed, loopVars, gateVars, signalVars, dbVars, callVars
<1>7. CASE PersistExecutionCompleted
  BY <1>7, AttemptLostEffect
  DEF PersistExecutionCompleted, MarkCompleted, Await, IInv, TypeOK, NoNodeRunsTwice, Activities, Waits, Closed, loopVars, gateVars, signalVars, dbVars, callVars
<1>8. CASE EmitAuditEvent
  BY <1>8, AttemptLostEffect
  DEF EmitAuditEvent, Await, IInv, TypeOK, NoNodeRunsTwice, Activities, Waits, Closed, loopVars, gateVars, signalVars, dbVars, callVars
<1>9. CASE PublishDecisionEvent
  BY <1>9, AttemptLostEffect
  DEF PublishDecisionEvent, IInv, TypeOK, NoNodeRunsTwice, Activities, Waits, Closed, loopVars, gateVars, signalVars, dbVars, callVars
<1>10. CASE PersistExecutionFailed
  BY <1>10
  DEF PersistExecutionFailed, MarkFailed, IInv, TypeOK, NoNodeRunsTwice, Activities, Waits, Closed, loopVars, gateVars, signalVars, dbVars, callVars
<1>11. CASE GateCancelled
  BY <1>11
  DEF GateCancelled, Await, IInv, TypeOK, NoNodeRunsTwice, Activities, Waits, Closed, loopVars, gateVars, signalVars, dbVars, callVars
<1>12. CASE GateApproved
  <2>1. node \in Nodes /\ Entered(flow.next[node])
    BY <1>12, ApprovedEffect
  <2>2. flow.next[node] \in Nodes \cup {NoNode}
    BY <2>1, FlowsAssumption DEF IInv, TypeOK, FlowSnapshot
  <2> QED
    BY <1>12, <2>1, <2>2
    DEF GateApproved, TakeAnswer, Entered, IInv, TypeOK, NoNodeRunsTwice, Activities, Waits, Closed, loopVars, gateVars, signalVars, dbVars, callVars
<1>13. CASE GateRejected
  <2>1. answer' \in [Nodes -> Answers \cup {NoAnswer}]
    BY <1>13 DEF GateRejected, TakeAnswer, IInv, TypeOK
  <2> QED
    BY <1>13, <2>1
    DEF GateRejected, TakeAnswer, Await, Decisions, IInv, TypeOK, NoNodeRunsTwice, Activities, Waits, Closed, loopVars, gateVars, signalVars, dbVars, callVars
<1>14. CASE GateTimesOut
  BY <1>14
  DEF GateTimesOut, Await, Decisions, IInv, TypeOK, NoNodeRunsTwice, Activities, Waits, Closed, loopVars, gateVars, signalVars, dbVars, callVars
<1>15. CASE PauseEnds
  BY <1>15, PauseEndsEffect
  DEF PauseEnds, Entered, IInv, TypeOK, NoNodeRunsTwice, Activities, Waits, Closed, loopVars, gateVars, signalVars, dbVars, callVars
<1>16. CASE CancelSignal
  BY <1>16
  DEF CancelSignal, IInv, TypeOK, NoNodeRunsTwice, Activities, Waits, Closed, loopVars, gateVars, signalVars, dbVars, callVars
<1>17. CASE PauseOrResumeSignal
  BY <1>17
  DEF PauseOrResumeSignal, IInv, TypeOK, NoNodeRunsTwice, Activities, Waits, Closed, loopVars, gateVars, signalVars, dbVars, callVars
<1>18. ASSUME NEW r \in Reviewers, NEW op \in Operations, NEW a \in Approvals, ReadApproval(r, op, a)
      PROVE  TypeOK' /\ NoNodeRunsTwice'
  BY <1>18
  DEF ReadApproval, Idle, IInv, TypeOK, NoNodeRunsTwice, Activities, Waits, Closed, loopVars, gateVars, signalVars, dbVars, callVars
<1>19. ASSUME NEW r \in Reviewers, UpdateApproval(r)
      PROVE  TypeOK' /\ NoNodeRunsTwice'
  BY <1>19
  DEF UpdateApproval, StatusAfter, Operations, Idle, IInv, TypeOK, NoNodeRunsTwice, Activities, Waits, Closed, loopVars, gateVars, signalVars, dbVars, callVars
<1>20. ASSUME NEW r \in Reviewers, SignalWorkflow(r)
      PROVE  TypeOK' /\ NoNodeRunsTwice'
  <2>1. call[r] \in [stage : {"signal"}, op : {"APPROVE", "REJECT"}, approval : Approvals]
    BY <1>20 DEF SignalWorkflow, IInv, TypeOK, Idle
  <2>2. approvalResolved' \in Answers /\ approvalPending' = FALSE
    BY <1>20, <2>1 DEF SignalWorkflow, Answers
  <2>3. call' = [call EXCEPT ![r] = Idle]
    BY <1>20 DEF SignalWorkflow
  <2>4. UNCHANGED <<flow, pc, attempt, loopVars, signalVars, deadline, now, dbVars, events,
                    cancelCall, unsignalled>>
    BY <1>20 DEF SignalWorkflow
  <2>5. call' \in [Reviewers -> {Idle}
                   \cup [stage : {"update"}, op : Operations, approval : Approvals]
                   \cup [stage : {"signal"}, op : {"APPROVE", "REJECT"}, approval : Approvals]
                   \cup [stage : {"insert"}, op : {"DELEGATE"}, approval : Approvals]]
    BY <2>3 DEF IInv, TypeOK
  <2>6. approvalPending' \in BOOLEAN
    BY <2>2
  <2> QED
    BY <2>2, <2>4, <2>5, <2>6 DEF IInv, IInv, TypeOK, NoNodeRunsTwice, Activities, Waits, Closed, loopVars, gateVars, signalVars, dbVars, callVars
<1>21. ASSUME NEW r \in Reviewers, InsertDelegateRequest(r)
      PROVE  TypeOK' /\ NoNodeRunsTwice'
  BY <1>21
  DEF InsertDelegateRequest, InsertApproval, Idle, IInv, TypeOK, NoNodeRunsTwice, Activities, Waits, Closed, loopVars, gateVars, signalVars, dbVars, callVars
<1>22. ASSUME NEW r \in Reviewers, CallFails(r)
      PROVE  TypeOK' /\ NoNodeRunsTwice'
  BY <1>22
  DEF CallFails, Idle, IInv, TypeOK, NoNodeRunsTwice, Activities, Waits, Closed, loopVars, gateVars, signalVars, dbVars, callVars
<1>23. CASE RequestCancel
  BY <1>23
  DEF RequestCancel, IInv, TypeOK, NoNodeRunsTwice, Activities, Waits, Closed, loopVars, gateVars, signalVars, dbVars, callVars
<1>24. CASE MarkCancelled
  BY <1>24
  DEF MarkCancelled, MarkFailed, IInv, TypeOK, NoNodeRunsTwice, Activities, Waits, Closed, loopVars, gateVars, signalVars, dbVars, callVars
<1>25. CASE Tick
  BY <1>25
  DEF Tick, IInv, TypeOK, NoNodeRunsTwice, Activities, Waits, Closed, loopVars, gateVars, signalVars, dbVars, callVars
<1>26. CASE UNCHANGED vars
  BY <1>26
  DEF vars, IInv, TypeOK, NoNodeRunsTwice, Activities, Waits, Closed, loopVars, gateVars, signalVars, dbVars, callVars
<1> QED
  BY <1>1, <1>2, <1>3, <1>4, <1>5, <1>6, <1>7, <1>8, <1>9, <1>10, <1>11, <1>12, <1>13, <1>14, <1>15, <1>16, <1>17, <1>18, <1>19, <1>20, <1>21, <1>22, <1>23, <1>24, <1>25, <1>26
  DEF Next, Worker, Activity, Gate, Reviewer, Operator

\* The traversal never leaves the nodes it has entered, nor answers a gate twice.
LEMMA PositionPreserved ==
    ASSUME IInv, [Next]_vars
    PROVE  Position'
<1>1. CASE LoadFlowSnapshot
  BY <1>1, AttemptLostEffect DEF LoadFlowSnapshot, Await, IInv, TypeOK, Position, AtGate, Kind, loopVars, gateVars, signalVars, dbVars, callVars
<1>2. CASE PersistExecutionStarted
  BY <1>2, AttemptLostEffect, StartedEffect
  DEF PersistExecutionStarted, Entered, IInv, TypeOK, Position, AtGate, Kind, loopVars, gateVars, signalVars, dbVars, callVars
<1>3. CASE ExecuteGraphNode
  BY <1>3, AttemptLostEffect, NodeExecutedEffect
  DEF ExecuteGraphNode, Entered, IInv, TypeOK, Position, AtGate, Kind, loopVars, gateVars, signalVars, dbVars, callVars
<1>4. CASE CreateApprovalRequest
  BY <1>4, AttemptLostEffect DEF CreateApprovalRequest, Await, IInv, TypeOK, Position, AtGate, Kind, loopVars, gateVars, signalVars, dbVars, callVars
<1>5. CASE PersistApprovalCreated
  BY <1>5, AttemptLostEffect DEF PersistApprovalCreated, Await, IInv, TypeOK, Position, AtGate, Kind, loopVars, gateVars, signalVars, dbVars, callVars
<1>6. CASE SendApprovalNotification
  BY <1>6, AttemptLostEffect DEF SendApprovalNotification, Await, IInv, TypeOK, Position, AtGate, Kind, loopVars, gateVars, signalVars, dbVars, callVars
<1>7. CASE PersistExecutionCompleted
  BY <1>7, AttemptLostEffect DEF PersistExecutionCompleted, Await, IInv, TypeOK, Position, AtGate, Kind, loopVars, gateVars, signalVars, dbVars, callVars
<1>8. CASE EmitAuditEvent
  BY <1>8, AttemptLostEffect DEF EmitAuditEvent, Await, IInv, TypeOK, Position, AtGate, Kind, loopVars, gateVars, signalVars, dbVars, callVars
<1>9. CASE PublishDecisionEvent
  BY <1>9, AttemptLostEffect DEF PublishDecisionEvent, IInv, TypeOK, Position, AtGate, Kind, loopVars, gateVars, signalVars, dbVars, callVars
<1>10. CASE PersistExecutionFailed
  BY <1>10 DEF PersistExecutionFailed, IInv, TypeOK, Position, AtGate, Kind, loopVars, gateVars, signalVars, dbVars, callVars
<1>11. CASE GateCancelled
  BY <1>11 DEF GateCancelled, Await, IInv, TypeOK, Position, AtGate, Kind, loopVars, gateVars, signalVars, dbVars, callVars
<1>12. CASE GateApproved
  BY <1>12, ApprovedEffect DEF GateApproved, TakeAnswer, Entered, IInv, TypeOK, Position, AtGate, Kind, loopVars, gateVars, signalVars, dbVars, callVars
<1>13. CASE GateRejected
  BY <1>13 DEF GateRejected, TakeAnswer, Await, IInv, TypeOK, Position, AtGate, Kind, loopVars, gateVars, signalVars, dbVars, callVars
<1>14. CASE GateTimesOut
  BY <1>14 DEF GateTimesOut, Await, IInv, TypeOK, Position, AtGate, Kind, loopVars, gateVars, signalVars, dbVars, callVars
<1>15. CASE PauseEnds
  BY <1>15, PauseEndsEffect DEF PauseEnds, Entered, IInv, TypeOK, Position, AtGate, Kind, loopVars, gateVars, signalVars, dbVars, callVars
<1>16. CASE \E r \in Reviewers : Reviewer(r)
  BY <1>16 DEF Reviewer, ReadApproval, UpdateApproval, SignalWorkflow, InsertDelegateRequest,
     CallFails, IInv, TypeOK, Position, AtGate, Kind, loopVars, gateVars, signalVars, dbVars, callVars
<1>17. CASE Operator
  BY <1>17 DEF Operator, CancelSignal, PauseOrResumeSignal, RequestCancel, MarkCancelled, Waits,
     IInv, TypeOK, Position, AtGate, Kind, loopVars, gateVars, signalVars, dbVars, callVars
<1>18. CASE Tick
  BY <1>18 DEF Tick, IInv, TypeOK, Position, AtGate, Kind, loopVars, gateVars, signalVars, dbVars, callVars
<1>19. CASE UNCHANGED vars
  BY <1>19 DEF vars, IInv, TypeOK, Position, AtGate, Kind, loopVars, gateVars, signalVars, dbVars, callVars
<1> QED
  BY <1>1, <1>2, <1>3, <1>4, <1>5, <1>6, <1>7, <1>8, <1>9, <1>10, <1>11, <1>12, <1>13, <1>14, <1>15, <1>16, <1>17, <1>18, <1>19
  DEF Next, Worker, Activity, Gate

\* A rejection or an escalation ends the traversal.
LEMMA VerdictPreserved ==
    ASSUME IInv, [Next]_vars
    PROVE  Verdict'
<1>1. CASE LoadFlowSnapshot
  BY <1>1, AttemptLostEffect DEF LoadFlowSnapshot, Await, IInv, TypeOK, Position, Verdict, AtGate, Settled, Closed, Kind, Rejected, loopVars, gateVars, signalVars, dbVars, callVars
<1>2. CASE PersistExecutionStarted
  BY <1>2, AttemptLostEffect, StartedEffect
  DEF PersistExecutionStarted, Entered, IInv, TypeOK, Position, Verdict, AtGate, Settled, Closed, Kind, Rejected, loopVars, gateVars, signalVars, dbVars, callVars
<1>3. CASE ExecuteGraphNode
  BY <1>3, AttemptLostEffect, NodeExecutedEffect
  DEF ExecuteGraphNode, NodeDecisions, Entered, IInv, TypeOK, Position, Verdict, AtGate, Settled, Closed, Kind, Rejected, loopVars, gateVars, signalVars, dbVars, callVars
<1>4. CASE CreateApprovalRequest
  BY <1>4, AttemptLostEffect DEF CreateApprovalRequest, Await, IInv, TypeOK, Position, Verdict, AtGate, Settled, Closed, Kind, Rejected, loopVars, gateVars, signalVars, dbVars, callVars
<1>5. CASE PersistApprovalCreated
  BY <1>5, AttemptLostEffect DEF PersistApprovalCreated, Await, IInv, TypeOK, Position, Verdict, AtGate, Settled, Closed, Kind, Rejected, loopVars, gateVars, signalVars, dbVars, callVars
<1>6. CASE SendApprovalNotification
  BY <1>6, AttemptLostEffect DEF SendApprovalNotification, Await, IInv, TypeOK, Position, Verdict, AtGate, Settled, Closed, Kind, Rejected, loopVars, gateVars, signalVars, dbVars, callVars
<1>7. CASE PersistExecutionCompleted
  BY <1>7, AttemptLostEffect DEF PersistExecutionCompleted, Await, IInv, TypeOK, Position, Verdict, AtGate, Settled, Closed, Kind, Rejected, loopVars, gateVars, signalVars, dbVars, callVars
<1>8. CASE EmitAuditEvent
  BY <1>8, AttemptLostEffect DEF EmitAuditEvent, Await, IInv, TypeOK, Position, Verdict, AtGate, Settled, Closed, Kind, Rejected, loopVars, gateVars, signalVars, dbVars, callVars
<1>9. CASE PublishDecisionEvent
  BY <1>9, AttemptLostEffect DEF PublishDecisionEvent, IInv, TypeOK, Position, Verdict, AtGate, Settled, Closed, Kind, Rejected, loopVars, gateVars, signalVars, dbVars, callVars
<1>10. CASE PersistExecutionFailed
  BY <1>10 DEF PersistExecutionFailed, IInv, TypeOK, Position, Verdict, AtGate, Settled, Closed, Kind, Rejected, loopVars, gateVars, signalVars, dbVars, callVars
<1>11. CASE GateCancelled
  BY <1>11 DEF GateCancelled, Await, IInv, TypeOK, Position, Verdict, AtGate, Settled, Closed, Kind, Rejected, loopVars, gateVars, signalVars, dbVars, callVars
<1>12. CASE GateApproved
  BY <1>12, ApprovedEffect DEF GateApproved, TakeAnswer, Entered, IInv, TypeOK, Position, Verdict, AtGate, Settled, Closed, Kind, Rejected, loopVars, gateVars, signalVars, dbVars, callVars
<1>13. CASE GateRejected
  BY <1>13 DEF GateRejected, TakeAnswer, Await, IInv, TypeOK, Position, Verdict, AtGate, Settled, Closed, Kind, Rejected, loopVars, gateVars, signalVars, dbVars, callVars
<1>14. CASE GateTimesOut
  BY <1>14 DEF GateTimesOut, Await, IInv, TypeOK, Position, Verdict, AtGate, Settled, Closed, Kind, Rejected, loopVars, gateVars, signalVars, dbVars, callVars
<1>15. CASE PauseEnds
  BY <1>15, PauseEndsEffect DEF PauseEnds, Entered, IInv, TypeOK, Position, Verdict, AtGate, Settled, Closed, Kind, Rejected, loopVars, gateVars, signalVars, dbVars, callVars
<1>16. CASE \E r \in Reviewers : Reviewer(r)
  BY <1>16 DEF Reviewer, ReadApproval, UpdateApproval, SignalWorkflow, InsertDelegateRequest,
     CallFails, IInv, TypeOK, Position, Verdict, AtGate, Settled, Closed, Kind, Rejected, loopVars, gateVars, signalVars, dbVars, callVars
<1>17. CASE Operator
  BY <1>17 DEF Operator, CancelSignal, PauseOrResumeSignal, RequestCancel, MarkCancelled, Waits,
     IInv, TypeOK, Position, Verdict, AtGate, Settled, Closed, Kind, Rejected, loopVars, gateVars, signalVars, dbVars, callVars
<1>18. CASE Tick
  BY <1>18 DEF Tick, IInv, TypeOK, Position, Verdict, AtGate, Settled, Closed, Kind, Rejected, loopVars, gateVars, signalVars, dbVars, callVars
<1>19. CASE UNCHANGED vars
  BY <1>19 DEF vars, IInv, TypeOK, Position, Verdict, AtGate, Settled, Closed, Kind, Rejected, loopVars, gateVars, signalVars, dbVars, callVars
<1> QED
  BY <1>1, <1>2, <1>3, <1>4, <1>5, <1>6, <1>7, <1>8, <1>9, <1>10, <1>11, <1>12, <1>13, <1>14, <1>15, <1>16, <1>17, <1>18, <1>19
  DEF Next, Worker, Activity, Gate

\* What is stored is the decision of the run, and what is announced is stored.
LEMMA StoragePreserved ==
    ASSUME IInv, [Next]_vars
    PROVE  Storage'
<1>1. CASE LoadFlowSnapshot
  BY <1>1, AttemptLostEffect DEF LoadFlowSnapshot, Await, IInv, TypeOK, Storage, Verdict, Settled, Reported, Closed, loopVars, gateVars, signalVars, dbVars, callVars
<1>2. CASE PersistExecutionStarted
  BY <1>2, AttemptLostEffect, StartedEffect
  DEF PersistExecutionStarted, MarkStarted, Entered, IInv, TypeOK, Storage, Verdict, Settled, Reported, Closed, loopVars, gateVars, signalVars, dbVars, callVars
<1>3. CASE ExecuteGraphNode
  BY <1>3, AttemptLostEffect, NodeExecutedEffect
  DEF ExecuteGraphNode, NodeDecisions, Entered, IInv, TypeOK, Storage, Verdict, Settled, Reported, Closed, loopVars, gateVars, signalVars, dbVars, callVars
<1>4. CASE CreateApprovalRequest
  BY <1>4, AttemptLostEffect DEF CreateApprovalRequest, Await, IInv, TypeOK, Storage, Verdict, Settled, Reported, Closed, loopVars, gateVars, signalVars, dbVars, callVars
<1>5. CASE PersistApprovalCreated
  BY <1>5, AttemptLostEffect DEF PersistApprovalCreated, Await, MarkAwaitingApproval, IInv, TypeOK, Storage, Verdict, Settled, Reported, Closed, loopVars, gateVars, signalVars, dbVars, callVars
<1>6. CASE SendApprovalNotification
  BY <1>6, AttemptLostEffect DEF SendApprovalNotification, Await, IInv, TypeOK, Storage, Verdict, Settled, Reported, Closed, loopVars, gateVars, signalVars, dbVars, callVars
<1>7. CASE PersistExecutionCompleted
  BY <1>7, AttemptLostEffect DEF PersistExecutionCompleted, Await, MarkCompleted, Decisions, NoDecision, IInv, TypeOK, Storage, Verdict, Settled, Reported, Closed, loopVars, gateVars, signalVars, dbVars, callVars
<1>8. CASE EmitAuditEvent
  BY <1>8, AttemptLostEffect DEF EmitAuditEvent, Await, IInv, TypeOK, Storage, Verdict, Settled, Reported, Closed, loopVars, gateVars, signalVars, dbVars, callVars
<1>9. CASE PublishDecisionEvent
  BY <1>9, AttemptLostEffect DEF PublishDecisionEvent, IInv, TypeOK, Storage, Verdict, Settled, Reported, Closed, loopVars, gateVars, signalVars, dbVars, callVars
<1>10. CASE PersistExecutionFailed
  BY <1>10 DEF PersistExecutionFailed, MarkFailed, IInv, TypeOK, Storage, Verdict, Settled, Reported, Closed, loopVars, gateVars, signalVars, dbVars, callVars
<1>11. CASE GateCancelled
  BY <1>11 DEF GateCancelled, Await, IInv, TypeOK, Storage, Verdict, Settled, Reported, Closed, loopVars, gateVars, signalVars, dbVars, callVars
<1>12. CASE GateApproved
  BY <1>12, ApprovedEffect DEF GateApproved, TakeAnswer, Entered, IInv, TypeOK, Storage, Verdict, Settled, Reported, Closed, loopVars, gateVars, signalVars, dbVars, callVars
<1>13. CASE GateRejected
  BY <1>13 DEF GateRejected, TakeAnswer, Await, IInv, TypeOK, Storage, Verdict, Settled, Reported, Closed, loopVars, gateVars, signalVars, dbVars, callVars
<1>14. CASE GateTimesOut
  BY <1>14 DEF GateTimesOut, Await, IInv, TypeOK, Storage, Verdict, Settled, Reported, Closed, loopVars, gateVars, signalVars, dbVars, callVars
<1>15. CASE PauseEnds
  BY <1>15, PauseEndsEffect DEF PauseEnds, Entered, IInv, TypeOK, Storage, Verdict, Settled, Reported, Closed, loopVars, gateVars, signalVars, dbVars, callVars
<1>16. CASE \E r \in Reviewers : Reviewer(r)
  BY <1>16 DEF Reviewer, ReadApproval, UpdateApproval, SignalWorkflow, InsertDelegateRequest,
     CallFails, IInv, TypeOK, Storage, Verdict, Settled, Reported, Closed, loopVars, gateVars, signalVars, dbVars, callVars
<1>17. CASE Operator
  BY <1>17 DEF Operator, CancelSignal, PauseOrResumeSignal, RequestCancel, MarkCancelled, MarkFailed, Waits,
     IInv, TypeOK, Storage, Verdict, Settled, Reported, Closed, loopVars, gateVars, signalVars, dbVars, callVars
<1>18. CASE Tick
  BY <1>18 DEF Tick, IInv, TypeOK, Storage, Verdict, Settled, Reported, Closed, loopVars, gateVars, signalVars, dbVars, callVars
<1>19. CASE UNCHANGED vars
  BY <1>19 DEF vars, IInv, TypeOK, Storage, Verdict, Settled, Reported, Closed, loopVars, gateVars, signalVars, dbVars, callVars
<1> QED
  BY <1>1, <1>2, <1>3, <1>4, <1>5, <1>6, <1>7, <1>8, <1>9, <1>10, <1>11, <1>12, <1>13, <1>14, <1>15, <1>16, <1>17, <1>18, <1>19
  DEF Next, Worker, Activity, Gate

\* Calls in flight are about requests that exist, and a request never vanishes.
LEMMA GenuinePreserved ==
    ASSUME IInv, [Next]_vars
    PROVE  Genuine'
<1>1. CASE CreateApprovalRequest
  BY <1>1 DEF CreateApprovalRequest, InsertApproval, Absent, IInv, TypeOK, Genuine, callVars
<1>2. ASSUME NEW r \in Reviewers, NEW op \in Operations, NEW a \in Approvals, ReadApproval(r, op, a)
      PROVE  Genuine'
  BY <1>2 DEF ReadApproval, Decidable, IInv, TypeOK, Genuine, dbVars
<1>3. ASSUME NEW r \in Reviewers, UpdateApproval(r)
      PROVE  Genuine'
  <2>1. call[r].approval \in Approvals /\ call[r].op \in Operations
    BY <1>3 DEF UpdateApproval, IInv, TypeOK, Idle, Operations
  <2>2. \A a \in Approvals : approvals[a].status # "ABSENT" => approvals'[a].status # "ABSENT"
    BY <1>3, <2>1 DEF UpdateApproval, StatusAfter, Operations, IInv, TypeOK
  <2>3. \A q \in Reviewers : call'[q].approval = call[q].approval /\ (call'[q] # Idle => call[q] # Idle)
    BY <1>3 DEF UpdateApproval, IInv, TypeOK, Idle
  <2>4. \A q \in Reviewers : call[q] # Idle => call[q].approval \in Approvals
    BY DEF IInv, TypeOK
  <2> QED
    BY <1>3, <2>2, <2>3, <2>4 DEF UpdateApproval, IInv, TypeOK, Genuine
<1>4. ASSUME NEW r \in Reviewers, SignalWorkflow(r) \/ CallFails(r)
      PROVE  Genuine'
  BY <1>4 DEF SignalWorkflow, CallFails, IInv, TypeOK, Genuine, dbVars
<1>5. ASSUME NEW r \in Reviewers, InsertDelegateRequest(r)
      PROVE  Genuine'
  BY <1>5 DEF InsertDelegateRequest, InsertApproval, Absent, IInv, TypeOK, Genuine
<1>6. CASE UNCHANGED <<approvals, call, unsignalled>>
  BY <1>6 DEF IInv, Genuine
<1>7. CASE (Worker /\ ~CreateApprovalRequest) \/ Operator \/ Tick \/ UNCHANGED vars
  BY <1>6, <1>7
  DEF Worker, Activity, Gate, Operator, LoadFlowSnapshot, PersistExecutionStarted, ExecuteGraphNode,
      PersistApprovalCreated, SendApprovalNotification, PersistExecutionCompleted, EmitAuditEvent,
      PublishDecisionEvent, PersistExecutionFailed, GateCancelled, GateApproved, GateRejected,
      GateTimesOut, PauseEnds, CancelSignal, PauseOrResumeSignal, RequestCancel, MarkCancelled, Tick,
      vars, dbVars, callVars
<1> QED
  BY <1>1, <1>2, <1>3, <1>4, <1>5, <1>7 DEF Next, Reviewer

\* Requests are never withdrawn: from the insert of a gate's request to its answer
\* one can be decided, is being decided, or was decided by a call that died.
LEMMA AnswerablePreserved ==
    ASSUME IInv, [Next]_vars
    PROVE  Answerable'
<1> DEFINE Asking == {"persistApprovalCreated", "sendApprovalNotification", "gate"}
           Hopeful(a) == a \in GateRequests /\ (Decidable(a) \/ InFlight(a) \/ a \in unsignalled)
<1> SUFFICES ASSUME approvalPending', pc' \in Asking
             PROVE  \E a \in Approvals : Hopeful(a)'
  BY DEF Answerable, GateRequests
<1>1. CASE CreateApprovalRequest
  <2>1. InsertApproval(node) /\ node' = node
    BY <1>1, AttemptLostEffect DEF CreateApprovalRequest, AttemptLost, Throw, Await, IInv, TypeOK, loopVars
  <2>2. PICK a \in Approvals : approvals' = [approvals EXCEPT ![a] = [status |-> "PENDING", node |-> node]]
    BY <2>1 DEF InsertApproval
  <2>3. Decidable(a)' /\ a \in GateRequests'
    BY <2>1, <2>2 DEF Decidable, GateRequests, IInv, TypeOK
  <2> QED
    BY <2>3
<1>2. CASE PersistApprovalCreated \/ SendApprovalNotification
  <2>1. pc \in Asking /\ UNCHANGED <<node, approvalPending, approvals, call, unsignalled>>
    BY <1>2 DEF PersistApprovalCreated, SendApprovalNotification, loopVars, gateVars, dbVars, callVars
  <2> QED
    BY <2>1 DEF IInv, Answerable, GateRequests, Decidable, InFlight
<1>3. CASE \E r \in Reviewers : Reviewer(r)
  <2>1. PICK r \in Reviewers : Reviewer(r)
    BY <1>3
  <2>2. ~SignalWorkflow(r) /\ pc \in Asking /\ node' = node
    BY <2>1 DEF Reviewer, ReadApproval, UpdateApproval, SignalWorkflow, InsertDelegateRequest,
                CallFails, loopVars
  <2>3. approvalPending
    BY <2>1, <2>2 DEF Reviewer, ReadApproval, UpdateApproval, InsertDelegateRequest, CallFails, gateVars
  <2>4. PICK a \in Approvals : Hopeful(a)
    BY <2>2, <2>3 DEF IInv, Answerable, GateRequests
  <2>5. CASE \E op \in Operations, b \in Approvals : ReadApproval(r, op, b)
    BY <2>2, <2>4, <2>5 DEF ReadApproval, GateRequests, Decidable, InFlight, dbVars
  <2>6. CASE UpdateApproval(r)
    <3>1. call[r].approval \in Approvals /\ call[r] # Idle /\ call[r].op \in Operations
      BY <2>6 DEF UpdateApproval, IInv, TypeOK, Idle, Operations
    <3>2. \A b \in Approvals : approvals'[b].node = approvals[b].node
      BY <2>6 DEF UpdateApproval, IInv, TypeOK
    <3>3. \A q \in Reviewers \ {r} : call'[q] = call[q]
      BY <2>6 DEF UpdateApproval, IInv, TypeOK
    <3>4. CASE call[r].approval = a
      <4>1. CASE call[r].op = "DELEGATE"
        BY <2>2, <2>4, <2>6, <3>1, <3>2, <3>4, <4>1
        DEF UpdateApproval, StatusAfter, Decidable, GateRequests, IInv, TypeOK
      <4>2. CASE call[r].op # "DELEGATE"
        <5>1. call'[r].stage = "signal" /\ call'[r].approval = a /\ call'[r] # Idle
          BY <2>6, <3>4, <4>2, <3>1 DEF UpdateApproval, IInv, TypeOK, Idle
        <5> QED
          BY <2>2, <2>4, <3>2, <5>1 DEF InFlight, GateRequests
      <4> QED
        BY <4>1, <4>2
    <3>5. CASE call[r].approval # a
      <4>1. approvals'[a] = approvals[a]
        BY <2>6, <3>1, <3>5 DEF UpdateApproval, IInv, TypeOK
      <4>2. InFlight(a) => InFlight(a)'
        BY <2>6, <3>3 DEF InFlight, UpdateApproval
      <4> QED
        BY <2>2, <2>4, <2>6, <4>1, <4>2 DEF UpdateApproval, GateRequests, Decidable
    <3> QED
      BY <3>4, <3>5
  <2>7. CASE InsertDelegateRequest(r)
    <3>1. approvals[a].status # "ABSENT"
      BY <2>4 DEF Decidable, InFlight, IInv, Genuine
    <3>2. approvals'[a] = approvals[a]
      BY <2>7, <3>1 DEF InsertDelegateRequest, InsertApproval, Absent, IInv, TypeOK
    <3>3. InFlight(a) => InFlight(a)'
      BY <2>7 DEF InFlight, InsertDelegateRequest, IInv, TypeOK
    <3> QED
      BY <2>2, <2>4, <2>7, <3>2, <3>3
      DEF InsertDelegateRequest, GateRequests, Decidable
  <2>8. CASE CallFails(r)
    BY <2>2, <2>4, <2>8 DEF CallFails, GateRequests, Decidable, InFlight, IInv, TypeOK, dbVars
  <2> QED
    BY <2>1, <2>2, <2>5, <2>6, <2>7, <2>8 DEF Reviewer
<1>4. CASE Operator \/ Tick \/ UNCHANGED vars
  <2>1. pc \in Asking /\ UNCHANGED <<node, approvalPending, approvals, call, unsignalled>>
    BY <1>4 DEF Operator, CancelSignal, PauseOrResumeSignal, RequestCancel, MarkCancelled, Tick,
                Waits, vars, loopVars, gateVars, dbVars, callVars
  <2> QED
    BY <2>1 DEF IInv, Answerable, GateRequests, Decidable, InFlight
<1>5. CASE \/ LoadFlowSnapshot \/ PersistExecutionCompleted \/ EmitAuditEvent
           \/ PublishDecisionEvent \/ PersistExecutionFailed \/ GateCancelled \/ GateRejected
           \/ GateTimesOut
  BY <1>5, AttemptLostEffect
  DEF LoadFlowSnapshot, PersistExecutionCompleted, EmitAuditEvent, PublishDecisionEvent,
      PersistExecutionFailed, GateCancelled, GateRejected, GateTimesOut, Await, IInv, TypeOK
<1>6. CASE PersistExecutionStarted \/ ExecuteGraphNode
  BY <1>6, AttemptLostEffect, StartedEffect, NodeExecutedEffect
  DEF PersistExecutionStarted, ExecuteGraphNode, Entered, IInv, TypeOK
<1>7. CASE GateApproved \/ PauseEnds
  BY <1>7, ApprovedEffect, PauseEndsEffect DEF Entered
<1> QED
  BY <1>1, <1>2, <1>3, <1>4, <1>5, <1>6, <1>7 DEF Next, Worker, Activity, Gate

-----------------------------------------------------------------------------
(* The theorems.                                                            *)

\* A freshly started execution satisfies the invariant.
LEMMA InitIInv == Init => IInv
<1> SUFFICES ASSUME Init PROVE IInv
  OBVIOUS
<1> USE DEF Init
<1>1. TypeOK
  <2>1. attempt \in 1..MaxAttempts
    BY BoundsAssumption
  <2>2. approvalPending \in BOOLEAN /\ cancelled \in BOOLEAN /\ paused \in BOOLEAN
        /\ cancelRequested \in BOOLEAN
    OBVIOUS
  <2>3. call \in [Reviewers -> {Idle}
                   \cup [stage : {"update"}, op : Operations, approval : Approvals]
                   \cup [stage : {"signal"}, op : {"APPROVE", "REJECT"}, approval : Approvals]
                   \cup [stage : {"insert"}, op : {"DELEGATE"}, approval : Approvals]]
    OBVIOUS
  <2>4. /\ answer \in [Nodes -> Answers \cup {NoAnswer}]
        /\ approvals \in [Approvals ->
                        [status : {"ABSENT", "PENDING", "APPROVED", "REJECTED", "DELEGATED"},
                         node : Nodes \cup {NoNode}]]
        /\ row \in [status : {"PENDING", "RUNNING", "AWAITING_APPROVAL", "COMPLETED", "FAILED"},
                    decision : Decisions \cup {NoDecision}]
    BY DEF Absent
  <2> QED
    BY <2>1, <2>2, <2>3, <2>4 DEF TypeOK, Activities, Decisions
<1>2. NoNodeRunsTwice
  BY FS_EmptySet DEF NoNodeRunsTwice
<1>3. Position
  BY DEF Position, AtGate
<1>4. Verdict
  BY DEF Verdict, Rejected
<1>5. Storage
  BY DEF Storage, Reported
<1>6. Genuine /\ Answerable
  BY DEF Genuine, Answerable, Idle
<1> QED
  BY <1>1, <1>2, <1>3, <1>4, <1>5, <1>6 DEF IInv

\* Every step keeps it.
LEMMA NextIInv == IInv /\ [Next]_vars => IInv'
BY TypePreserved, PositionPreserved, VerdictPreserved, StoragePreserved, GenuinePreserved,
   AnswerablePreserved DEF IInv

\* The inductive invariant holds throughout every execution.
THEOREM Invariance == Spec => []IInv
BY InitIInv, NextIInv, PTL DEF Spec

\* Every variable keeps its type: the workflow is always in one of its awaits or
\* closed, with an attempt number its retry policy allows.
THEOREM TypeCorrectness == Spec => []TypeOK
<1>1. IInv => TypeOK
  BY DEF IInv
<1> QED
  BY Invariance, <1>1, PTL

\* A rejection by a human is final, on every flow and under every interleaving.
THEOREM RejectionIsFinal == Spec => []RejectIsFinal
<1>1. IInv => RejectIsFinal
  BY DEF IInv, TypeOK, Verdict, Storage, RejectIsFinal, Decisions, NoDecision
<1> QED
  BY Invariance, <1>1, PTL

\* Nothing is announced that is not stored.
THEOREM AnnouncementsAreStored == Spec => []AnnouncedIsStored
<1>1. IInv => AnnouncedIsStored
  BY DEF IInv, Storage, AnnouncedIsStored
<1> QED
  BY Invariance, <1>1, PTL

\* An escalation is stored only by a run that stopped at an unanswered gate.
THEOREM EscalationEndsTheRun == Spec => []EscalatedGateIsUnanswered
<1>1. IInv => EscalatedGateIsUnanswered
  BY DEF IInv, Verdict, Storage, EscalatedGateIsUnanswered, NoDecision
<1> QED
  BY Invariance, <1>1, PTL

\* The traversal enters no node twice, whatever edges the flow has.
THEOREM TraversalVisitsOnce == Spec => []NoNodeRunsTwice
<1>1. IInv => NoNodeRunsTwice
  BY DEF IInv
<1> QED
  BY Invariance, <1>1, PTL

\* A run that returned left a completed row, unless it was cancelled.
THEOREM ReturnedRunsAreCompleted == Spec => []ReturnedRunIsCompleted
<1>1. IInv => ReturnedRunIsCompleted
  BY DEF IInv, Storage, Reported, ReturnedRunIsCompleted
<1> QED
  BY Invariance, <1>1, PTL

\* A waiting gate has a request that can be, is being or was decided.
THEOREM WaitingGatesAreAnswerable == Spec => []WaitingGateCanBeAnswered
<1>1. IInv => WaitingGateCanBeAnswered
  BY DEF IInv, Answerable, WaitingGateCanBeAnswered
<1> QED
  BY Invariance, <1>1, PTL

\* Only the completion writes a decision, and a decision once written stays.
LEMMA StoredStep ==
    ASSUME IInv, [Next]_vars
    PROVE  row.decision # NoDecision => row'.decision = row.decision
<1>1. IInv'
  BY NextIInv
<1>2. CASE PersistExecutionCompleted
  BY <1>2 DEF PersistExecutionCompleted, MarkCompleted, IInv, Storage
<1>3. CASE ~PersistExecutionCompleted
  BY <1>3
  DEF Next, Worker, Activity, Gate, Reviewer, Operator, LoadFlowSnapshot, PersistExecutionStarted,
      ExecuteGraphNode, CreateApprovalRequest, PersistApprovalCreated, SendApprovalNotification,
      EmitAuditEvent, PublishDecisionEvent, PersistExecutionFailed, GateCancelled, GateApproved,
      GateRejected, GateTimesOut, PauseEnds, CancelSignal, PauseOrResumeSignal, ReadApproval,
      UpdateApproval, SignalWorkflow, InsertDelegateRequest, CallFails, RequestCancel, MarkCancelled,
      Tick, MarkStarted, MarkAwaitingApproval, MarkFailed, vars, dbVars, IInv, TypeOK
<1> QED
  BY <1>2, <1>3

\* The decision of an execution is written once.
THEOREM StoredOnce == Spec => StoredDecisionIsWrittenOnce
<1>1. IInv /\ [Next]_vars => [row.decision # NoDecision => row'.decision = row.decision]_row
  BY StoredStep
<1> QED
  BY Invariance, <1>1, PTL DEF Spec, StoredDecisionIsWrittenOnce

-----------------------------------------------------------------------------
(* The refinement.                                                          *)

LEMMA InitRefines == Init => Run!Init
BY DEF Init, Run!Init, Phase

\* Steps that leave verdict, row decision and events alone move between phases
\* only as DecisionRun allows.
LEMMA QuietStep ==
    ASSUME UNCHANGED <<decision, row.decision, events>>,
           \/ Phase' = Phase
           \/ Phase' = "stopped"
           \/ Phase = "deliberating" /\ Phase' \in {"asking", "settled"}
           \/ Phase = "asking" /\ Phase' \in {"deliberating", "settled"}
    PROVE  [Run!Next]_(Run!vars)
<1>1. Phase \in {"deliberating", "asking", "settled", "stopped"}
  BY DEF Phase
<1> QED
  BY <1>1 DEF Run!Next, Run!Stop, Run!Deliberate, Run!Approved, Run!vars

\* Every step of an execution is a step of DecisionRun, or invisible to it.
LEMMA NextRefines ==
    ASSUME IInv, [Next]_vars
    PROVE  [Run!Next]_(Run!vars)
<1> USE DEF Phase
<1>1. CASE LoadFlowSnapshot \/ EmitAuditEvent
  BY <1>1, QuietStep, AttemptLostEffect
  DEF LoadFlowSnapshot, EmitAuditEvent, Await, IInv, TypeOK, loopVars, dbVars
<1>2. CASE PersistExecutionStarted
  <2>1. UNCHANGED <<decision, row.decision, events>>
    BY <1>2 DEF PersistExecutionStarted, MarkStarted, IInv, TypeOK
  <2>2. pc = "persistExecutionStarted" /\ pc' \in {pc, "persistExecutionCompleted", "FAILED", "paused",
            "executeGraphNode", "createApprovalRequest", "persistExecutionFailed"}
    BY <1>2, StartedEffect, AttemptLostEffect DEF PersistExecutionStarted, Entered, IInv, TypeOK
  <2> QED
    BY <2>1, <2>2, QuietStep
<1>3. CASE ExecuteGraphNode
  <2>1. UNCHANGED <<row, events>> /\ decision' \in {"APPROVE", "REJECT", "MANUAL_REVIEW", decision}
    BY <1>3 DEF ExecuteGraphNode, NodeDecisions, dbVars
  <2>2. pc = "executeGraphNode" /\ pc' \in {pc, "persistExecutionCompleted", "FAILED", "paused",
            "createApprovalRequest", "persistExecutionFailed"}
    BY <1>3, NodeExecutedEffect, AttemptLostEffect DEF ExecuteGraphNode, Entered, IInv, TypeOK
  <2>3. Phase = "deliberating" /\ Phase' \in {"deliberating", "asking", "settled", "stopped"}
    BY <2>2
  <2> QED
    BY <2>1, <2>3 DEF Run!Next, Run!Deliberate, Run!Automatic
<1>4. CASE CreateApprovalRequest \/ PersistApprovalCreated \/ SendApprovalNotification
  <2>1. UNCHANGED <<decision, row.decision, events>>
    BY <1>4 DEF CreateApprovalRequest, PersistApprovalCreated, SendApprovalNotification,
                MarkAwaitingApproval, IInv, TypeOK, loopVars, dbVars
  <2>2. /\ pc \in {"createApprovalRequest", "persistApprovalCreated", "sendApprovalNotification"}
        /\ pc' \in {pc, "persistApprovalCreated", "sendApprovalNotification", "gate", "FAILED",
                    "persistExecutionFailed"}
    BY <1>4, AttemptLostEffect
    DEF CreateApprovalRequest, PersistApprovalCreated, SendApprovalNotification, Await, IInv, TypeOK
  <2> QED
    BY <2>1, <2>2, QuietStep
<1>5. CASE PersistExecutionCompleted
  <2>1. /\ UNCHANGED <<decision, events>>
        /\ row'.decision = row.decision \/ row'.decision = decision
        /\ row.decision # NoDecision => row.decision = decision
    BY <1>5 DEF PersistExecutionCompleted, MarkCompleted, IInv, Storage, loopVars
  <2>2. /\ pc = "persistExecutionCompleted"
        /\ pc' \in {pc, "emitAuditEvent", "FAILED", "persistExecutionFailed"}
    BY <1>5, AttemptLostEffect DEF PersistExecutionCompleted, Await, IInv, TypeOK
  <2>3. Phase = "settled" /\ Phase' \in {"settled", "stopped"}
    BY <2>2
  <2>4. CASE row'.decision = row.decision
    BY <2>1, <2>3, <2>4, QuietStep
  <2>5. CASE row'.decision # row.decision
    BY <2>1, <2>3, <2>5 DEF Run!Next, Run!Store
  <2> QED
    BY <2>4, <2>5
<1>6. CASE PublishDecisionEvent
  <2>1. UNCHANGED <<decision, row>> /\ events' \in {events, events \cup {decision}}
    BY <1>6 DEF PublishDecisionEvent, loopVars, dbVars
  <2>2. row.decision = decision /\ events \subseteq {decision}
    BY <1>6 DEF PublishDecisionEvent, IInv, Storage, Reported
  <2>3. Phase = "settled" /\ Phase' \in {"settled", "stopped"}
    BY <1>6, AttemptLostEffect DEF PublishDecisionEvent, IInv, TypeOK
  <2>4. CASE events' = events
    BY <2>1, <2>3, <2>4, QuietStep
  <2>5. CASE events' = {decision}
    BY <2>1, <2>2, <2>3, <2>5 DEF Run!Next, Run!Announce
  <2> QED
    BY <2>1, <2>2, <2>4, <2>5
<1>7. CASE PersistExecutionFailed
  BY <1>7, QuietStep DEF PersistExecutionFailed, MarkFailed, IInv, TypeOK, loopVars
<1>8. CASE GateCancelled
  BY <1>8, QuietStep DEF GateCancelled, Await, loopVars, dbVars
<1>9. CASE GateApproved
  <2>1. UNCHANGED <<decision, row, events>>
    BY <1>9 DEF GateApproved, dbVars
  <2>2. pc = "gate" /\ pc' \in {"persistExecutionCompleted", "FAILED", "paused",
            "executeGraphNode", "createApprovalRequest"}
    BY <1>9, ApprovedEffect DEF GateApproved, TakeAnswer, Entered
  <2> QED
    BY <2>1, <2>2, QuietStep
<1>10. CASE GateRejected \/ GateTimesOut
  <2>1. UNCHANGED <<row, events>> /\ decision' \in {"REJECT", "ESCALATE"}
    BY <1>10 DEF GateRejected, GateTimesOut, dbVars
  <2>2. Phase = "asking" /\ Phase' \in {"settled", "stopped"}
    BY <1>10 DEF GateRejected, GateTimesOut, TakeAnswer, Await
  <2> QED
    BY <2>1, <2>2 DEF Run!Next, Run!Rejected
<1>11. CASE PauseEnds
  <2>1. UNCHANGED <<decision, row, events>>
    BY <1>11 DEF PauseEnds, dbVars
  <2>2. pc = "paused" /\ pc' \in {"persistExecutionCompleted", "FAILED", "paused",
            "executeGraphNode", "createApprovalRequest"}
    BY <1>11, PauseEndsEffect DEF PauseEnds, Entered
  <2> QED
    BY <2>1, <2>2, QuietStep
<1>12. CASE \E r \in Reviewers : Reviewer(r)
  BY <1>12, QuietStep
  DEF Reviewer, ReadApproval, UpdateApproval, SignalWorkflow, InsertDelegateRequest, CallFails,
      loopVars, dbVars
<1>13. CASE Operator \/ Tick \/ UNCHANGED vars
  <2>1. UNCHANGED <<decision, row.decision, events>>
    BY <1>13 DEF Operator, CancelSignal, PauseOrResumeSignal, RequestCancel, MarkCancelled, MarkFailed,
                 Tick, IInv, TypeOK, vars, loopVars, dbVars
  <2>2. pc' \in {pc, "FAILED", "TIMED_OUT"}
    BY <1>13 DEF Operator, CancelSignal, PauseOrResumeSignal, RequestCancel, MarkCancelled, Tick, vars
  <2> QED
    BY <2>1, <2>2, QuietStep
<1> QED
  BY <1>1, <1>2, <1>3, <1>4, <1>5, <1>6, <1>7, <1>8, <1>9, <1>10, <1>11, <1>12, <1>13
  DEF Next, Worker, Activity, Gate

\* An execution keeps the promise of DecisionRun.
THEOREM Refinement == Spec => RunSpec
BY InitRefines, NextRefines, Invariance, PTL DEF Spec, RunSpec, Run!Spec

=============================================================================
