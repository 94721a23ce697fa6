---------------------------- MODULE FlowEngines -----------------------------
(***************************************************************************)
(* The two interpreters of a decision flow over one NodeExecutor: the loop *)
(* of DecisionGraphWorkflow with its activity executeGraphNode, and the    *)
(* in-process GraphEngine.  The workflow runs the flow first; GraphEngine  *)
(* then runs it again, the services answering every node as they did       *)
(* before.  Signals, rows and events of the workflow are in DecisionGraph. *)
(***************************************************************************)
EXTENDS NodeExecutor, FiniteSets

CONSTANTS
    Graphs,      \* the flows considered, as published
    Drafts,      \* flows given to createFlow, and published as it stored them
    Analyses,    \* answers of the AI service
    MaxAttempts, \* retry.maximumAttempts of the activity proxy
    Unasked      \* no answer yet

Kinds == {"START", "RULE", "CONDITION", "AI", "SCORE", "GATE", "ACTION", "WEBHOOK", "DELAY", "END"}

Expressions ==
    [reads : {"riskScore", "confidence"}, bound : Percent]
      \cup [reads : {"finalDecision"}, equals : Decisions]
      \cup [reads : {"hardBlock"}, of : Nodes]

\* impatient: timeoutMs may pass before the service of the node has answered.
Targets == Nodes \cup {NoNode}
NodeConfig == [kind : Kinds, next : Targets, fallback : Targets,
               branches : Seq([when : Expressions, to : Targets]),
               expr : Expressions, onTrue : Targets, onFalse : Targets,
               approve : Percent, reject : Percent,
               retries : Nat, impatient : BOOLEAN]
Flow == [entry : Nodes, node : [Nodes -> NodeConfig]]

ASSUME NodesAssumption == IsFiniteSet(Nodes) /\ NoNode \notin Nodes

\* A flow is created and published with a START and an END.
ASSUME GraphsAssumption ==
    \A f \in Graphs \cup Drafts : /\ f \in Flow
                               /\ f.node[f.entry].kind = "START"
                               /\ \E n \in Nodes : f.node[n].kind = "END"
ASSUME UndefinedAssumption == Undefined \notin Percent /\ Undefined \notin Decisions
ASSUME AnalysesAssumption ==
    Analyses \subseteq [risk : Percent, confidence : Percent, recommendation : Recommendations]
ASSUME UnaskedAssumption ==
    Unasked \notin Analyses \cup [hardBlock : BOOLEAN] \cup {EscalateFallback, Done, Failure}
ASSUME AttemptsAssumption == MaxAttempts \in Nat \ {0}

\* Mutant: the edges keep their targets.
CreatedAsGiven(draft) == draft
\* What createFlow stores of a flow: next and fallback of a node are not passed
\* on, and its nodes have new ids, which the targets kept in branches and in the
\* configuration of a condition are not.
Created(draft) ==
    LET stored(node) ==
            [node EXCEPT !.next = NoNode, !.fallback = NoNode, !.onTrue = NoNode, !.onFalse = NoNode,
                         !.branches = [i \in DOMAIN node.branches |->
                                          [node.branches[i] EXCEPT !.to = NoNode]]]
    IN  [draft EXCEPT !.node = [n \in Nodes |-> stored(draft.node[n])]]

Published == Graphs \cup {Created(draft) : draft \in Drafts}

VARIABLES
    flow,      \* the flow both engines run
    eng,       \* the state of each engine
    answered   \* history: how the last attempt at a node ended, when it counted
engineVars == <<flow, eng, answered>>

Engines == {"workflow", "inProcess"}
Resting == {"ended", "paused", "failed"}

Config(n) == flow.node[n]

-----------------------------------------------------------------------------
(* Both engines: the loop condition, the cycle check and the kinds of node  *)
(* that are not executed: s is the state of an engine.                      *)

WorkflowContext == [risk |-> 0, confidence |-> 0, decision |-> "MANUAL_REVIEW"]
InProcessContext == [risk |-> Undefined, confidence |-> Undefined, decision |-> Undefined]

InitialContext(e) == IF e = "workflow" THEN WorkflowContext ELSE InProcessContext

Stops(s, n) == n = NoNode \/ Len(s.trace) >= 2 * Cardinality(Nodes) \/ n \in s.visited

\* Mutant: GraphEngine waits at a gate for an answer that reaches only workflows.
PhaseAtWaiting(e, n) ==
    CASE Config(n).kind = "GATE" -> IF e = "workflow" THEN "gate" ELSE "waiting"
      [] Config(n).kind = "END"  -> "ended"
      [] OTHER                   -> "calling"
PhaseAt(e, n) ==
    CASE Config(n).kind = "GATE" -> IF e = "workflow" THEN "gate" ELSE "paused"
      [] Config(n).kind = "END"  -> "ended"
      [] OTHER                   -> "calling"

\* Mutant: without the cycle check.
ArriveUnchecked(e, s, n) ==
    IF n = NoNode \/ Len(s.trace) >= 2 * Cardinality(Nodes)
    THEN [s EXCEPT !.phase = "ended"]
    ELSE [s EXCEPT !.phase = PhaseAt(e, n), !.at = n, !.visited = @ \cup {n},
                   !.trace = Append(@, n), !.retry = 0, !.attempt = 1]
Arrive(e, s, n) ==
    IF Stops(s, n) THEN [s EXCEPT !.phase = "ended"]
    ELSE [s EXCEPT !.phase = PhaseAt(e, n), !.at = n, !.visited = @ \cup {n},
                   !.trace = Append(@, n), !.retry = 0, !.attempt = 1]

Idle(e) == [phase |-> "idle", at |-> flow.entry, ctx |-> InitialContext(e),
            outputs |-> << >>, visited |-> {}, trace |-> << >>, retry |-> 0, attempt |-> 1]

InitEngines ==
    /\ flow \in Published
    /\ eng = [e \in Engines |-> Idle(e)]
    /\ answered = [n \in Nodes |-> Unasked]

Move(e, s) == eng' = [eng EXCEPT ![e] = s] /\ UNCHANGED flow

Start(e) ==
    /\ eng[e].phase = "idle"
    /\ e = "inProcess" => eng["workflow"].phase \in Resting
    /\ Move(e, Arrive(e, eng[e], flow.entry))
    /\ UNCHANGED answered

-----------------------------------------------------------------------------
(* Outputs into the context: executeGraphNode extracts scalars, which the   *)
(* loop propagates; GraphEngine merges the output itself.                   *)

\* Mutant: an approving analysis decides.
PropagateApproval(kind, out, ctx) ==
    IF kind = "AI" /\ "risk" \in DOMAIN out
    THEN [risk |-> out.risk, confidence |-> out.confidence, decision |-> out.recommendation]
    ELSE IF kind = "SCORE" THEN [ctx EXCEPT !.decision = out.decision] ELSE ctx

Propagate(kind, out, ctx) ==
    CASE kind = "AI" /\ "risk" \in DOMAIN out ->
             [risk |-> out.risk, confidence |-> out.confidence,
              decision |-> IF out.recommendation \in {"REJECT", "MANUAL_REVIEW"}
                           THEN out.recommendation ELSE ctx.decision]
      [] kind = "SCORE" -> [ctx EXCEPT !.decision = out.decision]
      [] kind = "RULE" /\ "hardBlock" \in DOMAIN out ->
             IF out.hardBlock THEN [ctx EXCEPT !.decision = "REJECT"] ELSE ctx
      [] OTHER -> ctx

\* Mutant: GraphEngine forgets the confidence.
MergeWithoutConfidence(kind, out, ctx) ==
    [Propagate(kind, out, ctx) EXCEPT !.confidence = ctx.confidence]
MergeOutputIntoContext(kind, out, ctx) ==
    CASE kind = "AI" /\ "risk" \in DOMAIN out ->
             [risk |-> out.risk, confidence |-> out.confidence,
              decision |-> CASE out.recommendation = "REJECT"        -> "REJECT"
                             [] out.recommendation = "MANUAL_REVIEW" -> "MANUAL_REVIEW"
                             [] OTHER                                -> ctx.decision]
      [] kind = "RULE" /\ "hardBlock" \in DOMAIN out ->
             [ctx EXCEPT !.decision = IF out.hardBlock THEN "REJECT" ELSE @]
      [] kind = "SCORE" -> [ctx EXCEPT !.decision = out.decision]
      [] OTHER -> ctx

NewContext(e, kind, out, ctx) ==
    IF e = "workflow" THEN Propagate(kind, out, ctx) ELSE MergeOutputIntoContext(kind, out, ctx)

\* The loop body behind execute(): merge the output, go to the next node.
Advanced(e, s, answer) ==
    LET r == Result(s.at, Config(s.at), s.ctx, s.outputs, answer)
    IN  Arrive(e, [s EXCEPT !.outputs = [n \in DOMAIN s.outputs \cup {s.at} |->
                                            IF n = s.at THEN r.output ELSE s.outputs[n]],
                            !.ctx = NewContext(e, Config(s.at).kind, r.output, s.ctx)],
               r.next)

-----------------------------------------------------------------------------
(* One attempt at a node.                                                   *)

Calling(e) == eng[e].phase = "calling"
Node(e) == Config(eng[e].at)

Advance(e, answer) ==
    /\ Move(e, Advanced(e, eng[e], answer))
    /\ answered' = [answered EXCEPT ![eng[e].at] = answer]

\* GraphEngine meets a node the workflow got through: the same answer counts.
Replay(e) ==
    /\ e = "inProcess" /\ Calling(e)
    /\ answered[eng[e].at] # Unasked
    /\ Advance(e, answered[eng[e].at])

Fresh(e) == Calling(e) /\ (e = "workflow" \/ answered[eng[e].at] = Unasked)

Complete(e) ==
    /\ Fresh(e)
    /\ \E answer \in Answers(Node(e), Analyses) : Advance(e, answer)

\* The activity that threw or was lost is attempted again, the node's own
\* retries from the start; after the last attempt the run fails.
Reattempted(s) ==
    IF s.attempt < MaxAttempts
    THEN [s EXCEPT !.attempt = @ + 1, !.retry = 0]
    ELSE [s EXCEPT !.phase = "failed"]

\* Out of retries, or timed out: the fallback node, or an exception.
GiveUp(e) ==
    \/ ~Throws(Node(e), Failure) /\ Advance(e, Failure)
    \/ /\ Throws(Node(e), Failure)
       /\ Move(e, IF e = "workflow" THEN Reattempted(eng[e])
                  ELSE [eng[e] EXCEPT !.phase = "failed"])
       /\ UNCHANGED answered

AttemptThrows(e) ==
    /\ Fresh(e) /\ MayThrow(Node(e))
    /\ \/ /\ eng[e].retry < Node(e).retries
          /\ Move(e, [eng[e] EXCEPT !.retry = @ + 1])
          /\ UNCHANGED answered
       \/ /\ eng[e].retry >= Node(e).retries
          /\ GiveUp(e)

\* The timer of executeWithTimeout wins the race: no retry, whatever is left.
AttemptTimesOut(e) ==
    /\ Fresh(e) /\ Remote(Node(e)) /\ Node(e).impatient
    /\ GiveUp(e)

\* The worker dies, or the activity outlives its two minutes.
ActivityLost(e) ==
    /\ e = "workflow" /\ Calling(e)
    /\ Move(e, Reattempted(eng[e]))
    /\ UNCHANGED answered

-----------------------------------------------------------------------------
(* The approval gate of the workflow; GraphEngine returns requiresApproval. *)

GateApproved(e) ==
    /\ eng[e].phase = "gate"
    /\ Move(e, Arrive(e, eng[e], Node(e).next))
    /\ UNCHANGED answered

GateCloses(e) ==
    /\ eng[e].phase = "gate"
    /\ \E d \in {"REJECT", "ESCALATE"} :
           Move(e, [eng[e] EXCEPT !.phase = "ended", !.ctx.decision = d])
    /\ UNCHANGED answered

-----------------------------------------------------------------------------
InferDecision(ctx) ==
    LET confidence == OrElse(ctx.confidence, 0) IN
    CASE ctx.risk \in {0, Undefined}           -> "MANUAL_REVIEW"
      [] ctx.risk \in 85 .. 100                -> "REJECT"
      [] ctx.risk \in 1 .. 35 /\ confidence >= 75 -> "APPROVE"
      [] OTHER                                 -> "MANUAL_REVIEW"

\* What the engine reports: GraphEngine infers a decision at the end when no
\* node has made one, and asks for a review when it stops at a gate.
Infers(e) == e = "inProcess" /\ eng[e].ctx.decision = Undefined
FinalDecision(e) ==
    IF ~Infers(e) THEN eng[e].ctx.decision
    ELSE IF eng[e].phase = "paused" THEN "MANUAL_REVIEW" ELSE InferDecision(eng[e].ctx)

EngineStep(e) ==
    \/ Start(e) \/ Complete(e) \/ Replay(e) \/ AttemptThrows(e) \/ AttemptTimesOut(e)
    \/ ActivityLost(e) \/ GateApproved(e) \/ GateCloses(e)

NextEngines == \E e \in Engines : EngineStep(e)
SpecEngines == InitEngines /\ [][NextEngines]_engineVars

\* Temporal attempts, retries and times out what it was given, reviewers or
\* the timer of the gate answer, and the event loop runs GraphEngine on.
FairSpecEngines == SpecEngines /\ WF_engineVars(NextEngines)

-----------------------------------------------------------------------------
(* Properties.                                                              *)

Kind(e, i) == Config(eng[e].trace[i]).kind
OutputAt(e, i) == eng[e].outputs[eng[e].trace[i]]
Steps(e) == {i \in DOMAIN eng[e].trace : eng[e].trace[i] \in DOMAIN eng[e].outputs}

\* The steps at which an analysis was obtained, and at which a decision was made.
Analysed(e) == {i \in Steps(e) : Kind(e, i) = "AI" /\ "risk" \in DOMAIN OutputAt(e, i)}
Decided(e) ==
    {i \in Analysed(e) : OutputAt(e, i).recommendation # "APPROVE"}
      \cup {i \in Steps(e) : Kind(e, i) = "SCORE"}
      \cup {i \in Steps(e) : OutputAt(e, i) = [hardBlock |-> TRUE]}

LastOf(steps) == CHOOSE i \in steps : \A j \in steps : j <= i
Before(steps, i) == {j \in steps : j < i}

\* The expressions node n may be routed by.
Routing(n) ==
    IF Config(n).kind = "CONDITION" THEN {Config(n).expr}
    ELSE {Config(n).branches[i].when : i \in DOMAIN Config(n).branches}

\* Given the same answers the engines take the same path, until a node is routed
\* by a confidence no analysis has set yet (0 for the workflow, 1 for
\* GraphEngine) or by a decision nobody has made yet (MANUAL_REVIEW, undefined).
EnginesPartOnlyAtUnsetValue ==
    LET w == eng["workflow"].trace
        g == eng["inProcess"].trace
    IN \A i \in (DOMAIN w \cap DOMAIN g) \ {1} :
          (w[i] # g[i] /\ \A j \in 1 .. i - 1 : w[j] = g[j])
             => \E expr \in Routing(w[i - 1]) :
                   \/ expr.reads = "confidence" /\ Before(Analysed("workflow"), i - 1) = {}
                   \/ expr.reads = "finalDecision" /\ Before(Decided("workflow"), i - 1) = {}

\* On the same path to the end the engines decide alike, unless no node decided:
\* then the workflow refers to a review what GraphEngine infers a decision for.
DecisionsDifferOnlyByInference ==
    (/\ \A e \in Engines : eng[e].phase = "ended"
     /\ eng["workflow"].trace = eng["inProcess"].trace
     /\ FinalDecision("workflow") # FinalDecision("inProcess"))
       => FinalDecision("workflow") = "MANUAL_REVIEW" /\ Decided("inProcess") = {}

\* While the last analysis a run could get was the answer that stands for an AI
\* service that failed, the run is not approved, whatever came before it and
\* whatever was scored after it; unless a SCORE node approves of a risk of 100,
\* which is that of an outage.
Discerning == \A n \in Nodes : Config(n).kind = "SCORE" => Config(n).approve < 100
OutageIsNotApproved ==
    Discerning => \A e \in Engines :
       (/\ eng[e].phase = "ended" /\ Analysed(e) # {}
        /\ OutputAt(e, LastOf(Analysed(e))) = EscalateFallback)
          => FinalDecision(e) # "APPROVE"

\* A run that ends approved was approved by a SCORE node, on the risk of the last
\* analysis before it if there was one, and no hard block and no analysis after
\* it was against; or GraphEngine inferred it from a confident analysis.
ApprovalIsEarned ==
    \A e \in Engines :
       (eng[e].phase = "ended" /\ FinalDecision(e) = "APPROVE") =>
          \/ /\ Decided(e) = {} /\ e = "inProcess" /\ Analysed(e) # {}
             /\ OutputAt(e, LastOf(Analysed(e))).confidence >= 75
          \/ /\ Decided(e) # {}
             /\ LET i == LastOf(Decided(e))
                    earlier == Before(Analysed(e), i)
                IN  /\ Kind(e, i) = "SCORE"
                    /\ earlier # {} =>
                         OutputAt(e, LastOf(earlier)).risk <= Config(eng[e].trace[i]).approve

\* A flow that reached the table through createFlow decides nothing: whatever its
\* author drew, either engine ends after START and refers the application.
CreatedFlowsDecideNothing ==
    \A e \in Engines :
       (flow \notin Graphs /\ eng[e].phase \in Resting) =>
          eng[e].visited = {flow.entry} /\ FinalDecision(e) = "MANUAL_REVIEW"

\* What a run promises of its flow, for each engine: see GraphWalk.
EdgesOf == {edge \in Nodes \X Nodes : edge[2] \in Edges(Config(edge[1]))}
Says == [n \in Nodes |-> CASE Config(n).kind = "AI"    -> {"REJECT", "MANUAL_REVIEW"}
                           [] Config(n).kind = "SCORE" -> {"APPROVE", "REJECT", "MANUAL_REVIEW"}
                           [] Config(n).kind = "RULE"  -> {"REJECT"}
                           [] Config(n).kind = "GATE"  -> {"REJECT", "ESCALATE"}
                           [] OTHER                    -> {}]

WorkflowWalk == INSTANCE GraphWalk WITH
    edges <- EdgesOf, says <- Says, entry <- flow.entry, walked <- eng["workflow"].visited,
    at <- eng["workflow"].at, verdict <- eng["workflow"].ctx.decision
InProcessWalk == INSTANCE GraphWalk WITH
    edges <- EdgesOf, says <- Says, entry <- flow.entry, walked <- eng["inProcess"].visited,
    at <- eng["inProcess"].at, verdict <- eng["inProcess"].ctx.decision

\* Each engine implements GraphWalk: no edge is invented, no node entered twice,
\* and no node says more than its kind may.
EnginesWalk == WorkflowWalk!Spec /\ InProcessWalk!Spec

\* Cycles, dangling edges, failing services and lost workers notwithstanding,
\* both engines come to rest.
EnginesRest == <>(\A e \in Engines : eng[e].phase \in Resting)
=============================================================================
