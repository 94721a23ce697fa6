---------------------------- MODULE NodeExecutor ----------------------------
(***************************************************************************)
(* What NodeExecutor.execute makes of one node: its output and the edge it *)
(* takes, given the context of the execution and what the node's service   *)
(* came up with.  Risk and confidence are in percent.  Both engines call   *)
(* it; retries, timers and the engines themselves are in FlowEngines.      *)
(***************************************************************************)
EXTENDS Naturals, Sequences

CONSTANTS
    Nodes,     \* node identifiers of a flow
    NoNode,    \* an undefined edge
    Undefined  \* an undefined scalar of the ExecutionContext

Percent == 0 .. 100
Recommendations == {"APPROVE", "REJECT", "MANUAL_REVIEW"}
Decisions == Recommendations \cup {"ESCALATE"}

OrElse(value, default) == IF value = Undefined THEN default ELSE value

\* Expressions of CONDITION nodes and branches.  The prefixes ctx. and output.
\* are dropped before the evaluation, so that output.riskScore is ctx.riskScore
\* too.  An expression may ask whether a node was blocked hard; nodeOutputs is in
\* its scope, but the id of a node is a UUID, and the guard of the evaluator
\* refuses every expression with a hyphen: such an expression is false.
Holds(expr, ctx, outputs) ==
    CASE expr.reads = "riskScore"     -> OrElse(ctx.risk, 0) >= expr.bound
      [] expr.reads = "confidence"    -> OrElse(ctx.confidence, 100) >= expr.bound
      [] expr.reads = "finalDecision" -> ctx.decision = expr.equals
      [] expr.reads = "hardBlock"     -> FALSE

\* The answer reason() gives when the AI service failed it.
\* Mutant: an outage counts as no risk at all.
EscalateFallbackRiskless == [risk |-> 0, confidence |-> 0, recommendation |-> "MANUAL_REVIEW"]
EscalateFallback == [risk |-> 100, confidence |-> 0, recommendation |-> "MANUAL_REVIEW"]

\* How an attempt may end: with an answer of the node's service, or by throwing.
\* An AI call never throws: its failures are the escalating answer.  A policy
\* that passes and one that is violated softly lead the same way.
Done == [done |-> TRUE]
Failure == [usedFallback |-> TRUE]
Answers(node, analyses) ==
    CASE node.kind = "RULE" -> [hardBlock : BOOLEAN]
      [] node.kind = "AI"   -> analyses \cup {EscalateFallback}
      [] OTHER              -> {Done}
MayThrow(node) == node.kind \in {"RULE", "WEBHOOK"}
Remote(node) == node.kind \in {"RULE", "AI", "WEBHOOK", "DELAY"}

\* Mutant: the bands of a SCORE node in the wrong order.
ScoreRejectedLast(node, ctx) ==
    IF OrElse(ctx.risk, 0) >= node.approve THEN "APPROVE"
    ELSE IF OrElse(ctx.risk, 0) <= node.reject THEN "REJECT" ELSE "MANUAL_REVIEW"
Score(node, ctx) ==
    LET risk == OrElse(ctx.risk, 0) IN
    CASE risk <= node.approve                        -> "APPROVE"
      [] risk > node.approve /\ risk >= node.reject -> "REJECT"
      [] OTHER                                       -> "MANUAL_REVIEW"

\* The output of a node whose last attempt ended in answer.
Output(node, ctx, outputs, answer) ==
    CASE answer = Failure          -> answer
      [] node.kind = "SCORE"       -> [decision |-> Score(node, ctx)]
      [] node.kind = "CONDITION"   -> [selected |-> IF Holds(node.expr, ctx, outputs)
                                                    THEN node.onTrue ELSE node.onFalse]
      [] OTHER                     -> answer

FirstBranch(node, ctx, outputs) ==
    LET taken == {i \in DOMAIN node.branches : Holds(node.branches[i].when, ctx, outputs)}
    IN  IF taken = {} THEN node.next
        ELSE node.branches[CHOOSE i \in taken : \A j \in taken : i <= j].to

\* The edge taken: branches see the output under nodeOutputs, and the scalars of
\* the context as they were before the node ran.
ResolveNext(id, node, ctx, outputs, out) ==
    CASE node.kind = "CONDITION" ->
             IF out.selected # NoNode THEN out.selected ELSE node.next
      [] node.kind = "RULE" /\ out.hardBlock ->
             IF node.fallback # NoNode THEN node.fallback ELSE node.next
      [] OTHER ->
             FirstBranch(node, ctx, [n \in DOMAIN outputs \cup {id} |->
                                        IF n = id THEN out ELSE outputs[n]])

\* The result of execute(): a node that failed goes to its fallback node, and
\* without one execute() throws (Throws).
Throws(node, answer) == answer = Failure /\ node.fallback = NoNode

Result(id, node, ctx, outputs, answer) ==
    LET out == Output(node, ctx, outputs, answer)
    IN  [output |-> out,
         next   |-> IF answer = Failure THEN node.fallback
                    ELSE ResolveNext(id, node, ctx, outputs, out)]

\* Where execute() may send an execution, whatever the answer.
Edges(node) ==
    {node.next, node.fallback} \cup {node.branches[i].to : i \in DOMAIN node.branches}
      \cup (IF node.kind = "CONDITION" THEN {node.onTrue, node.onFalse} ELSE {})
=============================================================================
