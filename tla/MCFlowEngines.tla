--------------------------- MODULE MCFlowEngines ----------------------------
(***************************************************************************)
(* Flows for FlowEngines: a lending flow with a gate, one routed by values *)
(* that are not set yet, one with a cycle and a node that is its own       *)
(* fallback's target, one whose AI node may time out, and one in which no  *)
(* node decides.                                                           *)
(***************************************************************************)
EXTENDS FlowEngines, TLC

CONSTANTS n1, n2, n3, n4, n5, n6, n7

RiskAbove(p) == [reads |-> "riskScore", bound |-> p]
Confident    == [reads |-> "confidence", bound |-> 75]
Rejected     == [reads |-> "finalDecision", equals |-> "REJECT"]
Unreviewed   == [reads |-> "finalDecision", equals |-> "MANUAL_REVIEW"]
Blocked(n)   == [reads |-> "hardBlock", of |-> n]

Plain(kind, next) ==
    [kind |-> kind, next |-> next, fallback |-> NoNode, branches |-> << >>,
     expr |-> RiskAbove(0), onTrue |-> NoNode, onFalse |-> NoNode,
     approve |-> 30, reject |-> 70, retries |-> 0, impatient |-> FALSE]
Branch(expr, n) == [when |-> expr, to |-> n]
If(expr, yes, no) == [Plain("CONDITION", NoNode) EXCEPT !.expr = expr, !.onTrue = yes, !.onFalse = no]

Lending == [entry |-> n1, node |->
    (n1 :> Plain("START", n2)
     @@ n2 :> [Plain("RULE", n3) EXCEPT !.fallback = n5, !.retries = 1]
     @@ n3 :> [Plain("AI", n4) EXCEPT !.branches = <<Branch(RiskAbove(80), n5), Branch(Blocked(n2), n6)>>]
     @@ n4 :> Plain("SCORE", n6)
     @@ n5 :> Plain("GATE", n4)
     @@ n6 :> Plain("END", NoNode)
     @@ n7 :> Plain("END", NoNode))]

Unset == [entry |-> n7, node |->
    (n7 :> Plain("START", n1)
     @@ n1 :> If(Confident, n2, n3)
     @@ n2 :> If(Unreviewed, n3, n4)
     @@ n3 :> Plain("AI", n4)
     @@ n4 :> [Plain("SCORE", n5) EXCEPT !.branches = <<Branch(Rejected, n6)>>]
     @@ n5 :> If(Confident, n6, NoNode)
     @@ n6 :> Plain("END", NoNode))]

Cyclic == [entry |-> n7, node |->
    (n7 :> Plain("START", n1)
     @@ n1 :> [Plain("WEBHOOK", n2) EXCEPT !.retries = 2]
     @@ n2 :> [Plain("RULE", n3) EXCEPT !.fallback = n4]
     @@ n3 :> Plain("SCORE", n1)
     @@ n4 :> [Plain("DELAY", n2) EXCEPT !.impatient = TRUE, !.fallback = n5]
     @@ n5 :> If(Blocked(n2), n6, n3)
     @@ n6 :> Plain("END", NoNode))]

Hasty == [entry |-> n1, node |->
    (n1 :> Plain("START", n2)
     @@ n2 :> [Plain("AI", n3) EXCEPT !.impatient = TRUE, !.fallback = n4]
     @@ n3 :> [Plain("RULE", n4) EXCEPT !.branches = <<Branch(Confident, n5)>>]
     @@ n4 :> Plain("SCORE", n5)
     @@ n5 :> Plain("AI", n6)
     @@ n6 :> Plain("SCORE", n7)
     @@ n7 :> Plain("END", NoNode))]

Scored == [entry |-> n1, node |->
    (n1 :> Plain("START", n2)
     @@ n2 :> [Plain("AI", n3) EXCEPT !.impatient = TRUE, !.fallback = n3]
     @@ n3 :> Plain("SCORE", n4)
     @@ n4 :> Plain("END", NoNode)
     @@ n5 :> Plain("END", NoNode)
     @@ n6 :> Plain("END", NoNode)
     @@ n7 :> Plain("END", NoNode))]

Undecided == [entry |-> n1, node |->
    (n1 :> Plain("START", n2)
     @@ n2 :> Plain("AI", n3)
     @@ n3 :> [Plain("RULE", n4) EXCEPT !.branches = <<Branch(RiskAbove(50), n5)>>]
     @@ n4 :> Plain("END", NoNode)
     @@ n5 :> [Plain("WEBHOOK", n4) EXCEPT !.fallback = n4]
     @@ n6 :> Plain("END", NoNode)
     @@ n7 :> Plain("END", NoNode))]

MCFlows == {Lending, Unset, Cyclic, Hasty, Scored, Undecided}

\* The lending flow with more patience for its policy, as createFlow stores it.
MCDrafts == {[Lending EXCEPT !.node[n2].retries = 2]}

\* A sound, a doubtful, a refusing and an approving but risky analysis.
MCAnalyses == {[risk |-> 20, confidence |-> 90, recommendation |-> "APPROVE"],
               [risk |-> 50, confidence |-> 60, recommendation |-> "MANUAL_REVIEW"],
               [risk |-> 90, confidence |-> 90, recommendation |-> "REJECT"],
               [risk |-> 90, confidence |-> 60, recommendation |-> "APPROVE"],
               [risk |-> 0,  confidence |-> 90, recommendation |-> "APPROVE"]}
=============================================================================
