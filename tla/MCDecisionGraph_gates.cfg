\* Two gates in a row and two reviewers who approve, reject and delegate.
SPECIFICATION Spec
CONSTANTS
    Nodes <- MCNodes
    Flows <- MCTwoGates
    NoNode = NoNode
    NoAnswer = NoAnswer
    Approvals = {a1, a2}
    Reviewers = {r1, r2}
    MaxAttempts = 1
    GateDue = 1
    PauseDue = 1
    RunTimeout = 2
    Interventions = {}
SYMMETRY MCSymmetry
INVARIANTS
    EscalatedGateIsUnanswered
    RejectIsFinal
    WaitingGateCanBeAnswered
PROPERTIES
    RunSpec
\* The run closes and its callers go home: the system really stops.
CHECK_DEADLOCK FALSE
