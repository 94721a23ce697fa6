SPECIFICATION Spec
CONSTANTS
    Nodes <- MCNodes
    Flows <- MCTwoGates
    NoNode = NoNode
    NoAnswer = NoAnswer
    Approvals = {a1, a2, a3}
    Reviewers = {r1}
    MaxAttempts = 1
    GateDue = 1
    PauseDue = 1
    RunTimeout = 2
    Interventions = {}
SYMMETRY MCSymmetry
INVARIANT
    GateAnsweredByItsOwnRequest
\* The run closes and its callers go home: the system really stops.
CHECK_DEADLOCK FALSE
