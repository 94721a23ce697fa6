\* A cyclic flow, lost attempts and every intervention; no symmetry, for the liveness.
SPECIFICATION FairSpec
CONSTANTS
    Nodes <- MCNodes
    Flows <- MCCyclic
    NoNode = NoNode
    NoAnswer = NoAnswer
    Approvals = {a1, a2}
    Reviewers = {r1}
    MaxAttempts = 2
    GateDue = 1
    PauseDue = 1
    RunTimeout = 2
    Interventions = {"cancelSignal", "pauseSignal", "cancelExecution"}
INVARIANTS
    ReturnedRunIsCompleted
PROPERTIES
    StoredDecisionIsWrittenOnce
    WorkerComesToRest
\* The run closes and its callers go home: the system really stops.
CHECK_DEADLOCK FALSE
