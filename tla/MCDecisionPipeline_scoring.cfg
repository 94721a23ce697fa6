\* One call: four applications, two policies, the deterministic analyser.
CONSTANTS
    Calls = {c1}
    Paths = {"underwriting", "credit_risk"}
    TopK = 8
    MockMode = TRUE
    Unavailable = Unavailable
    Undefined = Undefined
    Watched = c1
    Nothing = Nothing
    Requests <- MCRequests
    Retrievals <- MCRetrievals
    Evaluations <- MCOpinions
    Assessments <- MCAssessments
SPECIFICATION Spec
INVARIANTS
    FailureOnlyRefers
    ApprovalIsWarranted
CHECK_DEADLOCK FALSE
