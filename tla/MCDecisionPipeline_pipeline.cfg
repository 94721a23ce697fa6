\* One sparse application posted twice, one policy, a model that recommends approval.
CONSTANTS
    Calls = {c1, c2}
    Paths = {"underwriting"}
    TopK = 8
    MockMode = FALSE
    Unavailable = Unavailable
    Undefined = Undefined
    Watched = c1
    Nothing = Nothing
    Requests <- MCSparse
    Retrievals <- MCFound
    Evaluations <- MCEvaluations
    Assessments <- MCApproval
SPECIFICATION FairSpec
INVARIANTS
    RetriesAgree
PROPERTIES
    RunSpec
    CallsEnd
CHECK_DEADLOCK FALSE
