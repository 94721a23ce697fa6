\* Six kinds of application, two submissions, two attempts; no symmetry, for the liveness.
SPECIFICATION FairSpec
CONSTANTS
    r1 = r1
    r2 = r2
    Requests = {r1, r2}
    Applications <- MCApplications
    MaxAttempts = 2
    OpaMayFail = TRUE
INVARIANTS RecordsAgree ApprovalIsAccountedFor ReturnedIsDecided FraudRejectIsUnreachable
PROPERTIES LedgerSpec WorkflowComesToRest
\* A decided application with its submissions answered really rests.
CHECK_DEADLOCK FALSE
