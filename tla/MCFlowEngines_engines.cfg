SPECIFICATION FairSpecEngines
CONSTANTS
    n1 = n1  n2 = n2  n3 = n3  n4 = n4  n5 = n5  n6 = n6  n7 = n7
    Nodes = {n1, n2, n3, n4, n5, n6, n7}
    NoNode = NoNode
    Undefined = Undefined
    Unasked = Unasked
    MaxAttempts = 3
    Graphs <- MCFlows
    Drafts <- MCDrafts
    Analyses <- MCAnalyses
INVARIANTS
    EnginesPartOnlyAtUnsetValue
    DecisionsDifferOnlyByInference
    OutageIsNotApproved
    ApprovalIsEarned
    CreatedFlowsDecideNothing
PROPERTIES
    EnginesWalk
    EnginesRest
CHECK_DEADLOCK FALSE
