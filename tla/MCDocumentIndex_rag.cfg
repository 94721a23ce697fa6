SPECIFICATION FairSpec
CONSTANTS
    Ingestions = {i1, i2}
    Searches = {s1}
    Documents <- MCDocuments
    Queries <- MCQueries
    Deletions <- MCDeletions
    ChunkSize = 10
    ChunkOverlap = 6
    HeaderLength = 4
    MaxRetries = 1
    MaxDeletions = 1
    None = None
INVARIANTS
    JobsTellTheTruth
    AnswersAreSound
    NothingIsSkipped
PROPERTIES
    CallsEnd
CHECK_DEADLOCK FALSE
