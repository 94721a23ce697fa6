---------------------------- MODULE DocumentIndex ----------------------------
(***************************************************************************)
(* The document index of the AI service: ingestions that cut, embed and    *)
(* store documents under a job record, deletions, and searches that read   *)
(* the index, leave an audit record and hand chunks to a client or to an   *)
(* analysis.  All run concurrently; each database call, each embedding and *)
(* each publication may fail, applied or not, and a process may stop.      *)
(***************************************************************************)
EXTENDS PassageRanking

CONSTANTS
    Ingestions,   \* POST /embeddings/index, the seed script included
    Searches,     \* POST /embeddings/search, and the analyses that ask for context
    Documents,    \* what may be ingested
    Queries,      \* what may be searched for
    Deletions,    \* what may be deleted, ids aside
    ChunkSize,    \* chunkSize
    ChunkOverlap, \* chunkOverlap
    HeaderLength, \* characters of the line that introduces a passage in a context
    MaxRetries,   \* EMBEDDING_MAX_RETRIES
    MaxDeletions, \* bound: deletions
    None

Document == [tenant : STRING, type : STRING, source : STRING, text : Seq(Paragraph)]
Query == [tenant : STRING, types : SUBSET STRING, topK : Nat, threshold : Percent,
          budget : Nat, enrich : BOOLEAN]

ASSUME DocumentsAssumption ==
    \A doc \in Documents : doc \in Document /\ doc.text # << >>
ASSUME QueriesAssumption == Queries \subseteq Query
ASSUME CallsAssumption == Ingestions \cap Searches = {}
ASSUME BoundsAssumption ==
    /\ MaxRetries \in Nat /\ MaxDeletions \in Nat
    /\ ChunkSize \in Nat /\ ChunkOverlap \in Nat /\ HeaderLength \in Nat
ASSUME NoneAssumption == None \notin Documents \cup Queries

VARIABLES
    stage,     \* the await each call is suspended in, or how it ended
    tries,     \* failed attempts of the embedding a call waits for
    document,  \* the document of an ingestion
    passages,  \* what it was cut into
    pending,   \* rows of its open transaction
    table,     \* document_embeddings: chunks <<ingestion, index>>
    removed,   \* history: chunks that were deleted
    deletions,
    job,       \* embedding_ingestion_jobs: the status, "none" without a row
    announced, \* DOCUMENT_INGESTED events, by ingestion
    query,     \* the query of a search
    found,     \* the hits a search has ranked
    audits,    \* vector_retrieval_audit: the hits each search has ranked
    answer     \* the chunks a search handed out
vars == <<stage, tries, document, passages, pending, table, removed, deletions, job, announced,
          query, found, audits, answer>>
ingestVars == <<document, passages, pending, job, announced>>
indexVars == <<table, removed, deletions>>
searchVars == <<query, found, audits, answer>>

Ended == {"answered", "failed"}
Stages == {"idle", "opening", "embedding", "inserting", "committing", "completing", "closing",
           "announcing", "searching", "auditing"} \cup Ended

Init ==
    /\ stage = [c \in Ingestions \cup Searches |-> "idle"]
    /\ tries = [c \in Ingestions \cup Searches |-> 0]
    /\ document = [i \in Ingestions |-> None]
    /\ passages = [i \in Ingestions |-> << >>]
    /\ pending = [i \in Ingestions |-> {}]
    /\ table = {} /\ removed = {} /\ deletions = 0
    /\ job = [i \in Ingestions |-> "none"]
    /\ announced = {}
    /\ query = [s \in Searches |-> None]
    /\ found = [s \in Searches |-> << >>]
    /\ audits = {}
    /\ answer = [s \in Searches |-> << >>]

Goto(c, s) == stage' = [stage EXCEPT ![c] = s]

\* The k-th chunk of a document: its segment, after the tail of the segment before
\* and a blank line.  A token is four characters, those of the header count as well.
Passage(text, segments, k) ==
    LET carried == IF k = 1 \/ ChunkOverlap = 0 THEN << >>
                   ELSE LastPieces(text, segments[k - 1], ChunkOverlap)
        before  == IF carried = << >> THEN 0 ELSE SegmentLength(text, segments[k - 1])
        tail    == IF before > ChunkOverlap THEN ChunkOverlap ELSE before
        length  == SegmentLength(text, segments[k]) + IF carried = << >> THEN 0 ELSE tail + 2
    IN  [units |-> segments[k], carried |-> carried, length |-> length,
         score |-> SegmentScore(text, carried \o segments[k]),
         tokens |-> (HeaderLength + length + 3) \div 4]
Cut(doc) ==
    LET segments == Segments(doc.text, ChunkSize)
    IN  [k \in DOMAIN segments |-> Passage(doc.text, segments, k)]

Chunks(i) == {i} \X DOMAIN passages[i]

-----------------------------------------------------------------------------
(* ingestDocument.                                                          *)

Index(i) ==
    /\ stage[i] = "idle"
    /\ \E doc \in Documents : /\ document' = [document EXCEPT ![i] = doc]
                              /\ passages' = [passages EXCEPT ![i] = Cut(doc)]
    /\ Goto(i, "opening")
    /\ UNCHANGED <<tries, pending, job, announced, indexVars, searchVars>>

CreateIngestionJob(i) ==
    /\ stage[i] = "opening"
    /\ \/ job' = [job EXCEPT ![i] = "processing"] /\ Goto(i, "embedding")
       \/ \E row \in {"none", "processing"} : job' = [job EXCEPT ![i] = row] /\ Goto(i, "failed")
    /\ UNCHANGED <<tries, document, passages, pending, announced, indexVars, searchVars>>

\* The chunks are embedded (as one batch here), or the query.
Embedded(c) ==
    /\ stage[c] = "embedding"
    /\ Goto(c, IF c \in Ingestions THEN "inserting" ELSE "searching")
    /\ tries' = [tries EXCEPT ![c] = 0]
    /\ UNCHANGED <<ingestVars, indexVars, searchVars>>

\* Mutant: the provider is asked until it answers.
EmbeddingFailsForever(c) ==
    /\ stage[c] = "embedding"
    /\ tries' = [tries EXCEPT ![c] = (@ + 1) % (MaxRetries + 1)]
    /\ UNCHANGED <<stage, ingestVars, indexVars, searchVars>>
\* A search for an analysis gives up its context, any other call fails.
GivesUp(c) ==
    IF c \in Ingestions THEN "closing"
    ELSE IF query[c].enrich THEN "answered" ELSE "failed"
EmbeddingFails(c) ==
    /\ stage[c] = "embedding"
    /\ \/ tries[c] < MaxRetries /\ tries' = [tries EXCEPT ![c] = @ + 1] /\ UNCHANGED stage
       \/ tries[c] = MaxRetries /\ Goto(c, GivesUp(c)) /\ tries' = [tries EXCEPT ![c] = 0]
    /\ UNCHANGED <<ingestVars, indexVars, searchVars>>

Inserted(i) == <<i, Cardinality(pending[i]) + 1>>

\* One INSERT in the transaction; an error rolls it back.
InsertChunk(i) ==
    /\ stage[i] = "inserting"
    /\ \/ /\ pending' = [pending EXCEPT ![i] = @ \cup {Inserted(i)}]
          /\ Goto(i, IF pending'[i] = Chunks(i) THEN "committing" ELSE "inserting")
       \/ pending' = [pending EXCEPT ![i] = {}] /\ Goto(i, "closing")
    /\ UNCHANGED <<tries, document, passages, job, announced, indexVars, searchVars>>

\* Mutant: the commit is not awaited.
CommitUnawaited(i) ==
    /\ stage[i] = "committing"
    /\ table' \in {table, table \cup pending[i]}
    /\ Goto(i, "completing")
    /\ pending' = [pending EXCEPT ![i] = {}]
    /\ UNCHANGED <<tries, document, passages, job, announced, removed, deletions, searchVars>>
\* A COMMIT whose answer is lost is taken for a failure.
CommitChunks(i) ==
    /\ stage[i] = "committing"
    /\ \/ table' = table \cup pending[i] /\ Goto(i, "completing")
       \/ table' \in {table, table \cup pending[i]} /\ Goto(i, "closing")
    /\ pending' = [pending EXCEPT ![i] = {}]
    /\ UNCHANGED <<tries, document, passages, job, announced, removed, deletions, searchVars>>

\* completeIngestionJob after the chunks were stored, and after a failure.
CompleteIngestionJob(i) ==
    /\ stage[i] = "completing"
    /\ \/ job' = [job EXCEPT ![i] = "completed"] /\ Goto(i, "announcing")
       \/ \E row \in {job[i], "completed"} : job' = [job EXCEPT ![i] = row] /\ Goto(i, "failed")
    /\ UNCHANGED <<tries, document, passages, pending, announced, indexVars, searchVars>>

FailIngestionJob(i) ==
    /\ stage[i] = "closing"
    /\ \E row \in {job[i], "failed"} : job' = [job EXCEPT ![i] = row]
    /\ Goto(i, "failed")
    /\ UNCHANGED <<tries, document, passages, pending, announced, indexVars, searchVars>>

PublishIngested(i) ==
    /\ stage[i] = "announcing"
    /\ \/ announced' = announced \cup {i} /\ Goto(i, "answered")
       \/ announced' \in {announced, announced \cup {i}} /\ Goto(i, "failed")
    /\ UNCHANGED <<tries, document, passages, pending, job, indexVars, searchVars>>

\* The process stops: its transaction is rolled back, its job is left as it is.
CallDies(c) ==
    /\ stage[c] \notin Ended \cup {"idle"}
    /\ Goto(c, "failed")
    /\ tries' = [tries EXCEPT ![c] = 0]
    /\ pending' = IF c \in Ingestions THEN [pending EXCEPT ![c] = {}] ELSE pending
    /\ UNCHANGED <<document, passages, job, announced, indexVars, searchVars>>

-----------------------------------------------------------------------------
(* deleteChunks: one statement.  An empty list of ids is no condition.      *)

Concerns(request, chunk) ==
    LET doc == document[chunk[1]]
    IN  /\ doc.tenant = request.tenant
        /\ request.ids \in {None, {}} \/ chunk \in request.ids
        /\ request.source \in {None, doc.source}
        /\ request.type \in {None, doc.type}

DeleteRequests ==
    {request \in {[d EXCEPT !.ids = ids] : d \in Deletions,
                    ids \in {None, {}} \cup {{chunk} : chunk \in table}} :
       ~(request.ids = None /\ request.source = None /\ request.type = None)}

DeleteChunks ==
    /\ deletions < MaxDeletions
    /\ deletions' = deletions + 1
    /\ \E request \in DeleteRequests :
          LET gone == {chunk \in table : Concerns(request, chunk)}
          IN  table' = table \ gone /\ removed' = removed \cup gone
    /\ UNCHANGED <<stage, tries, ingestVars, searchVars>>

-----------------------------------------------------------------------------
(* search and assembleRAGContext.                                           *)

Search(s) ==
    /\ stage[s] = "idle"
    /\ \E q \in Queries : query' = [query EXCEPT ![s] = q]
    /\ Goto(s, "embedding")
    /\ UNCHANGED <<tries, found, audits, answer, ingestVars, indexVars>>

Hit(chunk) == [id |-> chunk, source |-> document[chunk[1]].source, index |-> chunk[2],
               score |-> passages[chunk[1]][chunk[2]].score,
               tokens |-> passages[chunk[1]][chunk[2]].tokens]

Matches(q, chunk) ==
    /\ document[chunk[1]].tenant = q.tenant
    /\ q.types = {} \/ document[chunk[1]].type \in q.types
    /\ Hit(chunk).score > q.threshold

Turns == {turn \in [Ingestions -> 1 .. Cardinality(Ingestions)] :
            \A i, j \in Ingestions : turn[i] = turn[j] => i = j}

\* The hits of a query: of the rows that match, those the probed lists of the
\* approximate index hold, best first, up to topK.  Of rows that score alike those of
\* one ingestion come before those of another, in the order of turn.
Hits(q, probed, turn) ==
    LET above(c, d) == LET x == Hit(c).score  y == Hit(d).score
                       IN  \/ x > y
                           \/ x = y /\ turn[c[1]] < turn[d[1]]
                           \/ x = y /\ c[1] = d[1] /\ c[2] < d[2]
        rows == InOrder(probed, above)
    IN  [n \in 1 .. IF Len(rows) < q.topK THEN Len(rows) ELSE q.topK |-> Hit(rows[n])]

SemanticSearch(s) ==
    /\ stage[s] = "searching"
    /\ \/ /\ \E probed \in SUBSET {chunk \in table : Matches(query[s], chunk)}, turn \in Turns :
                found' = [found EXCEPT ![s] =
                             RankChunks(DeduplicateChunks(Hits(query[s], probed, turn)))]
          /\ Goto(s, "auditing")
       \/ Goto(s, GivesUp(s)) /\ UNCHANGED found
    /\ UNCHANGED <<tries, query, audits, answer, ingestVars, indexVars>>

AuditRow(s) == [search |-> s, chunks |-> found[s]]

Handed(s) == IF query[s].enrich THEN AssembleContext(found[s], query[s].budget) ELSE found[s]

\* An analysis goes on with the context, a client waits for the event.
WriteRetrievalAudit(s) ==
    /\ stage[s] = "auditing"
    /\ \/ /\ audits' = audits \cup {AuditRow(s)}
          /\ answer' = IF query[s].enrich THEN [answer EXCEPT ![s] = Handed(s)] ELSE answer
          /\ Goto(s, IF query[s].enrich THEN "answered" ELSE "announcing")
       \/ /\ audits' \in {audits, audits \cup {AuditRow(s)}}
          /\ Goto(s, GivesUp(s))
          /\ UNCHANGED answer
    /\ UNCHANGED <<tries, query, found, ingestVars, indexVars>>

PublishRetrieval(s) ==
    /\ stage[s] = "announcing"
    /\ \/ answer' = [answer EXCEPT ![s] = Handed(s)] /\ Goto(s, "answered")
       \/ Goto(s, "failed") /\ UNCHANGED answer
    /\ UNCHANGED <<tries, query, found, audits, ingestVars, indexVars>>

-----------------------------------------------------------------------------
Embed(c) == Embedded(c) \/ EmbeddingFails(c)
Ingest(i) ==
    \/ CreateIngestionJob(i) \/ Embed(i) \/ InsertChunk(i) \/ CommitChunks(i)
    \/ CompleteIngestionJob(i) \/ FailIngestionJob(i) \/ PublishIngested(i)
Retrieve(s) == Embed(s) \/ SemanticSearch(s) \/ WriteRetrievalAudit(s) \/ PublishRetrieval(s)

Next ==
    \/ \E i \in Ingestions : Index(i) \/ Ingest(i) \/ CallDies(i)
    \/ \E s \in Searches : Search(s) \/ Retrieve(s) \/ CallDies(s)
    \/ DeleteChunks

Spec == Init /\ [][Next]_vars

\* Embeddings, queries and publications end, with an answer or an error.
FairSpec ==
    /\ Spec
    /\ \A i \in Ingestions : WF_vars(Ingest(i))
    /\ \A s \in Searches : WF_vars(Retrieve(s))

-----------------------------------------------------------------------------
(* Properties.                                                              *)

Written == table \cup removed

\* A call is in one of its awaits, and what it works on is kept under its name.
TypeOK ==
    /\ stage \in [Ingestions \cup Searches -> Stages]
    /\ DOMAIN pending = Ingestions /\ DOMAIN passages = Ingestions /\ DOMAIN job = Ingestions
    /\ DOMAIN found = Searches /\ DOMAIN answer = Searches

\* A document is in the index with all its chunks or not at all, deletions aside,
\* wherever its ingestion fails or stops.
DocumentsAreWhole ==
    \A i \in Ingestions : {chunk \in Written : chunk[1] = i} \in {{}, Chunks(i)}

\* A completed job has stored its document, as the client that was answered and
\* the readers of the event are told, though they may hear nothing of a document
\* that is stored.
JobsTellTheTruth ==
    \A i \in Ingestions :
       /\ job[i] = "completed" => Chunks(i) \subseteq Written
       /\ i \in announced \/ stage[i] = "answered" => job[i] = "completed"

\* No chunk reaches a client or an analysis that the audit record of its search
\* does not name.
AnswersAreAudited ==
    \A s \in Searches : answer[s] # << >> =>
       \E row \in audits :
          /\ row.search = s
          /\ \A n \in DOMAIN answer[s] : \E m \in DOMAIN row.chunks : row.chunks[m] = answer[s][n]

\* Of a document that was ingested again, after an error or in a new version, no
\* position is handed out in two versions (though different positions may come from
\* different versions); and what is handed out was asked for, fits, and is in the
\* order of the scores within each source.
AnswersAreSound ==
    \A s \in Searches : answer[s] # << >> =>
       LET q == query[s]  a == answer[s]
       IN  /\ Len(a) <= q.topK
           /\ q.enrich => Total([n \in DOMAIN a |-> a[n].tokens]) <= q.budget
           /\ \A n \in DOMAIN a : a[n].id \in Written /\ Matches(q, a[n].id)
           /\ \A n, m \in DOMAIN a : n < m =>
                 /\ Key(a[n]) # Key(a[m])
                 /\ a[n].source = a[m].source => a[n].score >= a[m].score

\* Of a paragraph longer than a chunk the sentences are kept, of another all.
Kept(text, i) ==
    IF Length(text[i]) > ChunkSize THEN SplitUnits(i, text[i]) ELSE Units(i, text[i])

Ends(segment) == {SubSeq(segment, n, Len(segment)) : n \in DOMAIN segment}

\* A chunk begins with an end of the segment of the chunk before it, if there is one
\* and chunks are to overlap, and with nothing else that was said before.
Continues(cut, k) ==
    IF k = 1 \/ ChunkOverlap = 0 THEN cut[k].carried = << >>
    ELSE cut[k].carried \in Ends(cut[k - 1].units)

\* Apart from what chunkDocument repeats on purpose, the end of the chunk before, the
\* chunks say in the order of the text, once, all that it says, but for what is no
\* sentence in a paragraph longer than a chunk: stops that stand alone and what follows
\* the last one.  Unless a single sentence is longer, a chunk exceeds chunkSize only by
\* the overlap and the blank line after it.
NothingIsSkipped ==
    \A i \in Ingestions : document[i] # None =>
       LET text == document[i].text
           cut == passages[i]
       IN  /\ FlattenSeq([k \in DOMAIN cut |-> cut[k].units])
                 = FlattenSeq([p \in DOMAIN text |-> Kept(text, p)])
           /\ \A k \in DOMAIN cut :
                 /\ Continues(cut, k)
                 /\ Len(cut[k].units) = 1 \/ cut[k].length <= ChunkSize + ChunkOverlap + 2

\* A call that was received is answered or fails, however often the provider of
\* its embeddings refuses.
CallsEnd == \A c \in Ingestions \cup Searches : stage[c] = "embedding" ~> stage[c] \in Ended
=============================================================================
