------------------------ MODULE DecisionPipeline_proofs ------------------------
(* Proofs about DecisionPipeline, for any number of calls and any requests,  *)
(* policies and assessments, whatever the scores come to: the order in which *)
(* a decision is analysed, stored, audited and announced.                    *)
EXTENDS DecisionPipeline, FiniteSetTheorems, TLAPS

Deciding == {"idle", "retrieving", "evaluating", "reasoning"}
Recorded == {"auditing", "publishing", "completing", "answered"}

\* The analysis a call goes on with is the fallback, or was stored before the
\* service replied and is not replaced.
Sound(c) ==
    /\ job[c] = "stored" => analysed[c].recommendation \in Recommendations
    /\ stage[c] = "saving" \/ Decided(c) =>
          \/ evidence[c].ai = EscalateFallback
          \/ job[c] = "done" /\ evidence[c].ai = analysed[c]

Kept(c) ==
    /\ stage[c] \in Deciding \cup {"saving"} => ~Decided(c)
    /\ stage[c] \in Recorded => Decided(c)
    /\ Decided(c) => rows[c] = Row(c)
    /\ c \in audited => Decided(c)
    /\ stage[c] \in {"completing", "answered"} => Event(c) \in decided
    /\ stage[c] = "answered" => Event(c) \in completed

Told ==
    /\ completed \subseteq decided
    /\ \A event \in decided :
          \E c \in Calls : event = Event(c) /\ Decided(c)

PipelineInv == TypeOK /\ Told /\ \A c \in Calls : Sound(c) /\ Kept(c)

-----------------------------------------------------------------------------
LEMMA AnalysesRecommend ==
    ASSUME NEW request, NEW ai \in Analyses(request)
    PROVE  ai.recommendation \in Recommendations
<1>1. CASE MockMode
    <2>1. ai = MockAnalysis(request) BY <1>1 DEF Analyses
    <2> QED BY <2>1 DEF MockAnalysis, Recommendations
<1>2. CASE ~MockMode
    BY <1>2, AssessmentsAssumption DEF Analyses, Analysis
<1> QED BY <1>1, <1>2

LEMMA FallbackRecommends == EscalateFallback.recommendation \in Recommendations
BY DEF EscalateFallback, Recommendations

\* Whatever is scored, the decision is one of the three.
LEMMA DecisionsAreThree ==
    ASSUME NEW e, e.ai.recommendation \in Recommendations
    PROVE  FinalDecision(e) \in Recommendations
BY DEF FinalDecision, Recommendations

LEMMA InitInv == ASSUME Init PROVE PipelineInv
<1>1. DOMAIN rows = {} BY DEF Init
<1>2. TypeOK
    BY <1>1 DEF Init, TypeOK, Stages, Recommendations, NoEvidence
<1>3. Told BY DEF Init, Told
<1>4. \A c \in Calls : Sound(c) /\ Kept(c)
    BY <1>1 DEF Init, Sound, Kept, Decided, Recorded
<1> QED BY <1>2, <1>3, <1>4 DEF PipelineInv

\* A step of a call leaves what the others have gathered and recorded alone.
LEMMA OtherCalls ==
    ASSUME PipelineInv, NEW c \in Calls,
           \A d \in Calls \ {c} : /\ stage'[d] = stage[d] /\ evidence'[d] = evidence[d]
                                  /\ verdict'[d] = verdict[d] /\ job'[d] = job[d]
                                  /\ analysed'[d] = analysed[d]
                                  /\ d \in DOMAIN rows' <=> d \in DOMAIN rows
                                  /\ d \in DOMAIN rows => rows'[d] = rows[d]
                                  /\ d \in audited' <=> d \in audited,
           decided \subseteq decided', completed \subseteq completed'
    PROVE  \A d \in Calls \ {c} : Sound(d)' /\ Kept(d)'
BY DEF PipelineInv, Sound, Kept, Decided, Row, Event

-----------------------------------------------------------------------------
(* Gathering evidence, and the analysis.                                     *)

\* The steps that record nothing.
LEMMA RecordsRest ==
    ASSUME PipelineInv, UNCHANGED <<rows, audited, decided, completed>>,
           \A c \in Calls : Decided(c) => UNCHANGED <<evidence[c], verdict[c]>>
    PROVE  Told' /\ DOMAIN rows' \subseteq Calls /\ audited' \subseteq Calls
           /\ \A c \in Calls : Decided(c)' <=> Decided(c)
BY DEF PipelineInv, Told, Event, Decided, TypeOK

LEMMA GatherStep ==
    ASSUME PipelineInv, NEW c \in Calls, Receive(c) \/ Retrieve(c) \/ EvaluatePolicies(c)
    PROVE  PipelineInv'
<1> USE DEF records
<1>1. TypeOK /\ Sound(c) /\ Kept(c) BY DEF PipelineInv
<1>2. stage[c] \in Deciding /\ ~Decided(c)
    BY <1>1 DEF Receive, Retrieve, EvaluatePolicies, Deciding, Kept
<1>3. /\ UNCHANGED <<verdict, analysed, rows, audited, decided, completed>>
      /\ DOMAIN evidence' = Calls /\ DOMAIN job' = Calls
      /\ \A d \in Calls \ {c} : evidence'[d] = evidence[d] /\ job'[d] = job[d]
      /\ DOMAIN evidence'[c] = DOMAIN evidence[c]
      /\ job'[c] \in {job[c], "analysing"}
    BY <1>1 DEF Receive, Retrieve, EvaluatePolicies, TypeOK
<1>4. PICK s \in {"retrieving", "evaluating", "reasoning"} : Goto(c, s)
    BY DEF Receive, Retrieve, EvaluatePolicies
<1>5. /\ stage' \in [Calls -> Stages] /\ stage'[c] = s
      /\ \A d \in Calls \ {c} : stage'[d] = stage[d]
    BY <1>1, <1>4 DEF TypeOK, Goto, Stages
<1>6. Told' /\ DOMAIN rows' \subseteq Calls /\ audited' \subseteq Calls /\ ~Decided(c)'
    BY <1>2, <1>3, RecordsRest
<1>7. TypeOK' BY <1>1, <1>3, <1>5, <1>6 DEF TypeOK
<1>8. \A d \in Calls \ {c} : Sound(d)' /\ Kept(d)'
    BY <1>3, <1>5, OtherCalls
<1>9. Sound(c)' /\ Kept(c)'
    BY <1>1, <1>2, <1>3, <1>5, <1>6 DEF Sound, Kept, Recorded, Decided
<1> QED BY <1>6, <1>7, <1>8, <1>9 DEF PipelineInv

\* The call goes on with the fallback or with what was stored.
LEMMA ConcludeStep ==
    ASSUME PipelineInv, NEW c \in Calls, NEW ai, stage[c] = "reasoning", Conclude(c, ai),
           ai.recommendation \in Recommendations,
           \/ ai = EscalateFallback /\ job' = job
           \/ job' = [job EXCEPT ![c] = "done"] /\ ai = analysed[c],
           UNCHANGED <<analysed, rows, audited, decided, completed>>
    PROVE  PipelineInv'
<1>1. TypeOK /\ Sound(c) /\ Kept(c) BY DEF PipelineInv
<1>2. ~Decided(c) BY <1>1 DEF Kept, Deciding
<1>3. /\ evidence' = [evidence EXCEPT ![c].ai = ai] /\ evidence'[c].ai = ai
      /\ DOMAIN evidence' = Calls /\ DOMAIN evidence'[c] = DOMAIN evidence[c]
      /\ \A d \in Calls \ {c} : evidence'[d] = evidence[d]
    BY <1>1 DEF Conclude, TypeOK
<1>4. /\ verdict' \in [Calls -> Recommendations]
      /\ \A d \in Calls \ {c} : verdict'[d] = verdict[d]
    <2>1. [evidence[c] EXCEPT !.ai = ai].ai = ai BY <1>1 DEF TypeOK
    <2>2. FinalDecision([evidence[c] EXCEPT !.ai = ai]) \in Recommendations
        BY <2>1, DecisionsAreThree
    <2> QED BY <1>1, <2>2 DEF Conclude, TypeOK
<1>5. /\ stage' \in [Calls -> Stages] /\ stage'[c] = "saving"
      /\ \A d \in Calls \ {c} : stage'[d] = stage[d]
    BY <1>1 DEF TypeOK, Conclude, Goto, Stages
<1>6. /\ DOMAIN job' = Calls /\ \A d \in Calls \ {c} : job'[d] = job[d]
      /\ job'[c] \in {job[c], "done"}
    BY <1>1 DEF TypeOK
<1>7. Told' /\ DOMAIN rows' \subseteq Calls /\ audited' \subseteq Calls /\ ~Decided(c)'
    BY <1>2, <1>3, <1>4, RecordsRest
<1>8. TypeOK' BY <1>1, <1>3, <1>4, <1>5, <1>6, <1>7 DEF TypeOK
<1>9. \A d \in Calls \ {c} : Sound(d)' /\ Kept(d)'
    BY <1>3, <1>4, <1>5, <1>6, OtherCalls
<1>10. Kept(c)'
    BY <1>1, <1>5, <1>7 DEF Kept, Recorded, Decided
<1>11. Sound(c)'
    <2>1. job'[c] = "stored" => analysed'[c].recommendation \in Recommendations
        BY <1>1, <1>6 DEF Sound
    <2>2. evidence'[c].ai = EscalateFallback \/ (job'[c] = "done" /\ evidence'[c].ai = analysed'[c])
        BY <1>1, <1>3 DEF TypeOK
    <2> QED BY <2>1, <2>2 DEF Sound
<1> QED BY <1>7, <1>8, <1>9, <1>10, <1>11 DEF PipelineInv

LEMMA JobStep ==
    ASSUME PipelineInv, NEW c \in Calls, NEW j, j \in {"stored", "done"},
           job' = [job EXCEPT ![c] = j], job[c] # "done",
           UNCHANGED <<stage, evidence, verdict, rows, audited, decided, completed>>,
           DOMAIN analysed' = Calls, \A d \in Calls \ {c} : analysed'[d] = analysed[d],
           j = "stored" => analysed'[c].recommendation \in Recommendations
    PROVE  PipelineInv'
<1>1. TypeOK /\ Sound(c) /\ Kept(c) BY DEF PipelineInv
<1>2. /\ DOMAIN job' = Calls /\ job'[c] = j /\ \A d \in Calls \ {c} : job'[d] = job[d]
    BY <1>1 DEF TypeOK
<1>3. Told' BY RecordsRest
<1>4. TypeOK' BY <1>1, <1>2 DEF TypeOK
<1>5. \A d \in Calls \ {c} : Sound(d)' /\ Kept(d)'
    BY <1>2, OtherCalls
<1>6. Sound(c)' BY <1>1, <1>2 DEF Sound, Decided
<1>7. Kept(c)' BY <1>1 DEF Kept, Decided, Row, Event
<1> QED BY <1>3, <1>4, <1>5, <1>6, <1>7 DEF PipelineInv

LEMMA AiServiceStep == ASSUME PipelineInv, NEW c \in Calls, AiService(c) PROVE PipelineInv'
<1> USE DEF records
<1>1. TypeOK /\ Sound(c) BY DEF PipelineInv
<1>2. ASSUME Analyse(c) PROVE PipelineInv'
    <2>1. PICK ai \in Analyses(evidence[c].request) : analysed' = [analysed EXCEPT ![c] = ai]
        BY <1>2 DEF Analyse
    <2>2. /\ DOMAIN analysed' = Calls /\ analysed'[c].recommendation \in Recommendations
          /\ \A d \in Calls \ {c} : analysed'[d] = analysed[d]
        BY <1>1, <2>1, AnalysesRecommend DEF TypeOK
    <2> QED BY <1>2, <2>2, JobStep DEF Analyse
<1>3. ASSUME Reply(c) PROVE PipelineInv'
    <2>1. analysed[c].recommendation \in Recommendations BY <1>1, <1>3 DEF Sound, Reply
    <2>2. CASE stage[c] = "reasoning"
        <3>1. PICK ai : ai = analysed[c] OBVIOUS
        <3> QED BY <1>3, <2>1, <2>2, <3>1, ConcludeStep DEF Reply
    <2>3. CASE stage[c] # "reasoning"
        BY <1>1, <1>3, <2>3, JobStep DEF Reply, TypeOK
    <2> QED BY <2>2, <2>3
<1>4. ASSUME JobFails(c) PROVE PipelineInv'
    BY <1>1, <1>4, JobStep DEF JobFails, TypeOK
<1> QED BY <1>2, <1>3, <1>4 DEF AiService

-----------------------------------------------------------------------------
(* Recording the decision.                                                   *)

\* A step past the analysis: it keeps the evidence and the verdict.
LEMMA RecordStep ==
    ASSUME PipelineInv, NEW c \in Calls, NEW s, s \in Recorded \cup {"failed"}, Goto(c, s),
           stage[c] \in Running,
           UNCHANGED <<evidence, verdict, job, analysed>>,
           rows' = rows \/ (Insert(c) /\ stage[c] = "saving"),
           s \in Recorded => Decided(c)',
           audited \subseteq audited', audited' \subseteq audited \cup {c},
           c \in audited' => Decided(c)',
           decided \subseteq decided', decided' \subseteq decided \cup {Event(c)},
           completed \subseteq completed', completed' \subseteq completed \cup {Event(c)},
           decided' # decided => Decided(c),
           s \in {"completing", "answered"} \/ completed' # completed => Event(c) \in decided',
           s = "answered" => Event(c) \in completed'
    PROVE  PipelineInv'
<1>1. TypeOK /\ Told /\ Sound(c) /\ Kept(c) BY DEF PipelineInv
<1>2. /\ stage' \in [Calls -> Stages] /\ stage'[c] = s
      /\ \A d \in Calls \ {c} : stage'[d] = stage[d]
    BY <1>1 DEF TypeOK, Goto, Stages, Recorded
<1>3. /\ DOMAIN rows' \subseteq Calls /\ DOMAIN rows \subseteq DOMAIN rows'
      /\ \A d \in Calls \ {c} : /\ d \in DOMAIN rows' <=> d \in DOMAIN rows
                                /\ d \in DOMAIN rows => rows'[d] = rows[d]
      /\ Decided(c)' => rows'[c] = Row(c)
      /\ Decided(c)' => Decided(c) \/ stage[c] = "saving"
    <2>1. CASE rows' = rows BY <1>1, <2>1 DEF TypeOK, Kept, Decided
    <2>2. CASE Insert(c) /\ stage[c] = "saving"
        BY <1>1, <2>2 DEF Insert, TypeOK, Decided
    <2> QED BY <2>1, <2>2
<1>4. TypeOK' BY <1>1, <1>2, <1>3 DEF TypeOK
<1>5. \A d \in Calls : Event(d)' = Event(d) /\ Row(d)' = Row(d)
    BY DEF Event, Row
<1>6. Told'
    BY <1>1, <1>3, <1>5 DEF Told, Decided
<1>7. \A d \in Calls \ {c} : Sound(d)' /\ Kept(d)'
    <2>1. \A d \in Calls \ {c} : d \in audited' <=> d \in audited
        OBVIOUS
    <2>2. \A d \in Calls \ {c} : /\ evidence'[d] = evidence[d] /\ verdict'[d] = verdict[d]
                                 /\ job'[d] = job[d] /\ analysed'[d] = analysed[d]
        OBVIOUS
    <2>3. decided \subseteq decided' /\ completed \subseteq completed'
        OBVIOUS
    <2> HIDE DEF Insert
    <2> QED BY <1>2, <1>3, <2>1, <2>2, <2>3, OtherCalls
<1>8. Sound(c)'
    BY <1>1, <1>2, <1>3 DEF Sound, Recorded
<1>9. Kept(c)'
    BY <1>2, <1>3, <1>5 DEF Kept, Deciding, Recorded
<1> QED BY <1>4, <1>6, <1>7, <1>8, <1>9 DEF PipelineInv

LEMMA PipelineStep ==
    ASSUME PipelineInv, NEW c \in Calls,
           Save(c) \/ EmitAudit(c) \/ PublishDecision(c) \/ PublishCompleted(c) \/ CallDies(c)
    PROVE  PipelineInv'
<1> USE DEF records
<1>1. TypeOK /\ Told /\ Kept(c) BY DEF PipelineInv
<1>2. ASSUME Save(c) PROVE PipelineInv'
    <2>1. PICK s \in {"auditing", "failed"} : Goto(c, s) /\ (rows' = rows \/ Insert(c))
                                              /\ (s = "auditing" => Insert(c))
        BY <1>2 DEF Save
    <2>2. s \in Recorded => Decided(c)'
        BY <2>1 DEF Recorded, Insert, Decided
    <2>3. stage[c] = "saving" /\ stage[c] \in Running /\ c \notin audited
        BY <1>1, <1>2 DEF Save, Running, Stages, Kept
    <2> QED BY <1>1, <1>2, <2>1, <2>2, <2>3, RecordStep DEF Save, Recorded
<1>3. ASSUME EmitAudit(c) PROVE PipelineInv'
    <2>1. Decided(c) /\ Decided(c)' BY <1>1, <1>3 DEF EmitAudit, Kept, Recorded, Decided
    <2>2. stage[c] \in Running BY <1>3 DEF EmitAudit, Running, Stages
    <2> QED BY <1>3, <2>1, <2>2, RecordStep DEF EmitAudit, Recorded
<1>4. ASSUME PublishDecision(c) PROVE PipelineInv'
    <2>1. Decided(c) /\ Decided(c)' BY <1>1, <1>4 DEF PublishDecision, Kept, Recorded, Decided
    <2>2. stage[c] \in Running BY <1>4 DEF PublishDecision, Running, Stages
    <2>3. PICK s \in {"completing", "failed"} : Goto(c, s) /\ (s = "completing" => Event(c) \in decided')
        BY <1>4 DEF PublishDecision
    <2>4. decided \subseteq decided' /\ decided' \subseteq decided \cup {Event(c)}
        BY <1>4 DEF PublishDecision
    <2> QED BY <1>4, <2>1, <2>2, <2>3, <2>4, RecordStep DEF PublishDecision, Recorded
<1>5. ASSUME PublishCompleted(c) PROVE PipelineInv'
    <2>1. Decided(c) /\ Decided(c)' /\ Event(c) \in decided
        BY <1>1, <1>5 DEF PublishCompleted, Kept, Recorded, Decided
    <2>2. stage[c] \in Running BY <1>5 DEF PublishCompleted, Running, Stages
    <2>3. PICK s \in {"answered", "failed"} : Goto(c, s) /\ (s = "answered" => Event(c) \in completed')
        BY <1>5 DEF PublishCompleted
    <2>4. completed \subseteq completed' /\ completed' \subseteq completed \cup {Event(c)}
        BY <1>5 DEF PublishCompleted
    <2> QED BY <1>5, <2>1, <2>2, <2>3, <2>4, RecordStep DEF PublishCompleted, Recorded
<1>6. ASSUME CallDies(c) PROVE PipelineInv'
    BY <1>1, <1>6, RecordStep DEF CallDies, Recorded, Kept, Decided
<1> QED BY <1>2, <1>3, <1>4, <1>5, <1>6

LEMMA InvariantStep == ASSUME PipelineInv, [Next]_vars PROVE PipelineInv'
<1>1. CASE UNCHANGED vars
    BY <1>1 DEF vars, PipelineInv, TypeOK, Told, Sound, Kept, Decided, Row, Event
<1>2. ASSUME NEW c \in Calls, Fallback(c) PROVE PipelineInv'
    <2>1. PICK ai : ai = EscalateFallback OBVIOUS
    <2> QED BY <1>2, <2>1, FallbackRecommends, ConcludeStep DEF Fallback, records
<1> QED BY <1>1, <1>2, GatherStep, AiServiceStep, PipelineStep DEF Next, Pipeline

-----------------------------------------------------------------------------
\* The inductive invariant of the pipeline.
THEOREM PipelineInvariance == Spec => []PipelineInv
BY InitInv, InvariantStep, PTL DEF Spec

\* Whatever fails, a call is in one of its awaits, its verdict is one of the three, and
\* only calls have rows and audit records.
THEOREM PipelineTypes == Spec => []TypeOK
<1>1. PipelineInv => TypeOK BY DEF PipelineInv
<1> QED BY <1>1, PipelineInvariance, PTL

\* Decisions are audited and published as they were stored, and a caller is answered
\* only when both topics have the event.
THEOREM AnnouncementsAreStored == Spec => []AnnouncedIsStored
<1>1. ASSUME PipelineInv PROVE AnnouncedIsStored
    <2>1. TypeOK /\ Told BY <1>1 DEF PipelineInv
    <2>2. audited \subseteq {c \in Calls : Decided(c)}
        BY <1>1 DEF PipelineInv, TypeOK, Kept
    <2>3. \A event \in decided : Decided(event.id) /\ rows[event.id].decision = event.decision
        <3> SUFFICES ASSUME NEW c \in Calls, Decided(c)
                     PROVE Decided(Event(c).id) /\ rows[Event(c).id].decision = Event(c).decision
            BY <2>1 DEF Told
        <3>1. Event(c).id = c /\ Event(c).decision = verdict[c] BY DEF Event
        <3>2. rows[c] = Row(c) /\ Row(c).decision = verdict[c] BY <1>1 DEF PipelineInv, Kept, Row
        <3> QED BY <3>1, <3>2
    <2>4. \A c \in Calls : stage[c] = "answered" => Event(c) \in completed
        BY <1>1 DEF PipelineInv, Kept
    <2> QED BY <2>1, <2>2, <2>3, <2>4 DEF AnnouncedIsStored, Told
<1> QED BY <1>1, PipelineInvariance, PTL

\* A stored decision rests on the fallback or on the analysis in ai_decisions, even
\* when the service and its caller give up on each other.
THEOREM AnalysesAreOnRecord == Spec => []AnalysisIsOnRecord
<1>1. ASSUME PipelineInv PROVE AnalysisIsOnRecord
    <2> SUFFICES ASSUME NEW c \in Calls, Decided(c)
                 PROVE rows[c].evidence.ai \in {EscalateFallback, analysed[c]}
        BY DEF AnalysisIsOnRecord
    <2>1. rows[c] = Row(c) /\ evidence[c].ai \in {EscalateFallback, analysed[c]}
        BY <1>1 DEF PipelineInv, Kept, Sound
    <2> QED BY <2>1 DEF Row
<1> QED BY <1>1, PipelineInvariance, PTL

-----------------------------------------------------------------------------
(* The pipeline keeps the promise of a run.                                  *)

LEMMA InitRefines == Init => Run!Init
<1> SUFFICES ASSUME Init PROVE Run!Init
    OBVIOUS
<1>1. DOMAIN rows = {} BY DEF Init
<1>2. Stored = Nothing BY <1>1 DEF Stored, Decided
<1>3. Announced = {} BY DEF Init, Announced
<1> QED BY <1>2, <1>3, WatchedAssumption DEF Init, Run!Init, Phase

\* What the run of the watched call sees of a step of another one.
LEMMA StepsOfOthers ==
    ASSUME PipelineInv, NEW c \in Calls \ {Watched},
           stage'[Watched] = stage[Watched], verdict'[Watched] = verdict[Watched],
           \/ rows' = rows
           \/ Insert(c),
           decided' \in {decided, decided \cup {Event(c)}},
           completed' \in {completed, completed \cup {Event(c)}}
    PROVE  UNCHANGED Run!vars
<1>1. Stored' = Stored
    <2>1. /\ Watched \in DOMAIN rows' <=> Watched \in DOMAIN rows
          /\ Watched \in DOMAIN rows => rows'[Watched] = rows[Watched]
        BY DEF Insert
    <2> QED BY <2>1 DEF Stored, Decided
<1>2. Announced' = Announced
    <2>1. Event(c).id # Watched BY DEF Event
    <2> QED BY <2>1 DEF Announced
<1> QED BY <1>1, <1>2 DEF Run!vars, Phase

\* The verdict of the watched call is settled at its conclusion, stored once, and
\* announced as stored.
LEMMA StepsOfWatched ==
    ASSUME PipelineInv, NEW c, c = Watched, Pipeline(c) \/ Receive(c) \/ AiService(c) \/ CallDies(c),
           Kept(c)'
    PROVE  [Run!Next]_(Run!vars)
<1> USE DEF records
<1>1. c \in Calls /\ TypeOK /\ Told /\ Kept(c) BY WatchedAssumption DEF PipelineInv
<1>2. \A s : Goto(c, s) => stage'[c] = s
    BY <1>1 DEF Goto, TypeOK
<1>3. \A event \in decided \cup completed : event.id = c => event.decision = verdict[c] /\ Decided(c)
    BY <1>1 DEF Told, Event
<1>4. ASSUME UNCHANGED <<rows, decided, completed>>
      PROVE  Stored' = Stored /\ Announced' = Announced
    BY <1>4 DEF Stored, Decided, Announced
<1>5. ASSUME Receive(c) \/ Retrieve(c) \/ EvaluatePolicies(c) PROVE UNCHANGED Run!vars
    BY <1>1, <1>2, <1>4, <1>5 DEF Receive, Retrieve, EvaluatePolicies, Phase, Run!vars
<1>6. ASSUME NEW ai, stage[c] = "reasoning", Conclude(c, ai), ai.recommendation \in Recommendations,
             UNCHANGED <<rows, decided, completed>>
      PROVE  Run!Deliberate
    <2>1. [evidence[c] EXCEPT !.ai = ai].ai = ai BY <1>1 DEF TypeOK
    <2>2. verdict'[c] \in Recommendations
        BY <1>1, <1>6, <2>1, DecisionsAreThree DEF Conclude, TypeOK
    <2> QED BY <1>2, <1>4, <1>6, <2>2 DEF Conclude, Phase, Run!Deliberate, Run!Automatic, Recommendations
<1>7. ASSUME Fallback(c) PROVE Run!Deliberate
    <2>1. PICK ai : ai = EscalateFallback OBVIOUS
    <2> QED BY <1>6, <1>7, <2>1, FallbackRecommends DEF Fallback
<1>8. ASSUME AiService(c) PROVE Run!Deliberate \/ UNCHANGED Run!vars
    <2>1. CASE stage[c] = "reasoning" /\ Reply(c)
        <3>1. analysed[c].recommendation \in Recommendations
            BY <1>1, <2>1 DEF PipelineInv, Sound, Reply
        <3>2. PICK ai : ai = analysed[c] OBVIOUS
        <3> QED BY <1>6, <2>1, <3>1, <3>2 DEF Reply
    <2>2. CASE UNCHANGED <<stage, verdict, rows, decided, completed>>
        BY <1>4, <2>2 DEF Run!vars, Phase
    <2> QED BY <1>8, <2>1, <2>2 DEF AiService, Analyse, Reply, JobFails
<1>9. ASSUME CallDies(c) PROVE Run!Stop
    BY <1>2, <1>4, <1>9 DEF CallDies, Phase, Run!Stop, Running
<1>10. ASSUME Save(c) PROVE Run!Store \/ Run!Stop
    <2>1. Phase = "settled" /\ Phase' \in {"settled", "stopped"} /\ verdict' = verdict /\ Stored = Nothing
        BY <1>1, <1>2, <1>10 DEF Save, Phase, Kept, Stored
    <2>2. Announced' = Announced BY <1>10 DEF Save, Announced
    <2>3. CASE rows' = rows /\ Goto(c, "failed")
        BY <1>2, <2>1, <2>2, <2>3 DEF Phase, Stored, Decided, Run!Stop
    <2>4. CASE Insert(c)
        <3>1. Stored' = verdict[c] BY <1>10, <2>4 DEF Insert, Stored, Decided, Row
        <3> QED BY <2>1, <2>2, <3>1 DEF Run!Store
    <2> QED BY <1>10, <2>3, <2>4 DEF Save
<1>11. ASSUME EmitAudit(c) PROVE UNCHANGED Run!vars
    BY <1>2, <1>4, <1>11 DEF EmitAudit, Phase, Run!vars
<1>12. ASSUME PublishDecision(c) \/ PublishCompleted(c) PROVE Run!Announce \/ Run!Stop \/ UNCHANGED Run!vars
    <2>1. /\ Phase = "settled" /\ Phase' \in {"settled", "stopped"} /\ verdict' = verdict /\ rows' = rows
          /\ Phase' = "settled" => Announced' # Announced \/ UNCHANGED Phase
        BY <1>2, <1>12 DEF PublishDecision, PublishCompleted, Phase
    <2>2. Stored = verdict[c] /\ Stored' = Stored
        BY <1>1, <1>12, <2>1 DEF PublishDecision, PublishCompleted, Kept, Recorded, Stored, Decided, Row
    <2>3. decided' \cup completed' \in {decided \cup completed, decided \cup completed \cup {Event(c)}}
        BY <1>12 DEF PublishDecision, PublishCompleted
    <2>4. Event(c).id = c /\ Event(c).decision = verdict[c] BY DEF Event
    <2>5. CASE decided' \cup completed' = decided \cup completed
        <3>1. Announced' = Announced BY <2>5 DEF Announced
        <3> QED BY <2>1, <2>2, <3>1 DEF Run!Stop, Run!vars
    <2>6. CASE decided' \cup completed' = decided \cup completed \cup {Event(c)}
        <3>1. Announced' = {verdict[c]} BY <1>3, <2>4, <2>6 DEF Announced
        <3> QED BY <2>1, <2>2, <3>1 DEF Run!Announce
    <2> QED BY <2>3, <2>5, <2>6
<1> QED BY <1>5, <1>7, <1>8, <1>9, <1>10, <1>11, <1>12 DEF Pipeline, Run!Next

LEMMA NextRefines == ASSUME PipelineInv, PipelineInv', [Next]_vars PROVE [Run!Next]_(Run!vars)
<1>1. CASE UNCHANGED vars
    BY <1>1 DEF vars, Run!vars, Phase, Stored, Decided, Announced
<1>2. ASSUME NEW c \in Calls, Pipeline(c) \/ Receive(c) \/ AiService(c) \/ CallDies(c)
      PROVE  [Run!Next]_(Run!vars)
    <2>1. CASE c = Watched
        BY <1>2, <2>1, StepsOfWatched DEF PipelineInv
    <2>2. CASE c # Watched
        <3>1. stage'[Watched] = stage[Watched] /\ verdict'[Watched] = verdict[Watched]
            BY <1>2, <2>2, WatchedAssumption
               DEF PipelineInv, TypeOK, Pipeline, Receive, Retrieve, EvaluatePolicies, Fallback, Conclude,
                   AiService, Analyse, Reply, JobFails, Save, EmitAudit, PublishDecision,
                   PublishCompleted, CallDies, Goto, records
        <3>2. (rows' = rows \/ Insert(c)) /\ decided' \in {decided, decided \cup {Event(c)}}
                /\ completed' \in {completed, completed \cup {Event(c)}}
            BY <1>2 DEF Pipeline, Receive, Retrieve, EvaluatePolicies, Fallback,
                   AiService, Analyse, Reply, JobFails, Save, EmitAudit, PublishDecision,
                   PublishCompleted, CallDies, records
        <3> QED BY <2>2, <3>1, <3>2, StepsOfOthers
    <2> QED BY <2>1, <2>2
<1> QED BY <1>1, <1>2 DEF Next

\* Each synchronous decision keeps the promise of DecisionRun, the one the durable
\* workflow keeps too: one verdict, stored at most once, and announced as stored.
THEOREM PipelineRefinesRun == Spec => RunSpec
BY InitRefines, NextRefines, PipelineInvariance, PTL DEF Spec, RunSpec, Run!Spec

-----------------------------------------------------------------------------
(* What a decision was computed from.                                        *)

Answers == [Paths -> Evaluations \cup {OpaUnavailable, Unavailable}]

Judged(c) ==
    /\ stage[c] \in {"retrieving", "evaluating", "reasoning", "saving"} \/ Decided(c) =>
          evidence[c].request \in Requests
    /\ stage[c] \in {"reasoning", "saving"} \/ Decided(c) => evidence[c].policies \in Answers
    /\ stage[c] = "saving" \/ Decided(c) => verdict[c] = FinalDecision(evidence[c])

LEMMA JudgedInit == ASSUME Init, NEW c \in Calls PROVE Judged(c)
<1>1. DOMAIN rows = {} BY DEF Init
<1> QED BY <1>1 DEF Init, Judged, Decided

LEMMA JudgedStep ==
    ASSUME PipelineInv, NEW c \in Calls, Judged(c),
           Receive(c) \/ Pipeline(c) \/ AiService(c) \/ CallDies(c)
    PROVE  Judged(c)'
<1> USE DEF records
<1>1. TypeOK /\ Kept(c) BY DEF PipelineInv
<1>2. \A s : Goto(c, s) => stage'[c] = s
    BY <1>1 DEF Goto, TypeOK
<1>3. Decided(c)' => Decided(c) \/ (Save(c) /\ Insert(c))
    BY DEF Pipeline, Receive, Retrieve, EvaluatePolicies, Fallback, AiService, Analyse, Reply, JobFails,
           Save, EmitAudit, PublishDecision, PublishCompleted, CallDies, Decided
<1>4. ASSUME Receive(c) PROVE Judged(c)'
    <2>1. evidence'[c].request \in Requests /\ stage'[c] = "retrieving"
        BY <1>1, <1>2, <1>4 DEF Receive, TypeOK
    <2>2. ~Decided(c)' BY <1>1, <1>4 DEF Receive, Kept, Deciding, Decided
    <2> QED BY <2>1, <2>2 DEF Judged
<1>5. ASSUME Retrieve(c) PROVE Judged(c)'
    <2>1. evidence'[c].request = evidence[c].request /\ stage'[c] = "evaluating"
        BY <1>1, <1>2, <1>5 DEF Retrieve, TypeOK
    <2>2. ~Decided(c)' BY <1>1, <1>5 DEF Retrieve, Kept, Deciding, Decided
    <2> QED BY <1>5, <2>1, <2>2 DEF Judged, Retrieve
<1>6. ASSUME EvaluatePolicies(c) PROVE Judged(c)'
    <2>1. /\ evidence'[c].request = evidence[c].request /\ stage'[c] = "reasoning"
          /\ evidence'[c].policies \in Answers
        BY <1>1, <1>2, <1>6 DEF EvaluatePolicies, TypeOK, Answers
    <2>2. ~Decided(c)' BY <1>1, <1>6 DEF EvaluatePolicies, Kept, Deciding, Decided
    <2> QED BY <1>6, <2>1, <2>2 DEF Judged, EvaluatePolicies
<1>7. ASSUME NEW ai, stage[c] = "reasoning", Conclude(c, ai) PROVE Judged(c)'
    <2>1. evidence'[c] = [evidence[c] EXCEPT !.ai = ai] BY <1>1, <1>7 DEF Conclude, TypeOK
    <2>2. evidence'[c].request = evidence[c].request /\ evidence'[c].policies = evidence[c].policies
        BY <1>1, <2>1 DEF TypeOK
    <2>3. verdict'[c] = FinalDecision([evidence[c] EXCEPT !.ai = ai])
        BY <1>1, <1>7 DEF Conclude, TypeOK
    <2>4. verdict'[c] = FinalDecision(evidence'[c]) BY <2>1, <2>3
    <2>5. verdict'[c] = FinalDecision(evidence[c])' BY <2>4
    <2> QED BY <1>7, <2>2, <2>5 DEF Judged
<1>8. ASSUME UNCHANGED <<evidence, verdict>>,
             stage'[c] \in {"retrieving", "evaluating", "reasoning", "saving"} => stage'[c] = stage[c],
             Decided(c)' => Decided(c) \/ stage[c] = "saving"
      PROVE  Judged(c)'
    <2>1. FinalDecision(evidence[c])' = FinalDecision(evidence[c]) BY <1>8
    <2> HIDE DEF Decided, FinalDecision
    <2> QED BY <1>8, <2>1 DEF Judged
<1>9. ASSUME UNCHANGED <<stage, evidence, verdict, rows>> PROVE Judged(c)'
    BY <1>8, <1>9 DEF Decided
<1>10. ASSUME Fallback(c) PROVE Judged(c)'
    <2>1. PICK ai : ai = EscalateFallback OBVIOUS
    <2> QED BY <1>7, <1>10, <2>1 DEF Fallback
<1>11. ASSUME AiService(c) PROVE Judged(c)'
    <2>1. PICK ai : ai = analysed[c] OBVIOUS
    <2> QED BY <1>7, <1>9, <1>11, <2>1 DEF AiService, Analyse, Reply, JobFails
<1>12. ASSUME Save(c) \/ EmitAudit(c) \/ PublishDecision(c) \/ PublishCompleted(c) \/ CallDies(c)
       PROVE  Judged(c)'
    <2>1. stage'[c] \in {"auditing", "publishing", "completing", "answered", "failed"}
        BY <1>2, <1>12 DEF Save, EmitAudit, PublishDecision, PublishCompleted, CallDies
    <2>2. UNCHANGED <<evidence, verdict>> /\ (Save(c) => stage[c] = "saving")
        BY <1>12 DEF Save, EmitAudit, PublishDecision, PublishCompleted, CallDies
    <2> QED BY <1>3, <1>8, <2>1, <2>2
<1> QED BY <1>4, <1>5, <1>6, <1>10, <1>11, <1>12 DEF Pipeline

\* A verdict is the one FinalDecision computes from the answers its call has gathered:
\* nothing between the scoring and the row changes either.
THEOREM DecisionsAreComputed == Spec => [](\A c \in Calls : Judged(c))
<1>1. Init => \A c \in Calls : Judged(c)
    BY JudgedInit
<1>2. ASSUME PipelineInv, \A c \in Calls : Judged(c), [Next]_vars PROVE (\A c \in Calls : Judged(c))'
    <2>1. CASE UNCHANGED vars
        BY <1>2, <2>1 DEF vars, Judged, Decided
    <2>2. ASSUME NEW c \in Calls, Receive(c) \/ Pipeline(c) \/ AiService(c) \/ CallDies(c), NEW d \in Calls
          PROVE  Judged(d)'
        <3>1. CASE d = c BY <1>2, <2>2, <3>1, JudgedStep
        <3>2. CASE d # c
            <4>1. stage'[d] = stage[d] /\ verdict'[d] = verdict[d] /\ evidence'[d] = evidence[d]
                BY <1>2, <2>2, <3>2
                   DEF PipelineInv, TypeOK, Pipeline, Receive, Retrieve, EvaluatePolicies, Fallback,
                       Conclude, AiService, Analyse, Reply, JobFails, Save, EmitAudit, PublishDecision,
                       PublishCompleted, CallDies, Goto, records
            <4>2. Decided(d)' <=> Decided(d)
                BY <2>2, <3>2
                   DEF Pipeline, Receive, Retrieve, EvaluatePolicies, Fallback, AiService, Analyse,
                       Reply, JobFails, Save, Insert, EmitAudit, PublishDecision, PublishCompleted,
                       CallDies, records, Decided
            <4>3. FinalDecision(evidence[d])' = FinalDecision(evidence[d]) BY <4>1
            <4> HIDE DEF Decided, FinalDecision
            <4> QED BY <1>2, <4>1, <4>2, <4>3 DEF Judged
        <3> QED BY <3>1, <3>2
    <2> QED BY <1>2, <2>1, <2>2 DEF Next
<1> QED BY <1>1, <1>2, PipelineInvariance, PTL DEF Spec

\* No application is approved against a policy, a sanctions hit or a missing
\* verification, on a low confidence, or without an analysis that recommends it.
THEOREM ApprovalsAreWarranted == Spec => []ApprovalIsWarranted
<1>1. ASSUME PipelineInv, \A c \in Calls : Judged(c) PROVE ApprovalIsWarranted
    <2> SUFFICES ASSUME NEW c \in Calls, NEW e, Decided(c), rows[c].decision = "APPROVE", e = rows[c].evidence
                 PROVE  /\ e.ai.recommendation = "APPROVE" /\ e.ai # EscalateFallback
                        /\ e.request.kycVerified /\ e.request.sanctionsHits = 0
                        /\ ~(CompositeConfidence(e) < 7500)
                        /\ \A p \in Paths : e.policies[p] # Unavailable
                        /\ \A p \in Paths : e.policies[p].allow \/ e.policies[p].violations = << >>
        BY DEF ApprovalIsWarranted
    <2>1. /\ e.request \in Request /\ e.policies \in Answers /\ FinalDecision(e) = "APPROVE"
        <3>1. rows[c] = Row(c) /\ Judged(c) BY <1>1 DEF PipelineInv, Kept
        <3>2. e = evidence[c] /\ verdict[c] = "APPROVE" BY <3>1 DEF Row
        <3> QED BY <3>1, <3>2, RequestsAssumption DEF Judged
    <2>2. /\ EscalationReasons(e) = {} /\ AllPassed(e.policies) /\ e.ai.recommendation = "APPROVE"
        BY <2>1 DEF FinalDecision
    <2>3. e.ai # EscalateFallback
        BY <2>2 DEF EscalateFallback
    <2>4. ~(CompositeConfidence(e) < 7500)
        BY <2>2 DEF EscalationReasons
    <2>5. e.request.kycVerified
        BY <2>2 DEF EscalationReasons
    <2>6. e.request.sanctionsHits = 0
        <3>1. ~(e.request.sanctionsHits > 0) BY <2>2 DEF EscalationReasons
        <3> QED BY <2>1, <3>1 DEF Request
    <2>7. ASSUME NEW p \in Paths
          PROVE  e.policies[p] # Unavailable /\ (e.policies[p].allow \/ e.policies[p].violations = << >>)
        <3> SUFFICES ASSUME ~Passed(e.policies[p])
                     PROVE e.policies[p] # Unavailable /\ e.policies[p].violations = << >>
            BY DEF Passed
        <3> DEFINE Failing(q) == IF e.policies[q] = Unavailable THEN {1} ELSE DOMAIN e.policies[q].violations
        <3>1. Failing(p) = {}
            <4> SUFFICES ASSUME NEW i \in Failing(p) PROVE FALSE OBVIOUS
            <4>1. <<p, i>> \in {p} \X Failing(p) OBVIOUS
            <4>2. {p} \X Failing(p) \in {{q} \X Failing(q) : q \in {q \in Paths : ~Passed(e.policies[q])}}
                OBVIOUS
            <4>3. <<p, i>> \in Failures(e.policies) BY <4>1, <4>2 DEF Failures
            <4> QED BY <2>2, <4>3 DEF AllPassed
        <3>2. e.policies[p] # Unavailable /\ DOMAIN e.policies[p].violations = {}
            BY <3>1
        <3>3. e.policies[p] = OpaUnavailable \/ e.policies[p].violations \in Seq(Severities)
            BY <2>1, <3>2, EvaluationsAssumption DEF Answers, Evaluation
        <3>4. OpaUnavailable.violations \in Seq(Severities)
            BY DEF OpaUnavailable, Severities
        <3>5. e.policies[p].violations \in Seq(Severities) BY <3>3, <3>4
        <3>6. \A s \in Seq(Severities) : DOMAIN s = {} => s = << >> OBVIOUS
        <3> QED BY <3>2, <3>5, <3>6
    <2> QED BY <2>2, <2>3, <2>4, <2>5, <2>6, <2>7
<1> QED BY <1>1, PipelineInvariance, DecisionsAreComputed, PTL

-----------------------------------------------------------------------------
(* What the answers of the services are.                                     *)

\* An analysis comes from the analyser or the model that was given the request, and
\* the retrieval found some documents or none.
Grounded(c) ==
    /\ stage[c] = "idle" => job[c] = "none"
    /\ job[c] = "stored" => analysed[c] \in Analyses(evidence[c].request)
    /\ stage[c] \in {"evaluating", "reasoning", "saving"} \/ Decided(c) =>
          evidence[c].rag \in Retrievals \cup {EmptyOutput}
    /\ stage[c] = "saving" \/ Decided(c) =>
          evidence[c].ai \in Analyses(evidence[c].request) \cup {EscalateFallback}

LEMMA GroundedStep ==
    ASSUME PipelineInv, NEW c \in Calls, Grounded(c),
           Receive(c) \/ Pipeline(c) \/ AiService(c) \/ CallDies(c)
    PROVE  Grounded(c)'
<1> USE DEF records
<1>1. TypeOK /\ Kept(c) BY DEF PipelineInv
<1>2. \A s : Goto(c, s) => stage'[c] = s
    BY <1>1 DEF Goto, TypeOK
<1>3. \A r, s : r = s => Analyses(r) = Analyses(s)
    OBVIOUS
<1> HIDE DEF Analyses
<1>4. ASSUME Receive(c) PROVE Grounded(c)'
    <2>1. stage[c] = "idle" /\ job'[c] = "none" /\ stage'[c] = "retrieving"
        BY <1>2, <1>4 DEF Receive, Grounded
    <2>2. ~Decided(c)' BY <1>1, <1>4 DEF Receive, Kept, Deciding, Decided
    <2> QED BY <2>1, <2>2 DEF Grounded
<1>5. ASSUME Retrieve(c) PROVE Grounded(c)'
    <2>1. /\ evidence'[c].request = evidence[c].request /\ stage'[c] = "evaluating"
          /\ evidence'[c].rag \in Retrievals \cup {EmptyOutput}
        BY <1>1, <1>2, <1>5 DEF Retrieve, TypeOK
    <2>2. ~Decided(c)' BY <1>1, <1>5 DEF Retrieve, Kept, Deciding, Decided
    <2> QED BY <1>3, <1>5, <2>1, <2>2 DEF Grounded, Retrieve
<1>6. ASSUME EvaluatePolicies(c) PROVE Grounded(c)'
    <2>1. /\ evidence'[c].rag = evidence[c].rag /\ stage'[c] = "reasoning" /\ job'[c] = "analysing"
        BY <1>1, <1>2, <1>6 DEF EvaluatePolicies, TypeOK
    <2>2. ~Decided(c)' BY <1>1, <1>6 DEF EvaluatePolicies, Kept, Deciding, Decided
    <2> QED BY <1>6, <2>1, <2>2 DEF Grounded, EvaluatePolicies
<1>7. ASSUME NEW ai \in Analyses(evidence[c].request) \cup {EscalateFallback},
             stage[c] = "reasoning", Conclude(c, ai), rows' = rows, analysed' = analysed,
             job'[c] \in {job[c], "done"}
      PROVE  Grounded(c)'
    <2>1. /\ evidence'[c].request = evidence[c].request /\ evidence'[c].rag = evidence[c].rag
          /\ evidence'[c].ai = ai /\ stage'[c] = "saving"
        BY <1>1, <1>2, <1>7 DEF Conclude, TypeOK
    <2> QED BY <1>3, <1>7, <2>1 DEF Grounded
<1>8. ASSUME UNCHANGED <<evidence, job, analysed>>,
             stage'[c] \in {"idle", "evaluating", "reasoning", "saving"} => stage'[c] = stage[c],
             Decided(c)' => Decided(c) \/ stage[c] = "saving"
      PROVE  Grounded(c)'
    <2>1. Analyses(evidence[c].request)' = Analyses(evidence[c].request) BY <1>3, <1>8
    <2> HIDE DEF Decided
    <2> QED BY <1>8, <2>1 DEF Grounded
<1>9. ASSUME Fallback(c) PROVE Grounded(c)'
    <2>1. PICK ai : ai = EscalateFallback OBVIOUS
    <2> QED BY <1>7, <1>9, <2>1 DEF Fallback
<1>10. ASSUME AiService(c) PROVE Grounded(c)'
    <2>1. CASE Reply(c) /\ stage[c] = "reasoning"
        <3>1. PICK ai : ai = analysed[c] OBVIOUS
        <3>2. ai \in Analyses(evidence[c].request) BY <2>1, <3>1 DEF Grounded, Reply
        <3> QED BY <1>1, <1>7, <2>1, <3>1, <3>2 DEF Reply, TypeOK
    <2>2. CASE (Reply(c) /\ stage[c] # "reasoning") \/ JobFails(c)
        <3>1. job'[c] = "done" /\ job[c] # "none" /\ UNCHANGED <<stage, evidence, analysed, rows>>
            BY <1>1, <2>2 DEF Reply, JobFails, TypeOK
        <3>2. Analyses(evidence[c].request)' = Analyses(evidence[c].request) BY <1>3, <3>1
        <3> QED BY <3>1, <3>2 DEF Grounded, Decided
    <2>3. CASE Analyse(c)
        <3>1. /\ job'[c] = "stored" /\ job[c] # "none" /\ UNCHANGED <<stage, evidence, rows>>
              /\ analysed'[c] \in Analyses(evidence[c].request)
            BY <1>1, <2>3 DEF Analyse, TypeOK
        <3>2. Analyses(evidence[c].request)' = Analyses(evidence[c].request) BY <1>3, <3>1
        <3> QED BY <3>1, <3>2 DEF Grounded, Decided
    <2> QED BY <1>10, <2>1, <2>2, <2>3 DEF AiService
<1>11. ASSUME Save(c) \/ EmitAudit(c) \/ PublishDecision(c) \/ PublishCompleted(c) \/ CallDies(c)
       PROVE  Grounded(c)'
    <2>1. stage'[c] \in {"auditing", "publishing", "completing", "answered", "failed"}
        BY <1>2, <1>11 DEF Save, EmitAudit, PublishDecision, PublishCompleted, CallDies
    <2>2. /\ UNCHANGED <<evidence, job, analysed>>
          /\ Decided(c)' => Decided(c) \/ stage[c] = "saving"
        BY <1>11 DEF Save, EmitAudit, PublishDecision, PublishCompleted, CallDies, Decided
    <2> QED BY <1>8, <2>1, <2>2
<1> QED BY <1>4, <1>5, <1>6, <1>9, <1>10, <1>11 DEF Pipeline

\* A decision rests on documents that were found or on none, and on an analysis of its
\* own request or on the fallback.
THEOREM AnswersAreGrounded == Spec => [](\A c \in Calls : Grounded(c))
<1>1. Init => \A c \in Calls : Grounded(c)
    <2> SUFFICES ASSUME Init, NEW c \in Calls PROVE Grounded(c) OBVIOUS
    <2>1. DOMAIN rows = {} BY DEF Init
    <2> QED BY <2>1 DEF Init, Grounded, Decided
<1>2. ASSUME PipelineInv, \A c \in Calls : Grounded(c), [Next]_vars
      PROVE  (\A c \in Calls : Grounded(c))'
    <2>1. CASE UNCHANGED vars
        <3>1. \A c \in Calls : Analyses(evidence[c].request)' = Analyses(evidence[c].request)
            BY <2>1 DEF vars
        <3> QED BY <1>2, <2>1, <3>1 DEF vars, Grounded, Decided
    <2>2. ASSUME NEW c \in Calls, Receive(c) \/ Pipeline(c) \/ AiService(c) \/ CallDies(c), NEW d \in Calls
          PROVE  Grounded(d)'
        <3>1. CASE d = c BY <1>2, <2>2, <3>1, GroundedStep
        <3>2. CASE d # c
            <4>1. /\ stage'[d] = stage[d] /\ job'[d] = job[d] /\ analysed'[d] = analysed[d]
                  /\ evidence'[d] = evidence[d]
                BY <1>2, <2>2, <3>2
                   DEF PipelineInv, TypeOK, Pipeline, Receive, Retrieve, EvaluatePolicies, Fallback,
                       Conclude, AiService, Analyse, Reply, JobFails, Save, EmitAudit, PublishDecision,
                       PublishCompleted, CallDies, Goto, records
            <4>2. Decided(d)' <=> Decided(d)
                BY <2>2, <3>2
                   DEF Pipeline, Receive, Retrieve, EvaluatePolicies, Fallback, AiService, Analyse,
                       Reply, JobFails, Save, Insert, EmitAudit, PublishDecision, PublishCompleted,
                       CallDies, records, Decided
            <4>3. Analyses(evidence[d].request)' = Analyses(evidence[d].request) BY <4>1
            <4> HIDE DEF Decided
            <4> QED BY <1>2, <4>1, <4>2, <4>3 DEF Grounded
        <3> QED BY <3>1, <3>2
    <2> QED BY <1>2, <2>1, <2>2 DEF Next
<1> QED BY <1>1, <1>2, PipelineInvariance, PTL DEF Spec

-----------------------------------------------------------------------------
(* What failures and retries can change.                                     *)

\* Every policy answered where all of them passed.
LEMMA PassedAnswered ==
    ASSUME NEW policies, AllPassed(policies), NEW p \in Paths
    PROVE  policies[p] # Unavailable
<1> SUFFICES ASSUME policies[p] = Unavailable PROVE FALSE
    OBVIOUS
<1> DEFINE Failing(q) == IF policies[q] = Unavailable THEN {1} ELSE DOMAIN policies[q].violations
<1>1. p \in {q \in Paths : ~Passed(policies[q])} BY DEF Passed
<1>2. <<p, 1>> \in {p} \X Failing(p) OBVIOUS
<1>3. {p} \X Failing(p) \in {{q} \X Failing(q) : q \in {q \in Paths : ~Passed(policies[q])}}
    BY <1>1
<1>4. <<p, 1>> \in Failures(policies) BY <1>2, <1>3 DEF Failures
<1> QED BY <1>4 DEF AllPassed

\* An answer that blocks is given again, unless the policy is not evaluated then.
LEMMA AgreeingNeverContradict ==
    ASSUME NEW d, NEW e, Agree(d, e), FinalDecision(d) = "APPROVE", FinalDecision(e) = "REJECT"
    PROVE  FALSE
<1>1. ~HardBlocked(d.policies) /\ AllPassed(d.policies) /\ d.ai.recommendation = "APPROVE"
    BY DEF FinalDecision
<1>2. CASE HardBlocked(e.policies)
    <2>1. PICK p \in Paths : ~Passed(e.policies[p]) /\ HardBlock(e.policies[p])
        BY <1>2 DEF HardBlocked
    <2>2. e.policies[p] # Unavailable BY <2>1 DEF HardBlock
    <2>3. d.policies[p] # Unavailable BY <1>1, PassedAnswered
    <2>4. d.policies[p] = e.policies[p] BY <2>2, <2>3 DEF Agree
    <2>5. HardBlocked(d.policies) BY <2>1, <2>4 DEF HardBlocked
    <2> QED BY <1>1, <2>5
<1>3. CASE ~HardBlocked(e.policies)
    <2>1. e.ai.recommendation = "REJECT" BY <1>3 DEF FinalDecision
    <2>2. e.ai # EscalateFallback /\ d.ai # EscalateFallback
        BY <1>1, <2>1 DEF EscalateFallback
    <2> QED BY <1>1, <2>1, <2>2 DEF Agree
<1> QED BY <1>2, <1>3

\* Two decisions on the same request never contradict each other, whatever is posted
\* again and whichever services failed for the one or the other, as long as no service
\* contradicts itself.
THEOREM RetriesNeverContradict == Spec => []RetriesAgree
<1>1. ASSUME PipelineInv, \A c \in Calls : Judged(c) PROVE RetriesAgree
    <2> SUFFICES ASSUME NEW c \in Calls, NEW d \in Calls, Decided(c), Decided(d),
                        Agree(rows[c].evidence, rows[d].evidence)
                 PROVE  \/ rows[c].decision = rows[d].decision
                        \/ "MANUAL_REVIEW" \in {rows[c].decision, rows[d].decision}
        BY DEF RetriesAgree
    <2>1. ASSUME NEW a \in Calls, Decided(a)
          PROVE  /\ rows[a].decision = FinalDecision(rows[a].evidence)
                 /\ rows[a].decision \in Recommendations
        <3>1. rows[a] = Row(a) /\ Judged(a) BY <1>1, <2>1 DEF PipelineInv, Kept
        <3>2. rows[a].evidence = evidence[a] /\ rows[a].decision = verdict[a] BY <3>1 DEF Row
        <3>3. verdict[a] = FinalDecision(evidence[a]) BY <2>1, <3>1 DEF Judged
        <3>4. FinalDecision(rows[a].evidence) = FinalDecision(evidence[a]) BY <3>2
        <3>5. verdict[a] \in Recommendations BY <1>1 DEF PipelineInv, TypeOK
        <3> QED BY <3>2, <3>3, <3>4, <3>5
    <2>2. Agree(rows[d].evidence, rows[c].evidence)
        BY DEF Agree
    <2>3. /\ ~(rows[c].decision = "APPROVE" /\ rows[d].decision = "REJECT")
          /\ ~(rows[d].decision = "APPROVE" /\ rows[c].decision = "REJECT")
        BY <2>1, <2>2, AgreeingNeverContradict
    <2> QED BY <2>1, <2>3 DEF Recommendations
<1> QED BY <1>1, PipelineInvariance, DecisionsAreComputed, PTL

-----------------------------------------------------------------------------
(* The scores that a failure moves.                                          *)

LEMMA ScoresAreNatural == \A x \in Score : x \in Nat
BY DEF Score, Scale

LEMMA QuotientsAreNatural ==
    ASSUME NEW a \in Nat, NEW b \in Nat \ {0}
    PROVE  Rounded(a, b) \in Nat
<1> DEFINE n == 2 * a + b
           k == 2 * b
<1>1. n \in Nat /\ k \in Nat \ {0} OBVIOUS
<1> HIDE DEF n, k
<1>2. n \div k \in Nat BY <1>1
<1> QED BY <1>2 DEF Rounded, n, k

\* What is found never counts for less than nothing.
LEMMA QualityIsNatural ==
    ASSUME NEW rag \in Retrievals \cup {EmptyOutput} PROVE QualityScore(rag) \in Nat
<1>1. CASE rag.count = 0 BY <1>1 DEF QualityScore
<1>2. CASE rag.count # 0
    <2>1. rag.count \in Nat /\ rag.similarity \in Nat
        <3>1. rag \in Retrieval BY <1>2, RetrievalsAssumption DEF EmptyOutput
        <3>2. rag.count \in 0 .. TopK /\ rag.similarity \in Score BY <3>1 DEF Retrieval
        <3>3. \A x \in 0 .. TopK : x \in Nat BY TopKAssumption
        <3> QED BY <3>2, <3>3, ScoresAreNatural
    <2> DEFINE target == Higher(TopK, 2)
    <2>2. target \in Nat \ {0} BY TopKAssumption DEF Higher
    <2>3. 4000 * Lower(2 * rag.count, target) \in Nat BY <2>1, <2>2 DEF Lower
    <2>4. Rounded(4000 * Lower(2 * rag.count, target), target) \in Nat
        BY <2>2, <2>3, QuotientsAreNatural
    <2>5. Rounded(6 * rag.similarity, 10) \in Nat
        BY <2>1, QuotientsAreNatural
    <2> QED BY <1>2, <2>4, <2>5 DEF QualityScore
<1> QED BY <1>1, <1>2

LEMMA AnalysesAreConfident ==
    ASSUME NEW request \in Request, NEW ai \in Analyses(request) PROVE ai.confidence \in Int
<1>1. CASE ~MockMode
    <2>1. ai \in Analysis BY <1>1, AssessmentsAssumption DEF Analyses
    <2>2. ai.confidence \in Score BY <2>1 DEF Analysis
    <2> QED BY <2>2, ScoresAreNatural
<1>2. CASE MockMode
    <2> DEFINE rules == Rules(request)
               sum == 1000 + rules[1].risk + rules[2].risk + rules[3].risk
                           + rules[4].risk + rules[5].risk + rules[6].risk
    <2>1. rules[1].risk \in Int BY DEF Rules, CreditRule, Rule
    <2>2. rules[2].risk \in Int BY DEF Rules, DebtRule, Rule
    <2>3. rules[3].risk \in Int
        <3>1. \A a, b, w, r : Rule(a, b, w, r).risk = r BY DEF Rule
        <3>2. EmploymentRule(request.employment).risk \in {-500, 500, 3000, 0}
            BY <3>1 DEF EmploymentRule, NoRule, Request
        <3> QED BY <3>2 DEF Rules
    <2>4. rules[4].risk \in Int
        <3>1. request.fraudScore \in Nat BY ScoresAreNatural DEF Request
        <3>2. \A a, b, w, r : Rule(a, b, w, r).risk = r BY DEF Rule
        <3>3. \A x \in Nat : (3 * x) \div 10 \in Int OBVIOUS
        <3>4. FraudRule(request.fraudScore).risk \in Int BY <3>1, <3>2, <3>3 DEF FraudRule, NoRule
        <3> QED BY <3>4 DEF Rules
    <2>5. rules[5].risk \in Int
        <3>1. PolicyFlags(request) \in Nat BY DEF PolicyFlags, Request
        <3> QED BY <3>1 DEF Rules, FlagsRule, Rule, NoRule
    <2>6. rules[6].risk \in Int BY DEF Rules, KycRule, Rule, NoRule
    <2>7. sum \in Int BY <2>1, <2>2, <2>3, <2>4, <2>5, <2>6
    <2>8. Clamped(sum) \in Int
        <3> HIDE DEF sum
        <3> QED BY <2>7 DEF Clamped, Higher, Lower, Scale
    <2>9. ai.confidence = Higher(5000, Scale - (3 * Clamped(sum)) \div 10)
        BY <1>2 DEF Analyses, MockAnalysis
    <2> HIDE DEF sum
    <2> QED BY <2>8, <2>9 DEF Higher, Scale
<1> QED BY <1>1, <1>2

LEMMA PartsAreIntegers ==
    ASSUME NEW request \in Request, NEW policies
    PROVE  DataCompleteness(request) \in Int /\ PolicyConfidence(policies) \in Int
<1>1. DataCompleteness(request) \in Int
    BY DEF DataCompleteness, Rounded, Request, Scale
<1>2. PolicyConfidence(policies) \in Int
    <2> DEFINE passed == {p \in Paths : Passed(policies[p])}
    <2>1. IsFiniteSet(passed) BY PathsAssumption, FS_Subset
    <2>2. Cardinality(passed) \in Nat /\ Cardinality(Paths) \in Nat \ {0}
        BY <2>1, PathsAssumption, FS_CardinalityType, FS_EmptySet
    <2>3. Scale * Cardinality(passed) \in Nat BY <2>2 DEF Scale
    <2> HIDE DEF passed
    <2>4. Rounded(Scale * Cardinality(passed), Cardinality(Paths)) \in Nat
        BY <2>2, <2>3, QuotientsAreNatural
    <2> QED BY <2>4 DEF PolicyConfidence, passed
<1> QED BY <1>1, <1>2

\* Documents only add to the confidence in a decision.
LEMMA DocumentsAddConfidence ==
    ASSUME NEW d, NEW e, d.request = e.request, d.policies = e.policies, d.ai = e.ai,
           e.request \in Request, e.ai.confidence \in Int,
           QualityScore(d.rag) \in Int, QualityScore(e.rag) \in Int,
           QualityScore(e.rag) <= QualityScore(d.rag)
    PROVE  /\ CompositeConfidence(d) \in Int /\ CompositeConfidence(e) \in Int
           /\ CompositeConfidence(e) <= CompositeConfidence(d)
<1> DEFINE base == 40 * e.ai.confidence + 25 * PolicyConfidence(e.policies) + 20 * DataCompleteness(e.request)
<1>1. base \in Int BY PartsAreIntegers
<1>2. /\ CompositeConfidence(d) = Lower(Rounded(base + 15 * QualityScore(d.rag), 100), Scale)
      /\ CompositeConfidence(e) = Lower(Rounded(base + 15 * QualityScore(e.rag), 100), Scale)
    BY PartsAreIntegers DEF CompositeConfidence
<1> HIDE DEF base
<1>3. \A x, y \in Int : x <= y =>
         /\ Rounded(base + 15 * x, 100) \in Int /\ Rounded(base + 15 * y, 100) \in Int
         /\ Rounded(base + 15 * x, 100) <= Rounded(base + 15 * y, 100)
    BY <1>1 DEF Rounded
<1> QED BY <1>2, <1>3 DEF Lower, Scale

\* With the answers that were missing, an automatic decision would have been the same.
LEMMA AnswersConfirm ==
    ASSUME NEW d, NEW e, Completes(d, e), e.request \in Request,
           d.policies \in Answers, e.policies \in Answers,
           d.rag \in Retrievals \cup {EmptyOutput}, e.rag \in Retrievals \cup {EmptyOutput},
           e.ai \in Analyses(e.request) \cup {EscalateFallback},
           FinalDecision(e) # "MANUAL_REVIEW"
    PROVE  FinalDecision(d) = FinalDecision(e)
<1>1. CASE HardBlocked(e.policies)
    <2>1. PICK p \in Paths : ~Passed(e.policies[p]) /\ HardBlock(e.policies[p])
        BY <1>1 DEF HardBlocked
    <2>2. d.policies[p] = e.policies[p] BY <2>1 DEF HardBlock, Completes
    <2>3. HardBlocked(d.policies) BY <2>1, <2>2 DEF HardBlocked
    <2> QED BY <1>1, <2>3 DEF FinalDecision
<1>2. CASE ~HardBlocked(e.policies)
    <2>1. EscalationReasons(e) = {} /\ AllPassed(e.policies) /\ FinalDecision(e) = e.ai.recommendation
        BY <1>2 DEF FinalDecision
    <2>2. ~(CompositeConfidence(e) < 7500) /\ e.ai.confidence # 0
        BY <2>1 DEF EscalationReasons
    <2>3. e.ai # EscalateFallback BY <2>2 DEF EscalateFallback
    <2>4. d.ai = e.ai /\ d.request = e.request BY <2>3 DEF Completes
    <2>5. d.policies = e.policies
        <3>1. \A p \in Paths : d.policies[p] = e.policies[p]
            BY <2>1, PassedAnswered DEF Completes
        <3> QED BY <3>1 DEF Answers
    <2>6. /\ QualityScore(d.rag) \in Nat /\ QualityScore(e.rag) \in Nat
          /\ QualityScore(e.rag) <= QualityScore(d.rag)
        <3>1. QualityScore(d.rag) \in Nat /\ QualityScore(e.rag) \in Nat BY QualityIsNatural
        <3>2. CASE e.rag = EmptyOutput
            <4>1. QualityScore(e.rag) = 0 BY <3>2 DEF QualityScore, EmptyOutput
            <4> QED BY <3>1, <4>1
        <3>3. CASE d.rag = e.rag BY <3>1, <3>3
        <3> QED BY <3>2, <3>3 DEF Completes
    <2>7. e.ai.confidence \in Int BY <2>3, AnalysesAreConfident
    <2>8. ~(CompositeConfidence(d) < 7500)
        <3>1. /\ CompositeConfidence(d) \in Int /\ CompositeConfidence(e) \in Int
              /\ CompositeConfidence(e) <= CompositeConfidence(d)
            BY <2>4, <2>5, <2>6, <2>7, DocumentsAddConfidence
        <3> QED BY <2>2, <3>1
    <2>9. d.rag.count = 0 => e.rag.count = 0
        BY DEF Completes, EmptyOutput
    <2>10. EscalationReasons(d) = {}
        <3>1. RiskScore(d.request, d.policies, d.ai) = RiskScore(e.request, e.policies, e.ai)
            BY <2>4, <2>5
        <3> HIDE DEF RiskScore, CompositeConfidence
        <3> QED BY <1>2, <2>1, <2>4, <2>5, <2>8, <2>9, <3>1 DEF EscalationReasons
    <2> QED BY <1>2, <2>1, <2>4, <2>5, <2>10 DEF FinalDecision
<1> QED BY <1>1, <1>2

\* Whatever the failed services would have answered, an application that was approved
\* or rejected without them would have been approved or rejected with them.
THEOREM FailuresOnlyRefer == Spec => []FailureOnlyRefers
<1>1. ASSUME PipelineInv, \A c \in Calls : Judged(c), \A c \in Calls : Grounded(c)
      PROVE  FailureOnlyRefers
    <2> SUFFICES ASSUME NEW c \in Calls, Decided(c), NEW e, e = rows[c].evidence, NEW d,
                        d.policies \in Answers, d.rag \in Retrievals \cup {EmptyOutput},
                        Completes(d, e), rows[c].decision # "MANUAL_REVIEW"
                 PROVE  rows[c].decision = FinalDecision(d)
        BY DEF FailureOnlyRefers, Answers
    <2>1. rows[c] = Row(c) /\ Judged(c) /\ Grounded(c) BY <1>1 DEF PipelineInv, Kept
    <2>2. e = evidence[c] /\ rows[c].decision = verdict[c] BY <2>1 DEF Row
    <2>3. verdict[c] = FinalDecision(evidence[c]) BY <2>1 DEF Judged
    <2>4. FinalDecision(e) = FinalDecision(evidence[c]) BY <2>2
    <2>5. e.request \in Request /\ e.policies \in Answers
        BY <2>1, <2>2, RequestsAssumption DEF Judged
    <2>6. e.rag \in Retrievals \cup {EmptyOutput} /\ e.ai \in Analyses(e.request) \cup {EscalateFallback}
        BY <2>1, <2>2 DEF Grounded
    <2> QED BY <2>2, <2>3, <2>4, <2>5, <2>6, AnswersConfirm
<1> QED BY <1>1, PipelineInvariance, DecisionsAreComputed, AnswersAreGrounded, PTL

=============================================================================
